-------------------------- MODULE OpuQueuesProofs --------------------------
(***************************************************************************)
(* Proofs about OpuQueues, for every number of processes, slots, SDMA      *)
(* queues and doorbells, in four layers.  Each layer's invariant is        *)
(* inductive relative to the ones before it.                               *)
(*                                                                         *)
(*  - IInv: types and EvictedIsInactive, whatever the firmware answers and *)
(*    whatever user mode does after a failed destroy, and SdmaExclusive if *)
(*    it does not destroy the queue again.  IInv adds what an operation    *)
(*    that has released dqm_lock may rely on when it takes it again (its   *)
(*    slot is still its own, and on no list), and which slots the          *)
(*    process's list of nodes may name (NodesAt).                          *)
(*  - BellsInv: DoorbellsExclusive.                                        *)
(*  - RegsInv, CountInv and NeedsInv: the list of processes, the run list  *)
(*    (RunlistFaithful), the counters (CountersExact) and exact            *)
(*    registration (RegisteredWhileNeeded), each under the hypotheses it   *)
(*    needs.                                                               *)
(*  - RunInv and LimitInv, which rest on exact counters: RunlistComplete   *)
(*    and LimitOvershoot.                                                  *)
(*                                                                         *)
(* The "Effect" lemmas say once what each action does to the state these   *)
(* invariants are about; the layers use them and no action's definition.   *)
(***************************************************************************)
EXTENDS OpuQueues, FiniteSetTheorems, WellFoundedInduction, TLAPS

\* What the run list functions may return.
Results == [d : Dqm, h : SUBSET (Procs \X Qids),
            ret : {"0", "EIO", "ENOMEM", "ETIME"}]

\* Counters stay in the range of an unsigned int.
LEMMA CounterOps ==
  ASSUME NEW n \in Counter, NEW k \in Nat
  PROVE  /\ Inc(n) \in Counter /\ Dec(n) \in Counter
         /\ Sub(n, k) \in Counter /\ (n + k) % UINT \in Counter
<1> DEFINE m == k * (UINT - 1)
<1>1. UINT \in Nat /\ UINT > 0 /\ n \in Nat
  BY OpuQueuesAssumption DEF Counter
<1>2. UINT - 1 \in Nat
  BY <1>1
<1>3. m \in Nat
  BY <1>2
<1>4. \A a \in Nat : a % UINT \in Counter
  BY <1>1 DEF Counter
<1> HIDE DEF m
<1>5. n + 1 \in Nat /\ n + UINT - 1 \in Nat /\ n + k \in Nat /\ n + m \in Nat
  BY <1>1, <1>2, <1>3
<1> QED
  BY <1>4, <1>5 DEF Inc, Dec, Sub, m

\* A set of slots is finite.
LEMMA FiniteSlots ==
  ASSUME NEW S, S \subseteq Qids
  PROVE  IsFiniteSet(S) /\ Cardinality(S) \in Nat
<1>1. 0 \in Int /\ MAX_PER_PROCESS - 1 \in Int
  BY OpuQueuesAssumption
<1>2. IsFiniteSet(Qids)
  BY <1>1, FS_Interval DEF Qids
<1> QED
  BY <1>2, FS_Subset, FS_CardinalityType

\* A non-empty set of numbers has a lowest element (find_first_bit).
LEMMA LowestIn ==
  ASSUME NEW S, S \subseteq Nat, S # {}
  PROVE  Lowest(S) \in S
<1> DEFINE R == OpToRel(<, Nat)
<1>1. IsWellFoundedOn(R, Nat)
  BY NatLessThanWellFounded
<1> HIDE DEF R
<1>2. PICK x \in S : \A y \in S : ~ (<<y, x>> \in R)
  BY <1>1, WFMin
<1>3. \A y \in S : ~ (y < x)
  BY <1>2 DEF R, OpToRel
<1>4. \A y \in S : x <= y
  BY <1>3
<1> QED
  BY <1>4 DEF Lowest

\* Slots, SDMA ids and doorbells are numbers, and NONE is none of them.
LEMMA IdsAreNumbers ==
  /\ Qids \subseteq Nat /\ SdmaIds \subseteq Nat /\ Doorbells \subseteq Nat
  /\ NONE \in Nat /\ NONE \notin Qids /\ NONE \notin SdmaIds
  /\ NONE \notin Doorbells
BY OpuQueuesAssumption DEF Qids, SdmaIds, Doorbells, NONE

\* Counting a queue in or out (increment_queue_count, decrement_queue_count)
\* keeps the dqm well typed and touches no SDMA bitmap.
LEMMA QueueCountType ==
  ASSUME NEW d \in Dqm, NEW type
  PROVE  /\ increment_queue_count(d, type) \in Dqm
         /\ increment_queue_count(d, type).sdma_bitmap = d.sdma_bitmap
         /\ decrement_queue_count(d, type) \in Dqm
         /\ decrement_queue_count(d, type).sdma_bitmap = d.sdma_bitmap
<1>1. \A n \in Counter : Inc(n) \in Counter /\ Dec(n) \in Counter
  BY CounterOps
<1> QED
  BY <1>1 DEF Dqm, increment_queue_count, decrement_queue_count

\* register_process and unregister_process, of a process that is not in the
\* list too, keep the dqm well typed and touch no SDMA bitmap.
LEMMA RegisterType ==
  ASSUME NEW d \in Dqm, NEW p \in Procs
  PROVE  /\ register_process(d, p) \in Dqm
         /\ register_process(d, p).sdma_bitmap = d.sdma_bitmap
         /\ unregister_process(d, p) \in Dqm
         /\ unregister_process(d, p).sdma_bitmap = d.sdma_bitmap
<1>1. d.registered \in [Procs -> Nat]
  BY DEF Dqm
<1> DEFINE up   == [d.registered EXCEPT ![p] = d.registered[p] + 1]
           down == [d.registered EXCEPT ![p] = IF d.registered[p] = 0 THEN 0
                                               ELSE d.registered[p] - 1]
<1>2. up \in [Procs -> Nat] /\ down \in [Procs -> Nat]
  BY <1>1
<1>3. /\ register_process(d, p) = [d EXCEPT !.registered = up]
      /\ unregister_process(d, p) = [d EXCEPT !.registered = down]
  BY DEF register_process, unregister_process
<1> HIDE DEF up, down
<1> QED
  BY <1>2, <1>3 DEF Dqm

\* Giving an SDMA queue back.
LEMMA DeallocateType ==
  ASSUME NEW d \in Dqm, NEW q \in Queue,
         q.type \in SdmaTypes => q.sdma_id \in SdmaIds
  PROVE  /\ deallocate_sdma_queue(d, q) \in Dqm
         /\ q.type \notin SdmaTypes => deallocate_sdma_queue(d, q) = d
         /\ q.type \in SdmaTypes => deallocate_sdma_queue(d, q).sdma_bitmap =
              [d.sdma_bitmap EXCEPT ![q.type] = @ \cup {q.sdma_id}]
<1>1. CASE q.type \notin SdmaTypes
  BY <1>1 DEF deallocate_sdma_queue
<1>2. CASE q.type \in SdmaTypes
  <2> DEFINE b == [d.sdma_bitmap EXCEPT
                     ![q.type] = d.sdma_bitmap[q.type] \cup {q.sdma_id}]
  <2>1. d.sdma_bitmap \in [SdmaTypes -> SUBSET SdmaIds]
    BY DEF Dqm
  <2>2. b \in [SdmaTypes -> SUBSET SdmaIds]
    BY <1>2, <2>1
  <2>3. deallocate_sdma_queue(d, q) = [d EXCEPT !.sdma_bitmap = b]
    BY <1>2 DEF deallocate_sdma_queue
  <2>4. [d.sdma_bitmap EXCEPT ![q.type] = @ \cup {q.sdma_id}] = b
    OBVIOUS
  <2> HIDE DEF b
  <2> QED
    BY <1>2, <2>2, <2>3, <2>4 DEF Dqm
<1> QED
  BY <1>1, <1>2

\* Counting a queue out, and a changed queue in or out.
LEMMA DestroyCountType ==
  ASSUME NEW d \in Dqm, NEW q \in Queue
  PROVE  /\ destroy_queue_count(d, q) \in Dqm
         /\ destroy_queue_count(d, q).sdma_bitmap = d.sdma_bitmap
<1> DEFINE e == IF q.is_active THEN decrement_queue_count(d, q.type) ELSE d
<1>1. e \in Dqm /\ e.sdma_bitmap = d.sdma_bitmap
  BY QueueCountType
<1>2. \A n \in Counter : Dec(n) \in Counter
  BY CounterOps, OpuQueuesAssumption
<1>3. destroy_queue_count(d, q) =
        [e EXCEPT !.total_queue_count = Dec(@),
                  !.gws_queue_count = IF q.is_active /\ q.is_gws
                                      THEN Dec(@) ELSE @]
  BY DEF destroy_queue_count
<1> HIDE DEF e
<1> QED
  BY <1>1, <1>2, <1>3 DEF Dqm

\* The same for the counting in update_queue.
LEMMA UpdateCountType ==
  ASSUME NEW d \in Dqm, NEW old \in Queue, NEW q \in Queue
  PROVE  /\ update_queue_count(d, old, q) \in Dqm
         /\ update_queue_count(d, old, q).sdma_bitmap = d.sdma_bitmap
<1> DEFINE e == IF q.is_active /\ ~old.is_active
                THEN increment_queue_count(d, q.type)
                ELSE IF ~q.is_active /\ old.is_active
                THEN decrement_queue_count(d, q.type) ELSE d
<1>1. e \in Dqm /\ e.sdma_bitmap = d.sdma_bitmap
  BY QueueCountType
<1>2. \A n \in Counter : Inc(n) \in Counter /\ Dec(n) \in Counter
  BY CounterOps, OpuQueuesAssumption
<1>3. update_queue_count(d, old, q) =
        IF ~q.is_active \/ q.gws = q.is_gws THEN e
        ELSE [e EXCEPT !.gws_queue_count = IF q.gws THEN Inc(@) ELSE Dec(@)]
  BY DEF update_queue_count
<1> HIDE DEF e
<1> QED
  BY <1>1, <1>2, <1>3 DEF Dqm

\* The same for the queues that an eviction or a termination takes off the
\* counters at once.
LEMMA DiscountType ==
  ASSUME NEW d \in Dqm, NEW p \in Procs, NEW S, S \subseteq Qids
  PROVE  /\ Discount(d, p, S) \in Dqm
         /\ Discount(d, p, S).sdma_bitmap = d.sdma_bitmap
<1>1. Cardinality(S) \in Nat
      /\ Cardinality({i \in S : is_cp(queue[p][i].type)}) \in Nat
  BY FiniteSlots
<1>2. \A n \in Counter, k \in Nat : Sub(n, k) \in Counter
  BY CounterOps
<1> QED
  BY <1>1, <1>2 DEF Discount, Dqm

\* Whatever the firmware answers to an unmap request, the dqm stays well typed
\* and the SDMA bitmaps stay as they are.
LEMMA UnmapType ==
  ASSUME NEW d \in Dqm, NEW h \in SUBSET (Procs \X Qids),
         NEW x \in unmap_queues_cpsch(d, h)
  PROVE  x \in Results /\ x.d.sdma_bitmap = d.sdma_bitmap
<1>1. \A ret \in {"0", "EIO", "ENOMEM", "ETIME"} :
         Result(d, h, ret) \in Results /\ Result(d, h, ret).d = d
  BY DEF Results, Result
<1>2. /\ [d EXCEPT !.active_runlist = FALSE] \in Dqm
      /\ [d EXCEPT !.active_runlist = FALSE].sdma_bitmap = d.sdma_bitmap
      /\ [d EXCEPT !.is_hws_hang = TRUE] \in Dqm
      /\ [d EXCEPT !.is_hws_hang = TRUE].sdma_bitmap = d.sdma_bitmap
  BY DEF Dqm
<1>3. \A o \in UnmapOutcomes :
         /\ unmap_result(d, h, o) \in Results
         /\ unmap_result(d, h, o).d.sdma_bitmap = d.sdma_bitmap
  <2> SUFFICES ASSUME NEW o \in UnmapOutcomes
               PROVE  /\ unmap_result(d, h, o) \in Results
                      /\ unmap_result(d, h, o).d.sdma_bitmap = d.sdma_bitmap
    OBVIOUS
  <2>1. o \in {"ok", "not_sent", "timeout", "unresponsive"}
    BY OpuQueuesAssumption
  <2>2. CASE o = "ok"
    BY <2>2, <1>2 DEF unmap_result, Results, Result
  <2>3. CASE o = "not_sent"
    BY <2>3 DEF unmap_result, Results, Result
  <2>4. CASE o = "timeout"
    BY <2>4, <1>2 DEF unmap_result, Results, Result
  <2>5. CASE o = "unresponsive"
    BY <2>5 DEF unmap_result, Results, Result
  <2> QED
    BY <2>1, <2>2, <2>3, <2>4, <2>5
<1> QED
  BY <1>1, <1>3 DEF unmap_queues_cpsch

\* The same for map_queues_cpsch.
LEMMA MapType ==
  ASSUME NEW d \in Dqm, NEW h \in SUBSET (Procs \X Qids),
         NEW run \in SUBSET (Procs \X Qids),
         NEW x \in map_queues_cpsch(d, h, run)
  PROVE  x \in Results /\ x.d.sdma_bitmap = d.sdma_bitmap
<1>1. \A ret \in {"0", "EIO", "ENOMEM", "ETIME"} :
         Result(d, h, ret) \in Results /\ Result(d, h, ret).d = d
  BY DEF Results, Result
<1>2. /\ [d EXCEPT !.active_runlist = TRUE] \in Dqm
      /\ [d EXCEPT !.active_runlist = TRUE].sdma_bitmap = d.sdma_bitmap
  BY DEF Dqm
<1>3. LET r == Result([d EXCEPT !.active_runlist = TRUE], run, "0")
      IN  r \in Results /\ r.d.sdma_bitmap = d.sdma_bitmap
  BY <1>2 DEF Results, Result
<1> QED
  BY <1>1, <1>3 DEF map_queues_cpsch

\* What the run list functions return, whatever the firmware answers.
LEMMA ExecuteType ==
  ASSUME NEW d \in Dqm, NEW h \in SUBSET (Procs \X Qids),
         NEW run \in SUBSET (Procs \X Qids),
         NEW x \in execute_queues_cpsch(d, h, run)
  PROVE  x \in Results /\ x.d.sdma_bitmap = d.sdma_bitmap
<1>1. CASE d.is_hws_hang
  BY <1>1 DEF execute_queues_cpsch, Results, Result
<1>2. CASE ~d.is_hws_hang
  <2>1. PICK u \in unmap_queues_cpsch(d, h) :
           x \in IF u.ret # "0" THEN {u} ELSE map_queues_cpsch(u.d, u.h, run)
    BY <1>2 DEF execute_queues_cpsch
  <2>2. u \in Results /\ u.d.sdma_bitmap = d.sdma_bitmap
    BY <2>1, UnmapType
  <2>3. u.d \in Dqm /\ u.h \in SUBSET (Procs \X Qids)
    BY <2>2 DEF Results
  <2>4. CASE u.ret # "0"
    BY <2>1, <2>2, <2>4
  <2>5. CASE u.ret = "0"
    <3>1. x \in map_queues_cpsch(u.d, u.h, run)
      BY <2>1, <2>5
    <3> QED
      BY <3>1, <2>2, <2>3, MapType
  <2> QED
    BY <2>4, <2>5
<1> QED
  BY <1>1, <1>2

\* What pm_send_runlist collects are slots of processes.
LEMMA RunnableType ==
  ASSUME NEW d, NEW qs, NEW qp
  PROVE  Runnable(d, qs, qp) \in SUBSET (Procs \X Qids)
BY DEF Runnable

-----------------------------------------------------------------------------
(* The inductive invariant.  All but the last part is a statement about    *)
(* each process by itself: its qpd, its pqm, its queues and its operation. *)

\* The slot an operation works on exists, and while it is created or destroyed
\* it is on neither list of the qpd.
OpSlot(qp, pq, o) ==
  /\ o.at \in {"create", "reserved", "destroyed", "update"} => o.qid \in Qids
  /\ o.at \in {"create", "reserved", "destroyed"}
        => o.qid \notin qp.queues_list /\ o.qid # qp.diq
  /\ o.at \in {"create", "reserved"} => o.qid \in pq.slots

\* The queues on the two lists have their slots, and the lists are disjoint.
SlotsTaken(qp, pq) ==
  /\ qp.queues_list \subseteq pq.slots
  /\ qp.diq # NONE => qp.diq \in pq.slots
  /\ qp.diq \notin qp.queues_list

\* An SDMA queue knows which it is as soon as one was reserved for it; so does
\* a queue whose destroy failed and whose node was kept.
HasSdmaId(qp, qs, o) ==
  \A i \in Qids :
    qs[i].type \in SdmaTypes /\ ~(o.at = "create" /\ o.qid = i)
    => qs[i].sdma_id \in SdmaIds

\* EvictedIsInactive for one process.
Marked(qp, qs) ==
  \A i \in qp.queues_list :
    /\ qs[i].is_evicted <=> qp.evicted > 0
    /\ qs[i].is_evicted => ~qs[i].is_active

\* The part about one process.
ProcInv(qp, pq, qs, o) ==
  /\ OpSlot(qp, pq, o)
  /\ SlotsTaken(qp, pq)
  /\ HasSdmaId(qp, qs, o)
  /\ Marked(qp, qs)

\* The queues of a process that hold, or are about to hold, SDMA queues.
Held(qp, o) ==
  (IF o.at = "terminating" THEN {} ELSE qp.queues_list)
    \cup (IF o.at = "reserved" THEN {o.qid} ELSE {})

\* Queue i of a process holds an SDMA queue of type t.
Owns(qp, qs, o, i, t) == i \in Held(qp, o) /\ qs[i].type = t

\* The nodes that user mode finds.  As long as no destroy of the process failed
\* they are those of the queues on its lists, and of the queue that is being
\* destroyed: a queue that user mode may name is on the list.
Nodes(qp, pq, qs, o, ph, f) ==
  /\ ph # "live" => o.at \in {"none", "terminating"}
  /\ ph = "gone" => pq.nodes = {}
  /\ o.at = "create" /\ qs[o.qid].type = DIQ => qp.diq = NONE
  /\ f = FALSE /\ o.at # "terminating"
        => \A i \in pq.nodes : \/ i \in qp.queues_list
                              \/ i = qp.diq
                              \/ (o.at = "destroyed" /\ o.qid = i)

\* SdmaExclusive, spelled out: an id that is held is not in the bitmap and has
\* one holder, and an id that is not in the bitmap has a holder.  (A second
\* destroy of a queue gives the id back a second time.)
SdmaOwners == ~CarriesOn =>
  \A t \in SdmaTypes :
    /\ \A p, r \in Procs, i, j \in Qids :
          /\ Owns(qpd[p], queue[p], op[p], i, t)
          /\ Owns(qpd[r], queue[r], op[r], j, t)
          /\ queue[p][i].sdma_id = queue[r][j].sdma_id
          => p = r /\ i = j
    /\ \A p \in Procs, i \in Qids :
          Owns(qpd[p], queue[p], op[p], i, t)
          => queue[p][i].sdma_id \in SdmaIds \ dqm.sdma_bitmap[t]
    /\ \A k \in SdmaIds \ dqm.sdma_bitmap[t] :
          \E p \in Procs, i \in Qids :
             /\ Owns(qpd[p], queue[p], op[p], i, t)
             /\ queue[p][i].sdma_id = k

\* The inductive invariant.
Base ==
  /\ TypeOK
  /\ \A p \in Procs : ProcInv(qpd[p], pqm[p], queue[p], op[p])
  /\ SdmaOwners

NodesAt(p) == Nodes(qpd[p], pqm[p], queue[p], op[p], phase[p], failed[p])

IInv == Base /\ \A p \in Procs : NodesAt(p)

\* The part of the state that the invariant says nothing of but its type.
DeviceTyped ==
  /\ dqm \in Dqm
  /\ hw \in SUBSET (Procs \X Qids)
  /\ phase \in [Procs -> {"live", "releasing", "gone"}]
  /\ failed \in [Procs -> BOOLEAN]
  /\ stops \in 0..MaxStops

\* The properties of a new queue and of a new process are well typed.
LEMMA FreshTypes ==
  /\ \A type \in {COMPUTE, DIQ} \cup SdmaTypes, on \in BOOLEAN :
        FreshQueue(type, on) \in Queue
  /\ NoQueue \in Queue /\ NoQueue.type \notin SdmaTypes
  /\ FreshQpd \in Qpd
<1>1. 0 \in Counter /\ 0 \in 0..MaxEvicted /\ ReservedDoorbells \subseteq Doorbells
  BY OpuQueuesAssumption DEF Counter
<1>2. FreshQpd \in Qpd
  BY <1>1 DEF FreshQpd, Qpd
<1> QED
  BY <1>2 DEF FreshQueue, NoQueue, Queue, SdmaTypes, COMPUTE, SDMA, SDMA_XGMI

\* The initial state satisfies the invariant.
LEMMA InitIInv == Init => IInv
<1> SUFFICES ASSUME Init PROVE IInv
  OBVIOUS
<1>1. TypeOK
  <2>1. dqm \in Dqm
    <3>1. 0 \in Counter
      BY OpuQueuesAssumption DEF Counter
    <3> QED
      BY <3>1 DEF Init, Dqm
  <2>2. qpd \in [Procs -> Qpd] /\ queue \in [Procs -> [Qids -> Queue]]
    BY FreshTypes DEF Init
  <2>3. pqm \in [Procs -> Pqm] /\ op \in [Procs -> Op]
    BY DEF Init, Pqm, Op, NoOp
  <2>4. /\ hw \subseteq Procs \X Qids
        /\ phase \in [Procs -> {"live", "releasing", "gone"}]
        /\ failed \in [Procs -> BOOLEAN] /\ stops \in 0..MaxStops
    BY OpuQueuesAssumption DEF Init
  <2> QED
    BY <2>1, <2>2, <2>3, <2>4 DEF TypeOK
<1>2. \A p \in Procs : qpd[p].queues_list = {} /\ qpd[p].diq = NONE
                        /\ op[p].at = "none"
  BY DEF Init, FreshQpd, NoOp
<1>3. \A p \in Procs : ProcInv(qpd[p], pqm[p], queue[p], op[p])
  <2>1. \A p \in Procs, i \in Qids : queue[p][i].type \notin SdmaTypes
    BY FreshTypes DEF Init
  <2> QED
    BY <1>2, <2>1 DEF ProcInv, OpSlot, SlotsTaken, HasSdmaId, Marked
<1>4. \A p \in Procs : Held(qpd[p], op[p]) = {}
  BY <1>2 DEF Held
<1>5. \A t \in SdmaTypes : dqm.sdma_bitmap[t] = SdmaIds
  BY DEF Init
<1>6. SdmaOwners
  BY <1>4, <1>5 DEF SdmaOwners, Owns
<1>7. \A p \in Procs : NodesAt(p)
  BY <1>2 DEF NodesAt, Nodes, Init
<1> QED
  BY <1>1, <1>3, <1>6, <1>7 DEF IInv, Base

\* What the invariant gives for one process.
LEMMA At ==
  ASSUME IInv, NEW p \in Procs
  PROVE  /\ qpd[p] \in Qpd /\ pqm[p] \in Pqm
         /\ queue[p] \in [Qids -> Queue] /\ op[p] \in Op
         /\ OpSlot(qpd[p], pqm[p], op[p]) /\ SlotsTaken(qpd[p], pqm[p])
         /\ HasSdmaId(qpd[p], queue[p], op[p]) /\ Marked(qpd[p], queue[p])
         /\ qpd = [qpd EXCEPT ![p] = qpd[p]] /\ pqm = [pqm EXCEPT ![p] = pqm[p]]
         /\ queue = [queue EXCEPT ![p] = queue[p]] /\ op = [op EXCEPT ![p] = op[p]]
         /\ DeviceTyped
BY DEF IInv, Base, TypeOK, ProcInv, DeviceTyped

\* A step that changes one process preserves the invariant if the new state of
\* that process satisfies it.
LEMMA StepAt ==
  ASSUME IInv, NEW p \in Procs, NEW qp \in Qpd, NEW pq \in Pqm,
         NEW qs \in [Qids -> Queue], NEW o \in Op,
         OpSlot(qp, pq, o), SlotsTaken(qp, pq), HasSdmaId(qp, qs, o), Marked(qp, qs),
         qpd' = [qpd EXCEPT ![p] = qp], pqm' = [pqm EXCEPT ![p] = pq],
         queue' = [queue EXCEPT ![p] = qs], op' = [op EXCEPT ![p] = o],
         DeviceTyped', SdmaOwners'
  PROVE  Base'
<1>1. TypeOK'
  BY DEF IInv, Base, TypeOK, DeviceTyped
<1>2. \A r \in Procs : ProcInv(qpd'[r], pqm'[r], queue'[r], op'[r])
  <2> SUFFICES ASSUME NEW r \in Procs
               PROVE  ProcInv(qpd'[r], pqm'[r], queue'[r], op'[r])
    OBVIOUS
  <2>1. CASE r = p
    BY <2>1 DEF IInv, Base, TypeOK, ProcInv
  <2>2. CASE r # p
    BY <2>2 DEF IInv, Base, TypeOK
  <2> QED
    BY <2>1, <2>2
<1> QED
  BY <1>1, <1>2 DEF IInv, Base

\* The queues that process p has instead hold what its queues hold.
SameOwned(p, qp, qs, o) ==
  \A i \in Qids, t \in SdmaTypes :
    /\ Owns(qp, qs, o, i, t) <=> Owns(qpd[p], queue[p], op[p], i, t)
    /\ Owns(qp, qs, o, i, t) => qs[i].sdma_id = queue[p][i].sdma_id

\* Only queue qid of process p changes.
OthersKept(p, qs, qid) == \A i \in Qids \ {qid} : qs[i] = queue[p][i]

\* A step of one process that gives or takes no SDMA queue.
LEMMA SameOwners ==
  ASSUME IInv, NEW p \in Procs, NEW qp, NEW qs, NEW o,
         qpd' = [qpd EXCEPT ![p] = qp], queue' = [queue EXCEPT ![p] = qs],
         op' = [op EXCEPT ![p] = o],
         dqm'.sdma_bitmap = dqm.sdma_bitmap,
         SameOwned(p, qp, qs, o)
  PROVE  SdmaOwners'
<1> SUFFICES ASSUME ~CarriesOn PROVE SdmaOwners'
  BY DEF SdmaOwners
<1>1. /\ qpd'[p] = qp /\ queue'[p] = qs /\ op'[p] = o
      /\ \A r \in Procs \ {p} : /\ qpd'[r] = qpd[r] /\ queue'[r] = queue[r]
                                /\ op'[r] = op[r]
  BY DEF IInv, Base, TypeOK
<1>2. \A r \in Procs, i \in Qids, t \in SdmaTypes :
         /\ Owns(qpd'[r], queue'[r], op'[r], i, t)
               <=> Owns(qpd[r], queue[r], op[r], i, t)
         /\ Owns(qpd'[r], queue'[r], op'[r], i, t)
               => queue'[r][i].sdma_id = queue[r][i].sdma_id
  BY <1>1 DEF SameOwned
<1> QED
  BY <1>2 DEF IInv, Base, SdmaOwners

\* The same, when the queues that hold SDMA queues stay what they are.
LEMMA KeepOwners ==
  ASSUME IInv, NEW p \in Procs, NEW qp, NEW qs, NEW o,
         qpd' = [qpd EXCEPT ![p] = qp], queue' = [queue EXCEPT ![p] = qs],
         op' = [op EXCEPT ![p] = o],
         dqm'.sdma_bitmap = dqm.sdma_bitmap,
         Held(qp, o) = Held(qpd[p], op[p]),
         \A i \in Held(qpd[p], op[p]) : /\ qs[i].type = queue[p][i].type
                                        /\ qs[i].sdma_id = queue[p][i].sdma_id
  PROVE  SdmaOwners'
<1>1. SameOwned(p, qp, qs, o)
  BY DEF SameOwned, Owns
<1> QED
  BY <1>1, SameOwners

\* The queues that hold SDMA queues are in slots.
LEMMA HeldIsSlots ==
  ASSUME IInv, NEW p \in Procs
  PROVE  Held(qpd[p], op[p]) \subseteq Qids
BY At DEF Held, Qpd, OpSlot

\* What the bitmaps become when queue q is given up.
GivenBack(b, q) ==
  b = IF q.type \in SdmaTypes
      THEN [dqm.sdma_bitmap EXCEPT ![q.type] = @ \cup {q.sdma_id}]
      ELSE dqm.sdma_bitmap

\* A step of one process that gives up one queue.
LEMMA DropOwner ==
  ASSUME IInv, NEW p \in Procs, NEW qp, NEW qs, NEW o, NEW qid \in Qids,
         qpd' = [qpd EXCEPT ![p] = qp], queue' = [queue EXCEPT ![p] = qs],
         op' = [op EXCEPT ![p] = o],
         GivenBack(dqm'.sdma_bitmap, queue[p][qid]),
         CarriesOn \/ qid \in Held(qpd[p], op[p]),
         Held(qp, o) = Held(qpd[p], op[p]) \ {qid},
         OthersKept(p, qs, qid)
  PROVE  SdmaOwners'
<1> SUFFICES ASSUME ~CarriesOn PROVE SdmaOwners'
  BY DEF SdmaOwners
<1> DEFINE q == queue[p][qid]
<1>1. /\ qpd'[p] = qp /\ queue'[p] = qs /\ op'[p] = o
      /\ \A r \in Procs \ {p} : /\ qpd'[r] = qpd[r] /\ queue'[r] = queue[r]
                                /\ op'[r] = op[r]
  BY DEF IInv, Base, TypeOK
<1>2. \A r \in Procs, i \in Qids, t \in SdmaTypes :
         /\ Owns(qpd'[r], queue'[r], op'[r], i, t)
               <=> /\ Owns(qpd[r], queue[r], op[r], i, t)
                   /\ ~(r = p /\ i = qid)
         /\ Owns(qpd'[r], queue'[r], op'[r], i, t)
               => queue'[r][i].sdma_id = queue[r][i].sdma_id
  BY <1>1 DEF Owns, OthersKept
<1>3. dqm.sdma_bitmap \in [SdmaTypes -> SUBSET SdmaIds]
  BY DEF IInv, Base, TypeOK, Dqm
<1>4. \A t \in SdmaTypes :
         dqm'.sdma_bitmap[t] = IF q.type = t THEN dqm.sdma_bitmap[t] \cup {q.sdma_id}
                                             ELSE dqm.sdma_bitmap[t]
  BY <1>3 DEF GivenBack
<1>5. \A t \in SdmaTypes : Owns(qpd[p], queue[p], op[p], qid, t) <=> q.type = t
  BY DEF Owns
<1>6. SdmaOwners
  BY DEF IInv, Base
<1> SUFFICES ASSUME NEW t \in SdmaTypes
             PROVE  /\ \A a, r \in Procs, i, j \in Qids :
                          /\ Owns(qpd'[a], queue'[a], op'[a], i, t)
                          /\ Owns(qpd'[r], queue'[r], op'[r], j, t)
                          /\ queue'[a][i].sdma_id = queue'[r][j].sdma_id
                          => a = r /\ i = j
                    /\ \A a \in Procs, i \in Qids :
                          Owns(qpd'[a], queue'[a], op'[a], i, t)
                          => queue'[a][i].sdma_id \in SdmaIds \ dqm'.sdma_bitmap[t]
                    /\ \A k \in SdmaIds \ dqm'.sdma_bitmap[t] :
                          \E a \in Procs, i \in Qids :
                             /\ Owns(qpd'[a], queue'[a], op'[a], i, t)
                             /\ queue'[a][i].sdma_id = k
  BY DEF SdmaOwners
<1> HIDE DEF q
<1>7. \A a, r \in Procs, i, j \in Qids :
         /\ Owns(qpd'[a], queue'[a], op'[a], i, t)
         /\ Owns(qpd'[r], queue'[r], op'[r], j, t)
         /\ queue'[a][i].sdma_id = queue'[r][j].sdma_id
         => a = r /\ i = j
  BY <1>2, <1>6 DEF SdmaOwners
<1>8. ASSUME NEW a \in Procs, NEW i \in Qids,
             Owns(qpd'[a], queue'[a], op'[a], i, t)
      PROVE  queue'[a][i].sdma_id \in SdmaIds \ dqm'.sdma_bitmap[t]
  <2>1. /\ Owns(qpd[a], queue[a], op[a], i, t) /\ ~(a = p /\ i = qid)
        /\ queue'[a][i].sdma_id = queue[a][i].sdma_id
        /\ queue[a][i].sdma_id \in SdmaIds \ dqm.sdma_bitmap[t]
    BY <1>2, <1>6, <1>8 DEF SdmaOwners
  <2>2. q.type = t => queue[a][i].sdma_id # q.sdma_id
    BY <1>5, <1>6, <2>1 DEF SdmaOwners, q
  <2> QED
    BY <1>4, <2>1, <2>2
<1>9. ASSUME NEW k \in SdmaIds \ dqm'.sdma_bitmap[t]
      PROVE  \E a \in Procs, i \in Qids :
                /\ Owns(qpd'[a], queue'[a], op'[a], i, t)
                /\ queue'[a][i].sdma_id = k
  <2>1. k \in SdmaIds \ dqm.sdma_bitmap[t] /\ (q.type = t => k # q.sdma_id)
    BY <1>4
  <2>2. PICK a \in Procs, i \in Qids :
           Owns(qpd[a], queue[a], op[a], i, t) /\ queue[a][i].sdma_id = k
    BY <1>6, <2>1 DEF SdmaOwners
  <2>3. ~(a = p /\ i = qid)
    BY <1>5, <2>1, <2>2 DEF q
  <2> QED
    BY <1>2, <2>2, <2>3
<1> QED
  BY <1>7, <1>8, <1>9

\* A step of one process that takes SDMA queue k of type y for its queue qid.
LEMMA AddOwner ==
  ASSUME IInv, NEW p \in Procs, NEW qp, NEW qs, NEW o, NEW qid \in Qids,
         NEW y \in SdmaTypes, NEW k \in dqm.sdma_bitmap[y],
         qpd' = [qpd EXCEPT ![p] = qp], queue' = [queue EXCEPT ![p] = qs],
         op' = [op EXCEPT ![p] = o],
         dqm'.sdma_bitmap = [dqm.sdma_bitmap EXCEPT ![y] = @ \ {k}],
         qid \notin Held(qpd[p], op[p]),
         Held(qp, o) = Held(qpd[p], op[p]) \cup {qid},
         qs[qid].type = y, qs[qid].sdma_id = k,
         OthersKept(p, qs, qid)
  PROVE  SdmaOwners'
<1> SUFFICES ASSUME ~CarriesOn PROVE SdmaOwners'
  BY DEF SdmaOwners
<1>1. /\ qpd'[p] = qp /\ queue'[p] = qs /\ op'[p] = o
      /\ \A r \in Procs \ {p} : /\ qpd'[r] = qpd[r] /\ queue'[r] = queue[r]
                                /\ op'[r] = op[r]
  BY DEF IInv, Base, TypeOK
<1>2. \A r \in Procs, i \in Qids, t \in SdmaTypes : ~(r = p /\ i = qid) =>
         /\ Owns(qpd'[r], queue'[r], op'[r], i, t)
               <=> Owns(qpd[r], queue[r], op[r], i, t)
         /\ queue'[r][i].sdma_id = queue[r][i].sdma_id
  BY <1>1 DEF Owns, OthersKept
<1>3. /\ \A t \in SdmaTypes :
            /\ Owns(qpd'[p], queue'[p], op'[p], qid, t) <=> t = y
            /\ ~Owns(qpd[p], queue[p], op[p], qid, t)
      /\ queue'[p][qid].sdma_id = k
  BY <1>1 DEF Owns
<1>4. dqm.sdma_bitmap \in [SdmaTypes -> SUBSET SdmaIds] /\ k \in SdmaIds
  BY DEF IInv, Base, TypeOK, Dqm
<1>5. \A t \in SdmaTypes :
         dqm'.sdma_bitmap[t] = IF t = y THEN dqm.sdma_bitmap[t] \ {k}
                                       ELSE dqm.sdma_bitmap[t]
  BY <1>4
<1>6. SdmaOwners
  BY DEF IInv, Base
<1> SUFFICES ASSUME NEW t \in SdmaTypes
             PROVE  /\ \A a, r \in Procs, i, j \in Qids :
                          /\ Owns(qpd'[a], queue'[a], op'[a], i, t)
                          /\ Owns(qpd'[r], queue'[r], op'[r], j, t)
                          /\ queue'[a][i].sdma_id = queue'[r][j].sdma_id
                          => a = r /\ i = j
                    /\ \A a \in Procs, i \in Qids :
                          Owns(qpd'[a], queue'[a], op'[a], i, t)
                          => queue'[a][i].sdma_id \in SdmaIds \ dqm'.sdma_bitmap[t]
                    /\ \A n \in SdmaIds \ dqm'.sdma_bitmap[t] :
                          \E a \in Procs, i \in Qids :
                             /\ Owns(qpd'[a], queue'[a], op'[a], i, t)
                             /\ queue'[a][i].sdma_id = n
  BY DEF SdmaOwners
\* No queue held k before, for k was in the bitmap.
<1>7. \A a \in Procs, i \in Qids :
         Owns(qpd[a], queue[a], op[a], i, y) => queue[a][i].sdma_id # k
  BY <1>6 DEF SdmaOwners
<1>8. ASSUME NEW a \in Procs, NEW r \in Procs, NEW i \in Qids, NEW j \in Qids,
             Owns(qpd'[a], queue'[a], op'[a], i, t),
             Owns(qpd'[r], queue'[r], op'[r], j, t),
             queue'[a][i].sdma_id = queue'[r][j].sdma_id
      PROVE  a = r /\ i = j
  <2>1. CASE ~(a = p /\ i = qid) /\ ~(r = p /\ j = qid)
    BY <1>2, <1>6, <1>8, <2>1 DEF SdmaOwners
  <2>2. CASE (a = p /\ i = qid) /\ ~(r = p /\ j = qid)
    BY <1>2, <1>3, <1>7, <1>8, <2>2
  <2>3. CASE ~(a = p /\ i = qid) /\ (r = p /\ j = qid)
    BY <1>2, <1>3, <1>7, <1>8, <2>3
  <2> QED
    BY <2>1, <2>2, <2>3
<1>9. ASSUME NEW a \in Procs, NEW i \in Qids,
             Owns(qpd'[a], queue'[a], op'[a], i, t)
      PROVE  queue'[a][i].sdma_id \in SdmaIds \ dqm'.sdma_bitmap[t]
  <2>1. CASE a = p /\ i = qid
    BY <1>3, <1>4, <1>5, <1>9, <2>1
  <2>2. CASE ~(a = p /\ i = qid)
    <3>1. queue[a][i].sdma_id \in SdmaIds \ dqm.sdma_bitmap[t]
      BY <1>2, <1>6, <1>9, <2>2 DEF SdmaOwners
    <3> QED
      BY <1>2, <1>5, <2>2, <3>1
  <2> QED
    BY <2>1, <2>2
<1>10. ASSUME NEW n \in SdmaIds \ dqm'.sdma_bitmap[t]
       PROVE  \E a \in Procs, i \in Qids :
                 /\ Owns(qpd'[a], queue'[a], op'[a], i, t)
                 /\ queue'[a][i].sdma_id = n
  <2>1. CASE t = y /\ n = k
    BY <1>3, <2>1
  <2>2. CASE ~(t = y /\ n = k)
    <3>1. n \in SdmaIds \ dqm.sdma_bitmap[t]
      BY <1>5, <2>2
    <3>2. PICK a \in Procs, i \in Qids :
             Owns(qpd[a], queue[a], op[a], i, t) /\ queue[a][i].sdma_id = n
      BY <1>6, <3>1 DEF SdmaOwners
    <3>3. ~(a = p /\ i = qid)
      BY <1>3, <3>2
    <3> QED
      BY <1>2, <3>2, <3>3
  <2> QED
    BY <2>1, <2>2
<1> QED
  BY <1>8, <1>9, <1>10

-----------------------------------------------------------------------------
(* Creation.                                                               *)

\* pqm_create_queue up to register_process: the slot it takes was free, so it is
\* on no list.
LEMMA CreateBegin ==
  ASSUME IInv, NEW p \in Procs, NEW on \in BOOLEAN,
         NEW type \in {COMPUTE, DIQ} \cup SdmaTypes, create_begin(p, type, on)
  PROVE  Base'
<1> DEFINE qid == Lowest(FreeSlots(p))
           pq  == [pqm[p] EXCEPT !.slots = @ \cup {qid}]
           qs  == [queue[p] EXCEPT ![qid] = FreshQueue(type, on)]
           o   == [at |-> "create", qid |-> qid]
<1>1. qid \in Qids /\ qid \notin pqm[p].slots
  <2>1. FreeSlots(p) # {} /\ FreeSlots(p) \subseteq Nat
    BY IdsAreNumbers DEF create_begin, FreeSlots
  <2> QED
    BY <2>1, LowestIn DEF FreeSlots
<1>2. /\ pqm' = [pqm EXCEPT ![p] = pq] /\ queue' = [queue EXCEPT ![p] = qs]
      /\ op' = [op EXCEPT ![p] = o] /\ qpd' = qpd
      /\ dqm' = register_process(dqm, p) \/ dqm' = dqm
      /\ UNCHANGED <<hw, phase, failed, stops>>
  BY DEF create_begin
<1> HIDE DEF qid
<1>3. DeviceTyped'
  BY <1>2, At, RegisterType DEF DeviceTyped
<1>4. pq \in Pqm /\ pq.slots = pqm[p].slots \cup {qid}
  BY <1>1, At DEF Pqm
<1>5. qs \in [Qids -> Queue] /\ \A i \in Qids \ {qid} : qs[i] = queue[p][i]
  BY <1>1, At, FreshTypes
<1>6. o \in Op /\ o.at = "create" /\ o.qid = qid
  BY <1>1 DEF Op
<1> HIDE DEF pq, qs, o
<1>7. OpSlot(qpd[p], pq, o) /\ SlotsTaken(qpd[p], pq)
  BY <1>1, <1>4, <1>6, At, IdsAreNumbers DEF OpSlot, SlotsTaken
<1>8. HasSdmaId(qpd[p], qs, o) /\ Marked(qpd[p], qs)
  <2>1. op[p].at = "none"
    BY DEF create_begin, MayCall
  <2> QED
    BY <1>1, <1>5, <1>6, <2>1, At DEF HasSdmaId, Marked, SlotsTaken, Qpd
<1>9. SdmaOwners'
  <2>1. op[p].at = "none"
    BY DEF create_begin, MayCall
  <2>2. dqm'.sdma_bitmap = dqm.sdma_bitmap
    BY <1>2, At, RegisterType DEF DeviceTyped
  <2>3. /\ Held(qpd[p], o) = Held(qpd[p], op[p])
        /\ qid \notin Held(qpd[p], o)
    BY <1>1, <1>6, <2>1, At DEF Held, SlotsTaken
  <2>4. \A i \in Held(qpd[p], op[p]) : qs[i] = queue[p][i]
    BY <1>5, <2>1, <2>3, At DEF Held, Qpd
  <2>5. qpd' = [qpd EXCEPT ![p] = qpd[p]]
    BY <1>2, At
  <2> QED
    BY <1>2, <2>2, <2>3, <2>4, <2>5, KeepOwners
<1> QED
  BY <1>2, <1>3, <1>4, <1>5, <1>6, <1>7, <1>8, <1>9, At, StepAt

\* err_create_queue: the slot goes back, and with it what was reserved.
LEMMA CreateUndo ==
  ASSUME IInv, NEW p \in Procs, op[p].at \in {"create", "reserved"},
         NEW d \in Dqm, create_undo(p, d),
         NEW qp \in Qpd, qpd' = [qpd EXCEPT ![p] = qp],
         qp.queues_list = qpd[p].queues_list, qp.diq = qpd[p].diq,
         qp.evicted = qpd[p].evicted,
         op[p].at = "create" => d.sdma_bitmap = dqm.sdma_bitmap,
         op[p].at = "reserved" => GivenBack(d.sdma_bitmap, queue[p][op[p].qid])
  PROVE  Base'
<1> DEFINE qid == op[p].qid
           pq  == [pqm[p] EXCEPT !.slots = @ \ {qid}]
           qs  == [queue[p] EXCEPT ![qid] = NoQueue]
<1>1. qid \in Qids /\ qid \notin qpd[p].queues_list /\ qid # qpd[p].diq
  BY At DEF OpSlot
<1>2. /\ pqm' = [pqm EXCEPT ![p] = pq] /\ queue' = [queue EXCEPT ![p] = qs]
      /\ op' = [op EXCEPT ![p] = NoOp]
      /\ dqm' = unregister_process(d, p) \/ dqm' = d
      /\ UNCHANGED <<hw, phase, failed, stops>>
  BY DEF create_undo
<1> HIDE DEF qid
<1>3. DeviceTyped'
  BY <1>2, At, RegisterType DEF DeviceTyped
<1>4. pq \in Pqm /\ pq.slots = pqm[p].slots \ {qid}
  BY <1>1, At DEF Pqm
<1>5. /\ qs \in [Qids -> Queue] /\ \A i \in Qids \ {qid} : qs[i] = queue[p][i]
      /\ qs[qid].type \notin SdmaTypes
  BY <1>1, At, FreshTypes
<1>6. NoOp \in Op /\ NoOp.at = "none"
  BY DEF Op, NoOp
<1> HIDE DEF pq, qs
<1>7. OpSlot(qp, pq, NoOp) /\ SlotsTaken(qp, pq)
  BY <1>1, <1>4, <1>6, At DEF OpSlot, SlotsTaken
<1>8. HasSdmaId(qp, qs, NoOp) /\ Marked(qp, qs)
  <2>1. HasSdmaId(qp, qs, NoOp)
    BY <1>5, <1>6, At DEF HasSdmaId, qid
  <2> QED
    BY <1>1, <1>5, <1>6, <2>1, At DEF Marked, Qpd
<1>9. dqm'.sdma_bitmap = d.sdma_bitmap
  BY <1>2, RegisterType
<1>10. Held(qp, NoOp) = qpd[p].queues_list
  BY <1>6 DEF Held
<1>11. SdmaOwners'
  <2>1. CASE op[p].at = "create"
    <3>1. Held(qpd[p], op[p]) = qpd[p].queues_list
      BY <2>1 DEF Held
    <3>2. \A i \in Held(qpd[p], op[p]) : qs[i] = queue[p][i]
      BY <1>1, <1>5, <3>1, At DEF Qpd
    <3> QED
      BY <1>2, <1>9, <1>10, <2>1, <3>1, <3>2, KeepOwners
  <2>2. CASE op[p].at = "reserved"
    <3>1. Held(qpd[p], op[p]) = qpd[p].queues_list \cup {qid}
      BY <2>2 DEF Held, qid
    <3>2. GivenBack(dqm'.sdma_bitmap, queue[p][qid])
      BY <1>9, <2>2 DEF qid
    <3>3. Held(qp, NoOp) = Held(qpd[p], op[p]) \ {qid}
      BY <1>1, <1>10, <3>1
    <3>4. qid \in Held(qpd[p], op[p]) /\ OthersKept(p, qs, qid)
      BY <1>5, <3>1 DEF OthersKept
    <3> QED
      BY <1>1, <1>2, <3>2, <3>3, <3>4, DropOwner
  <2> QED
    BY <2>1, <2>2
<1> QED
  BY <1>2, <1>3, <1>4, <1>5, <1>6, <1>7, <1>8, <1>11, StepAt

\* A creation that is refused before anything was reserved is undone.
LEMMA CreateRefused ==
  ASSUME IInv, NEW p \in Procs,
         create_refused(p) \/ create_kernel_queue_refused(p)
  PROVE  Base'
<1>1. op[p].at = "create" /\ create_undo(p, dqm) /\ qpd' = qpd
  BY DEF create_refused, create_kernel_queue_refused
<1> QED
  BY <1>1, At, CreateUndo DEF DeviceTyped

\* A creation that fails after the reservation gives the SDMA queue or the
\* doorbell back.
LEMMA CreateNoMqd ==
  ASSUME IInv, NEW p \in Procs, create_no_mqd(p)
  PROVE  Base'
<1> DEFINE q  == queue[p][op[p].qid]
           d  == deallocate_sdma_queue(dqm, q)
           qp == [qpd[p] EXCEPT !.doorbell_bitmap = deallocate_doorbell(@, q)]
<1>1. /\ op[p].at = "reserved" /\ create_undo(p, d)
      /\ qpd' = [qpd EXCEPT ![p] = qp]
  BY DEF create_no_mqd
<1>2. q \in Queue /\ (q.type \in SdmaTypes => q.sdma_id \in SdmaIds)
  BY <1>1, At DEF OpSlot, HasSdmaId
<1>3. d \in Dqm /\ GivenBack(d.sdma_bitmap, q)
  BY <1>2, At, DeallocateType DEF DeviceTyped, GivenBack
<1> HIDE DEF q, d
<1>4. \A b \in SUBSET Doorbells : deallocate_doorbell(b, q) \in SUBSET Doorbells
  BY DEF deallocate_doorbell
<1>5. /\ qp \in Qpd /\ qp.queues_list = qpd[p].queues_list
      /\ qp.diq = qpd[p].diq /\ qp.evicted = qpd[p].evicted
  BY <1>4, At DEF Qpd
<1> HIDE DEF qp
<1> QED
  BY <1>1, <1>3, <1>5, CreateUndo DEF q

\* allocate_sdma_queue or allocate_doorbell: an SDMA id comes out of the bitmap,
\* so no queue holds it.
LEMMA CreateReserve ==
  ASSUME IInv, NEW p \in Procs, create_reserve(p)
  PROVE  Base'
<1> DEFINE qid == op[p].qid
           q   == queue[p][qid]
           sid == Lowest(dqm.sdma_bitmap[q.type])
           did == Lowest(FreeDoorbells(p))
           o   == [op[p] EXCEPT !.at = "reserved"]
<1>1. /\ op[p].at = "create" /\ q.type # DIQ /\ ~Refused(p, q)
      /\ op' = [op EXCEPT ![p] = o]
      /\ UNCHANGED <<hw, pqm, phase, failed, stops>>
  BY DEF create_reserve
<1>2. /\ qid \in Qids /\ qid \notin qpd[p].queues_list /\ qid # qpd[p].diq
      /\ qid \in pqm[p].slots
      /\ q \in Queue /\ q.type \in {COMPUTE} \cup SdmaTypes
  BY <1>1, At DEF OpSlot, Queue
<1>3. o \in Op /\ o.at = "reserved" /\ o.qid = qid
  BY <1>1, At DEF Op
\* The new properties of the queue and the new qpd, in both cases.
<1>4. \E nq \in Queue, qp \in Qpd :
         /\ queue' = [queue EXCEPT ![p] = [queue[p] EXCEPT ![qid] = nq]]
         /\ qpd' = [qpd EXCEPT ![p] = qp]
         /\ qp.queues_list = qpd[p].queues_list
         /\ qp.diq = qpd[p].diq /\ qp.evicted = qpd[p].evicted
         /\ nq.type = q.type /\ dqm' \in Dqm
         /\ q.type \in SdmaTypes =>
              /\ nq.sdma_id \in SdmaIds /\ nq.sdma_id \in dqm.sdma_bitmap[q.type]
              /\ dqm'.sdma_bitmap =
                    [dqm.sdma_bitmap EXCEPT ![q.type] = @ \ {nq.sdma_id}]
         /\ q.type \notin SdmaTypes => dqm' = dqm
  <2>1. CASE q.type \in SdmaTypes
    <3>1. sid \in SdmaIds /\ sid \in dqm.sdma_bitmap[q.type]
      <4>1. dqm.sdma_bitmap[q.type] # {} /\ dqm.sdma_bitmap[q.type] \subseteq SdmaIds
        BY <1>1, <2>1, At DEF Refused, DeviceTyped, Dqm
      <4> QED
        BY <4>1, IdsAreNumbers, LowestIn
    <3> DEFINE nq == [q EXCEPT !.sdma_id = sid]
               b  == [dqm.sdma_bitmap EXCEPT
                        ![q.type] = dqm.sdma_bitmap[q.type] \ {sid}]
    <3>2. /\ queue' = [queue EXCEPT ![p] = [queue[p] EXCEPT ![qid] = nq]]
          /\ dqm' = [dqm EXCEPT !.sdma_bitmap = b]
          /\ qpd' = qpd
      BY <2>1 DEF create_reserve
    <3> HIDE DEF sid, q, qid
    <3>3. nq \in Queue /\ nq.type = q.type /\ nq.sdma_id = sid
      BY <1>2, <3>1 DEF Queue
    <3>4. b \in [SdmaTypes -> SUBSET SdmaIds]
      BY <2>1, At DEF DeviceTyped, Dqm
    <3>5. b = [dqm.sdma_bitmap EXCEPT ![q.type] = @ \ {sid}]
      OBVIOUS
    <3> HIDE DEF b, nq
    <3>6. dqm' \in Dqm /\ dqm'.sdma_bitmap = b
      BY <3>2, <3>4, At DEF DeviceTyped, Dqm
    <3> QED
      <4>1. dqm'.sdma_bitmap = [dqm.sdma_bitmap EXCEPT ![q.type] = @ \ {nq.sdma_id}]
        BY <3>3, <3>5, <3>6
      <4>2. qpd' = [qpd EXCEPT ![p] = qpd[p]] /\ qpd[p] \in Qpd
        BY <3>2, At
      <4>3. nq.sdma_id \in SdmaIds /\ nq.sdma_id \in dqm.sdma_bitmap[q.type]
        BY <3>1, <3>3
      <4> QED
        BY <2>1, <3>2, <3>3, <3>6, <4>1, <4>2, <4>3
  <2>2. CASE q.type \notin SdmaTypes
    <3>1. did \in Doorbells
      <4>1. FreeDoorbells(p) # {} /\ FreeDoorbells(p) \subseteq Doorbells
        BY <1>1, <1>2, <2>2 DEF Refused, FreeDoorbells
      <4> QED
        BY <4>1, IdsAreNumbers, LowestIn
    <3> DEFINE nq == [q EXCEPT !.doorbell_id = did]
               qp == [qpd[p] EXCEPT !.doorbell_bitmap = @ \cup {did}]
    <3>2. /\ queue' = [queue EXCEPT ![p] = [queue[p] EXCEPT ![qid] = nq]]
          /\ qpd' = [qpd EXCEPT ![p] = qp]
          /\ dqm' = dqm
      BY <2>2 DEF create_reserve
    <3> HIDE DEF did, q, qid
    <3>3. nq \in Queue /\ nq.type = q.type
      BY <1>2, <2>2, <3>1 DEF Queue
    <3>4. /\ qp \in Qpd /\ qp.queues_list = qpd[p].queues_list
          /\ qp.diq = qpd[p].diq /\ qp.evicted = qpd[p].evicted
      BY <3>1, At DEF Qpd
    <3> HIDE DEF nq, qp
    <3> QED
      BY <2>2, <3>2, <3>3, <3>4, At DEF DeviceTyped
  <2> QED
    BY <2>1, <2>2
<1>5. PICK nq \in Queue, qp \in Qpd :
         /\ queue' = [queue EXCEPT ![p] = [queue[p] EXCEPT ![qid] = nq]]
         /\ qpd' = [qpd EXCEPT ![p] = qp]
         /\ qp.queues_list = qpd[p].queues_list
         /\ qp.diq = qpd[p].diq /\ qp.evicted = qpd[p].evicted
         /\ nq.type = q.type /\ dqm' \in Dqm
         /\ q.type \in SdmaTypes =>
              /\ nq.sdma_id \in SdmaIds /\ nq.sdma_id \in dqm.sdma_bitmap[q.type]
              /\ dqm'.sdma_bitmap =
                    [dqm.sdma_bitmap EXCEPT ![q.type] = @ \ {nq.sdma_id}]
         /\ q.type \notin SdmaTypes => dqm' = dqm
  BY <1>4
<1> DEFINE qs == [queue[p] EXCEPT ![qid] = nq]
<1> HIDE DEF q, qid, sid, did, o
<1>6. /\ qs \in [Qids -> Queue] /\ qs[qid] = nq
      /\ \A i \in Qids \ {qid} : qs[i] = queue[p][i]
  BY <1>2, At
<1> HIDE DEF qs
<1>7. DeviceTyped'
  BY <1>1, <1>5, At DEF DeviceTyped
<1>8. OpSlot(qp, pqm[p], o) /\ SlotsTaken(qp, pqm[p])
  BY <1>2, <1>3, <1>5, At DEF OpSlot, SlotsTaken
<1>9. HasSdmaId(qp, qs, o) /\ Marked(qp, qs)
  <2>1. HasSdmaId(qp, qs, o)
    BY <1>3, <1>5, <1>6, At DEF HasSdmaId, qid
  <2> QED
    BY <1>2, <1>5, <1>6, <2>1, At DEF Marked, Qpd
<1>10. /\ pqm' = [pqm EXCEPT ![p] = pqm[p]]
       /\ queue' = [queue EXCEPT ![p] = qs]
  BY <1>1, <1>5, At DEF qs
<1>11. /\ Held(qpd[p], op[p]) = qpd[p].queues_list
       /\ Held(qp, o) = qpd[p].queues_list \cup {qid}
  BY <1>1, <1>3, <1>5 DEF Held
<1>12. SdmaOwners'
  <2>1. CASE q.type \notin SdmaTypes
    <3>1. SameOwned(p, qp, qs, o)
      BY <1>2, <1>5, <1>6, <1>11, <2>1 DEF Owns, SameOwned
    <3>2. dqm'.sdma_bitmap = dqm.sdma_bitmap
      BY <1>5, <2>1
    <3> QED
      BY <1>1, <1>5, <1>10, <3>1, <3>2, SameOwners
  <2>2. CASE q.type \in SdmaTypes
    <3>1. /\ qid \notin Held(qpd[p], op[p])
          /\ Held(qp, o) = Held(qpd[p], op[p]) \cup {qid}
      BY <1>2, <1>11
    <3>2. /\ qs[qid].type = q.type /\ qs[qid].sdma_id = nq.sdma_id
          /\ OthersKept(p, qs, qid)
      BY <1>5, <1>6 DEF OthersKept
    <3>3. /\ nq.sdma_id \in dqm.sdma_bitmap[q.type]
          /\ dqm'.sdma_bitmap =
                [dqm.sdma_bitmap EXCEPT ![q.type] = @ \ {nq.sdma_id}]
      BY <1>5, <2>2
    <3> QED
      BY <1>1, <1>2, <1>5, <1>10, <2>2, <3>1, <3>2, <3>3, AddOwner
  <2> QED
    BY <2>1, <2>2
<1> QED
  BY <1>1, <1>3, <1>5, <1>6, <1>7, <1>8, <1>9, <1>10, <1>12, At, StepAt

\* The run list functions are called with a typed dqm.
LEMMA RunlistStep ==
  ASSUME IInv, NEW d \in Dqm, NEW qs, NEW qp,
         NEW x \in execute_queues_cpsch(d, hw, Runnable(d, qs, qp))
  PROVE  /\ x.d \in Dqm /\ x.h \in SUBSET (Procs \X Qids)
         /\ x.d.sdma_bitmap = d.sdma_bitmap
<1>1. hw \in SUBSET (Procs \X Qids)
  BY DEF IInv, Base, TypeOK
<1>2. x \in Results /\ x.d.sdma_bitmap = d.sdma_bitmap
  BY <1>1, RunnableType, ExecuteType
<1> QED
  BY <1>2 DEF Results

\* update_mqd only recomputes is_active.
LEMMA UpdateMqdType ==
  ASSUME NEW q \in Queue
  PROVE  /\ update_mqd(q) \in Queue
         /\ update_mqd(q).type = q.type
         /\ update_mqd(q).sdma_id = q.sdma_id
         /\ update_mqd(q).is_evicted = q.is_evicted
         /\ update_mqd(q).is_active = (q.on /\ ~q.is_evicted)
BY DEF update_mqd, QUEUE_IS_ACTIVE, Queue

\* create_queue_cpsch under the lock: the new queue takes the eviction state that
\* its process has now, and keeps the SDMA queue that was reserved for it.
LEMMA CreateQueue ==
  ASSUME IInv, NEW p \in Procs, create_queue_cpsch(p)
  PROVE  Base'
<1> DEFINE qid == op[p].qid
           e   == qpd[p].evicted > 0
           m   == [queue[p][qid] EXCEPT !.is_evicted = e]
           q   == update_mqd(m)
           c   == IF q.is_active THEN increment_queue_count(dqm, q.type) ELSE dqm
           d   == [c EXCEPT !.total_queue_count = Inc(@)]
           qs  == [queue[p] EXCEPT ![qid] = q]
           qp  == [qpd[p] EXCEPT !.queues_list = @ \cup {qid},
                                 !.queue_count = Inc(@)]
           pq  == [pqm[p] EXCEPT !.nodes = @ \cup {qid}]
<1>1. /\ op[p].at = "reserved"
      /\ queue' = [queue EXCEPT ![p] = qs] /\ qpd' = [qpd EXCEPT ![p] = qp]
      /\ pqm' = [pqm EXCEPT ![p] = pq] /\ op' = [op EXCEPT ![p] = NoOp]
      /\ UNCHANGED <<phase, failed, stops>>
      /\ \/ \E x \in execute_queues_cpsch(d, hw, Runnable(d, queue', qpd')) :
                dqm' = x.d /\ hw' = x.h
         \/ dqm' = d /\ hw' = hw
  BY DEF create_queue_cpsch
<1>2. /\ qid \in Qids /\ qid \notin qpd[p].queues_list /\ qid # qpd[p].diq
      /\ queue[p][qid] \in Queue
      /\ queue[p][qid].type \in SdmaTypes => queue[p][qid].sdma_id \in SdmaIds
  BY <1>1, At DEF OpSlot, HasSdmaId
<1>3. /\ m \in Queue /\ m.type = queue[p][qid].type
      /\ m.sdma_id = queue[p][qid].sdma_id
      /\ m.is_evicted <=> qpd[p].evicted > 0
  <2>1. e \in BOOLEAN
    OBVIOUS
  <2> HIDE DEF e
  <2>2. m \in Queue /\ m.type = queue[p][qid].type
        /\ m.sdma_id = queue[p][qid].sdma_id /\ m.is_evicted = e
    BY <1>2, <2>1 DEF Queue
  <2> QED
    BY <2>2 DEF e
<1> HIDE DEF m
<1>4. /\ q \in Queue /\ (q.type \in SdmaTypes => q.sdma_id \in SdmaIds)
      /\ q.type = queue[p][qid].type /\ q.sdma_id = queue[p][qid].sdma_id
      /\ q.is_evicted <=> qpd[p].evicted > 0
      /\ q.is_evicted => ~q.is_active
  BY <1>2, <1>3, UpdateMqdType
<1> HIDE DEF q
<1>5. \A n \in Counter : Inc(n) \in Counter
  BY CounterOps, OpuQueuesAssumption
<1>6. d \in Dqm /\ d.sdma_bitmap = dqm.sdma_bitmap
  <2>1. c \in Dqm /\ c.sdma_bitmap = dqm.sdma_bitmap
    BY At, QueueCountType DEF DeviceTyped
  <2> HIDE DEF c
  <2> QED
    BY <1>5, <2>1 DEF Dqm
<1>7. /\ qs \in [Qids -> Queue] /\ qs[qid] = q
      /\ \A i \in Qids \ {qid} : qs[i] = queue[p][i]
  BY <1>2, <1>4, At
<1>8. /\ qp \in Qpd /\ qp.queues_list = qpd[p].queues_list \cup {qid}
      /\ qp.diq = qpd[p].diq /\ qp.evicted = qpd[p].evicted
  BY <1>2, <1>5, At DEF Qpd
<1>9. pq \in Pqm /\ pq.slots = pqm[p].slots
  BY <1>2, At DEF Pqm
<1>10. qid \in pqm[p].slots
  BY <1>1, At DEF OpSlot
<1> HIDE DEF qid, c, d, qs, qp, pq
<1>11. DeviceTyped' /\ dqm'.sdma_bitmap = dqm.sdma_bitmap
  BY <1>1, <1>6, At, RunlistStep DEF DeviceTyped
<1>12. NoOp \in Op /\ NoOp.at = "none"
  BY DEF Op, NoOp
<1>13. OpSlot(qp, pq, NoOp) /\ SlotsTaken(qp, pq)
  BY <1>2, <1>8, <1>9, <1>10, <1>12, At DEF OpSlot, SlotsTaken
<1>14. HasSdmaId(qp, qs, NoOp) /\ Marked(qp, qs)
  <2>1. HasSdmaId(qp, qs, NoOp)
    BY <1>1, <1>4, <1>7, <1>12, At DEF HasSdmaId
  <2> QED
    BY <1>2, <1>4, <1>7, <1>8, <2>1, At DEF Marked, Qpd
<1>15. SdmaOwners'
  <2>1. Held(qp, NoOp) = Held(qpd[p], op[p])
    BY <1>1, <1>8, <1>12 DEF Held, qid
  <2>2. \A i \in Qids : /\ qs[i].type = queue[p][i].type
                        /\ qs[i].sdma_id = queue[p][i].sdma_id
    BY <1>4, <1>7
  <2>3. \A i \in Held(qpd[p], op[p]) : /\ qs[i].type = queue[p][i].type
                                          /\ qs[i].sdma_id = queue[p][i].sdma_id
    BY <2>2, HeldIsSlots
  <2> QED
    BY <1>1, <1>11, <2>1, <2>3, KeepOwners
<1> QED
  BY <1>1, <1>7, <1>8, <1>9, <1>11, <1>12, <1>13, <1>14, <1>15, StepAt

\* create_kernel_queue_cpsch: the debug queue has a list of its own and no SDMA
\* queue.
LEMMA CreateKernelQueue ==
  ASSUME IInv, NEW p \in Procs, create_kernel_queue_cpsch(p)
  PROVE  Base'
<1> DEFINE qid == op[p].qid
           c   == increment_queue_count(dqm, DIQ)
           d   == [c EXCEPT !.total_queue_count = Inc(@)]
           qp  == [qpd[p] EXCEPT !.diq = qid, !.is_debug = TRUE]
           pq  == [pqm[p] EXCEPT !.nodes = @ \cup {qid}]
<1>1. /\ op[p].at = "create"
      /\ queue' = queue /\ qpd' = [qpd EXCEPT ![p] = qp]
      /\ pqm' = [pqm EXCEPT ![p] = pq] /\ op' = [op EXCEPT ![p] = NoOp]
      /\ UNCHANGED <<phase, failed, stops>> /\ queue[p][qid].type = DIQ
      /\ \E x \in execute_queues_cpsch(d, hw, Runnable(d, queue, qpd')) :
            dqm' = x.d /\ hw' = x.h
  BY DEF create_kernel_queue_cpsch
<1>2. /\ qid \in Qids /\ qid \notin qpd[p].queues_list
      /\ qid \in pqm[p].slots
  BY <1>1, At DEF OpSlot
<1>3. d \in Dqm /\ d.sdma_bitmap = dqm.sdma_bitmap
  <2>1. c \in Dqm /\ c.sdma_bitmap = dqm.sdma_bitmap
    BY At, QueueCountType DEF DeviceTyped
  <2>2. \A n \in Counter : Inc(n) \in Counter
    BY CounterOps, OpuQueuesAssumption
  <2> HIDE DEF c
  <2> QED
    BY <2>1, <2>2 DEF Dqm
<1>4. /\ qp \in Qpd /\ qp.queues_list = qpd[p].queues_list
      /\ qp.diq = qid /\ qp.evicted = qpd[p].evicted
  BY <1>2, At DEF Qpd
<1>5. pq \in Pqm /\ pq.slots = pqm[p].slots
  BY <1>2, At DEF Pqm
<1> HIDE DEF qid, c, d, qp, pq
<1>6. DeviceTyped' /\ dqm'.sdma_bitmap = dqm.sdma_bitmap
  BY <1>1, <1>3, At, RunlistStep DEF DeviceTyped
<1>7. NoOp \in Op /\ NoOp.at = "none"
  BY DEF Op, NoOp
<1>8. OpSlot(qp, pq, NoOp) /\ SlotsTaken(qp, pq)
  BY <1>2, <1>4, <1>5, <1>7, At DEF OpSlot, SlotsTaken
<1>9. HasSdmaId(qp, queue[p], NoOp) /\ Marked(qp, queue[p])
  <2>1. queue[p][op[p].qid].type \notin SdmaTypes
    BY <1>1 DEF qid, SdmaTypes, DIQ, SDMA, SDMA_XGMI
  <2> QED
    BY <1>4, <1>7, <2>1, At DEF HasSdmaId, Marked
<1>10. SdmaOwners'
  <2>1. Held(qp, NoOp) = Held(qpd[p], op[p])
    BY <1>1, <1>4, <1>7 DEF Held
  <2> QED
    BY <1>1, <1>6, <2>1, At, KeepOwners
<1> QED
  BY <1>1, <1>4, <1>5, <1>6, <1>7, <1>8, <1>9, <1>10, At, StepAt

-----------------------------------------------------------------------------
(* Destruction.                                                            *)

\* The queue that user mode names is on the list, unless a destroy failed before.
LEMMA CalledIsListed ==
  ASSUME IInv, NEW p \in Procs, NEW qid \in UserNodes(p), MayCall(p)
  PROVE  /\ CarriesOn \/ qid \in qpd[p].queues_list
         /\ failed[p] \/ qid \in qpd[p].queues_list
<1>1. /\ qid \in pqm[p].nodes /\ qid # qpd[p].diq
      /\ op[p].at = "none" /\ (failed[p] => CarriesOn)
      /\ failed[p] \in BOOLEAN
  BY DEF UserNodes, MayCall, IInv, Base, TypeOK
<1>2. Nodes(qpd[p], pqm[p], queue[p], op[p], phase[p], failed[p])
  BY DEF IInv, NodesAt
<1> QED
  BY <1>1, <1>2 DEF Nodes

\* destroy_queue_cpsch gives the SDMA queue back and takes the queue off the list
\* in one section under the lock, also when the run list then fails.
LEMMA DestroyQueue ==
  ASSUME IInv, NEW p \in Procs, NEW qid \in Qids, destroy_queue_cpsch(p, qid)
  PROVE  Base'
<1> DEFINE q  == queue[p][qid]
           d  == destroy_queue_count(deallocate_sdma_queue(dqm, q), q)
           qq == [qpd[p] EXCEPT !.queues_list = @ \ {qid},
                    !.queue_count = Dec(@),
                    !.doorbell_bitmap = deallocate_doorbell(@, q)]
           qn == [qpd EXCEPT ![p].queues_list = @ \ {qid},
                    ![p].queue_count = Dec(@),
                    ![p].doorbell_bitmap = deallocate_doorbell(@, q)]
<1>1. /\ CarriesOn \/ qid \in qpd[p].queues_list
      /\ qid # qpd[p].diq /\ op[p].at = "none"
      /\ UNCHANGED <<pqm, queue, phase, stops>>
  BY CalledIsListed DEF destroy_queue_cpsch, UserNodes, MayCall
<1>2. PICK x \in IF q.is_active
                 THEN execute_queues_cpsch(d, hw, Runnable(d, queue, qn))
                 ELSE {Result(d, hw, "0")} :
         /\ dqm' = x.d /\ hw' = x.h
         /\ qpd' = [qn EXCEPT ![p].reset_wavefronts = @ \/ x.ret = "ETIME"]
         /\ IF x.ret \in {"0", "ETIME"}
            THEN /\ op' = [op EXCEPT ![p] = [at |-> "destroyed", qid |-> qid]]
                 /\ failed' = failed
            ELSE failed' = [failed EXCEPT ![p] = TRUE] /\ op' = op
  BY DEF destroy_queue_cpsch
<1>3. q \in Queue /\ (q.type \in SdmaTypes => q.sdma_id \in SdmaIds)
  BY <1>1, At DEF HasSdmaId
<1>4. d \in Dqm /\ GivenBack(d.sdma_bitmap, q)
  <2> DEFINE c == deallocate_sdma_queue(dqm, q)
  <2>1. c \in Dqm /\ GivenBack(c.sdma_bitmap, q)
    BY <1>3, At, DeallocateType DEF DeviceTyped, GivenBack
  <2>2. d = destroy_queue_count(c, q)
    OBVIOUS
  <2> HIDE DEF c, d, q
  <2> QED
    BY <1>3, <2>1, <2>2, DestroyCountType
<1> DEFINE qp == [qq EXCEPT !.reset_wavefronts = @ \/ x.ret = "ETIME"]
<1>5. qpd' = [qpd EXCEPT ![p] = qp]
  <2>1. qn = [qpd EXCEPT ![p] = qq]
    OBVIOUS
  <2> HIDE DEF qq, qn
  <2>2. qn[p] = qq /\ [qpd EXCEPT ![p] = qp] = [qn EXCEPT ![p] = qp]
    BY <2>1 DEF IInv, Base, TypeOK
  <2> QED
    BY <1>2, <2>2
<1> HIDE DEF q, d, qn
<1>6. /\ qq \in Qpd /\ qq.queues_list = qpd[p].queues_list \ {qid}
      /\ qq.diq = qpd[p].diq /\ qq.evicted = qpd[p].evicted
  <2>1. \A b \in SUBSET Doorbells : deallocate_doorbell(b, q) \in SUBSET Doorbells
    BY DEF deallocate_doorbell
  <2>2. \A n \in Counter : Dec(n) \in Counter
    BY CounterOps, OpuQueuesAssumption
  <2> QED
    BY <2>1, <2>2, At DEF Qpd
<1> HIDE DEF qq
<1>7. /\ qp \in Qpd /\ qp.queues_list = qpd[p].queues_list \ {qid}
      /\ qp.diq = qpd[p].diq /\ qp.evicted = qpd[p].evicted
  BY <1>6 DEF Qpd
<1> HIDE DEF qp
<1>8. DeviceTyped' /\ dqm'.sdma_bitmap = d.sdma_bitmap
  <2>1. /\ x.d \in Dqm /\ x.h \in SUBSET (Procs \X Qids)
        /\ x.d.sdma_bitmap = d.sdma_bitmap
    BY <1>2, <1>4, At, RunlistStep DEF DeviceTyped, Result
  <2> QED
    BY <1>1, <1>2, <2>1, At DEF DeviceTyped
<1>9. PICK o \in Op :
         /\ op' = [op EXCEPT ![p] = o]
         /\ o = [at |-> "destroyed", qid |-> qid] \/ o = op[p]
  <2>1. [at |-> "destroyed", qid |-> qid] \in Op
    BY DEF Op
  <2> QED
    BY <1>2, <2>1, At
<1>10. op[p].at = "none"
  BY <1>1
<1>11. OpSlot(qp, pqm[p], o) /\ SlotsTaken(qp, pqm[p])
  BY <1>1, <1>7, <1>9, <1>10, At DEF OpSlot, SlotsTaken
<1>12. HasSdmaId(qp, queue[p], o) /\ Marked(qp, queue[p])
  BY <1>7, <1>9, <1>10, At DEF HasSdmaId, Marked
<1>13. SdmaOwners'
  <2>1. /\ Held(qpd[p], op[p]) = qpd[p].queues_list
        /\ Held(qp, o) = qpd[p].queues_list \ {qid}
    BY <1>7, <1>9, <1>10 DEF Held
  <2>2. GivenBack(dqm'.sdma_bitmap, queue[p][qid])
    BY <1>4, <1>8 DEF q
  <2>3. queue' = [queue EXCEPT ![p] = queue[p]]
    BY <1>1, At
  <2>4. /\ CarriesOn \/ qid \in Held(qpd[p], op[p])
        /\ Held(qp, o) = Held(qpd[p], op[p]) \ {qid}
        /\ OthersKept(p, queue[p], qid)
    BY <1>1, <2>1 DEF OthersKept
  <2> QED
    BY <1>5, <1>9, <2>2, <2>3, <2>4, DropOwner
<1> QED
  BY <1>1, <1>5, <1>7, <1>8, <1>9, <1>11, <1>12, <1>13, At, StepAt

\* destroy_kernel_queue_cpsch changes nothing that the other queues hold.
LEMMA DestroyKernelQueue ==
  ASSUME IInv, NEW p \in Procs, destroy_kernel_queue_cpsch(p)
  PROVE  Base'
<1> DEFINE c  == decrement_queue_count(dqm, DIQ)
           d  == [c EXCEPT !.total_queue_count = Dec(@)]
           qp == [qpd[p] EXCEPT !.diq = NONE, !.is_debug = FALSE]
           o  == [at |-> "destroyed", qid |-> qpd[p].diq]
<1>1. /\ qpd[p].diq # NONE
      /\ qpd' = [qpd EXCEPT ![p] = qp] /\ op' = [op EXCEPT ![p] = o]
      /\ UNCHANGED <<pqm, queue, phase, failed, stops>>
      /\ \E x \in execute_queues_cpsch(d, hw, Runnable(d, queue, qpd')) :
            dqm' = x.d /\ hw' = x.h
  BY DEF destroy_kernel_queue_cpsch
<1>2. d \in Dqm /\ d.sdma_bitmap = dqm.sdma_bitmap
  <2>1. c \in Dqm /\ c.sdma_bitmap = dqm.sdma_bitmap
    BY At, QueueCountType DEF DeviceTyped
  <2>2. \A n \in Counter : Dec(n) \in Counter
    BY CounterOps, OpuQueuesAssumption
  <2> HIDE DEF c
  <2> QED
    BY <2>1, <2>2 DEF Dqm
<1>3. qpd[p].diq \in Qids
  BY <1>1, At DEF Qpd
<1>4. /\ qp \in Qpd /\ qp.queues_list = qpd[p].queues_list
      /\ qp.diq = NONE /\ qp.evicted = qpd[p].evicted
  BY At DEF Qpd
<1>5. o \in Op /\ o.at = "destroyed" /\ o.qid = qpd[p].diq
  BY <1>3 DEF Op
<1> HIDE DEF c, d, qp, o
<1>6. DeviceTyped' /\ dqm'.sdma_bitmap = dqm.sdma_bitmap
  BY <1>1, <1>2, At, RunlistStep DEF DeviceTyped
<1>7. OpSlot(qp, pqm[p], o) /\ SlotsTaken(qp, pqm[p])
  BY <1>1, <1>3, <1>4, <1>5, At, IdsAreNumbers DEF OpSlot, SlotsTaken, Qpd
<1>8. HasSdmaId(qp, queue[p], o) /\ Marked(qp, queue[p])
  <2>1. op[p].at = "none"
    BY DEF destroy_kernel_queue_cpsch, MayCall
  <2> QED
    BY <1>4, <1>5, <2>1, At DEF HasSdmaId, Marked
<1>9. SdmaOwners'
  <2>1. op[p].at = "none"
    BY DEF destroy_kernel_queue_cpsch, MayCall
  <2>2. Held(qp, o) = Held(qpd[p], op[p])
    BY <1>4, <1>5, <2>1 DEF Held
  <2> QED
    BY <1>1, <1>6, <2>2, At, KeepOwners
<1> QED
  BY <1>1, <1>4, <1>5, <1>6, <1>7, <1>8, <1>9, At, StepAt

\* The rest of pqm_destroy_queue frees a slot that is on no list.
LEMMA DestroyFinish ==
  ASSUME IInv, NEW p \in Procs, destroy_finish(p)
  PROVE  Base'
<1> DEFINE qid == op[p].qid
           pq  == [pqm[p] EXCEPT !.slots = @ \ {qid}, !.nodes = @ \ {qid}]
           qp  == [qpd[p] EXCEPT !.num_gws = FALSE]
           qs  == [queue[p] EXCEPT ![qid] = NoQueue]
<1>1. /\ op[p].at = "destroyed"
      /\ pqm' = [pqm EXCEPT ![p] = pq] /\ queue' = [queue EXCEPT ![p] = qs]
      /\ qpd' = [qpd EXCEPT ![p] = qp] \/ qpd' = qpd
      /\ op' = [op EXCEPT ![p] = NoOp]
      /\ dqm' = unregister_process(dqm, p) \/ dqm' = dqm
      /\ UNCHANGED <<hw, phase, failed, stops>>
  BY DEF destroy_finish
<1>2. qid \in Qids /\ qid \notin qpd[p].queues_list /\ qid # qpd[p].diq
  BY <1>1, At DEF OpSlot
<1> HIDE DEF qid
<1>3. pq \in Pqm /\ pq.slots = pqm[p].slots \ {qid}
  BY At DEF Pqm
<1>4. /\ qp \in Qpd /\ qp.queues_list = qpd[p].queues_list
      /\ qp.diq = qpd[p].diq /\ qp.evicted = qpd[p].evicted
  BY At DEF Qpd
<1>5. /\ qs \in [Qids -> Queue] /\ \A i \in Qids \ {qid} : qs[i] = queue[p][i]
      /\ qs[qid].type \notin SdmaTypes
  BY <1>2, At, FreshTypes
<1> HIDE DEF pq, qp, qs
<1>6. PICK nqp \in Qpd :
         /\ qpd' = [qpd EXCEPT ![p] = nqp]
         /\ nqp.queues_list = qpd[p].queues_list /\ nqp.diq = qpd[p].diq
         /\ nqp.evicted = qpd[p].evicted
  BY <1>1, <1>4, At
<1>7. NoOp \in Op /\ NoOp.at = "none"
  BY DEF Op, NoOp
<1>8. DeviceTyped' /\ dqm'.sdma_bitmap = dqm.sdma_bitmap
  BY <1>1, At, RegisterType DEF DeviceTyped
<1>9. OpSlot(nqp, pq, NoOp) /\ SlotsTaken(nqp, pq)
  BY <1>2, <1>3, <1>6, <1>7, At DEF OpSlot, SlotsTaken
<1>10. HasSdmaId(nqp, qs, NoOp) /\ Marked(nqp, qs)
  BY <1>1, <1>2, <1>5, <1>6, <1>7, At DEF HasSdmaId, Marked, Qpd
<1>11. SdmaOwners'
  <2>1. /\ Held(nqp, NoOp) = Held(qpd[p], op[p])
        /\ qid \notin Held(qpd[p], op[p])
    BY <1>1, <1>2, <1>6, <1>7 DEF Held
  <2>2. \A i \in Held(qpd[p], op[p]) : /\ qs[i].type = queue[p][i].type
                                          /\ qs[i].sdma_id = queue[p][i].sdma_id
    BY <1>5, <2>1, HeldIsSlots
  <2> QED
    BY <1>1, <1>6, <1>8, <2>1, <2>2, KeepOwners
<1> QED
  BY <1>1, <1>3, <1>5, <1>6, <1>7, <1>8, <1>9, <1>10, <1>11, StepAt

-----------------------------------------------------------------------------
(* Updates.                                                                *)

\* A step that changes the properties of one queue, but not those that the
\* invariant speaks of unless the queue is deactivated by its mark.
LEMMA QueueStep ==
  ASSUME IInv, NEW p \in Procs, NEW qid \in Qids, NEW q \in Queue,
         NEW qp \in Qpd, NEW o \in Op,
         op[p].at \in {"none", "update"}, o.at \in {"none", "update"},
         o.at = "update" => o.qid = qid,
         q.type = queue[p][qid].type, q.sdma_id = queue[p][qid].sdma_id,
         q.is_evicted = queue[p][qid].is_evicted,
         q.is_active = queue[p][qid].is_active \/ (q.is_evicted => ~q.is_active),
         qp.queues_list = qpd[p].queues_list, qp.diq = qpd[p].diq,
         qp.evicted = qpd[p].evicted,
         queue' = [queue EXCEPT ![p] = [queue[p] EXCEPT ![qid] = q]],
         qpd' = [qpd EXCEPT ![p] = qp], op' = [op EXCEPT ![p] = o],
         pqm' = pqm, DeviceTyped', dqm'.sdma_bitmap = dqm.sdma_bitmap
  PROVE  Base'
<1> DEFINE qs == [queue[p] EXCEPT ![qid] = q]
<1>1. /\ qs \in [Qids -> Queue] /\ qs[qid] = q
      /\ \A i \in Qids \ {qid} : qs[i] = queue[p][i]
  BY At
<1> HIDE DEF qs
<1>2. OpSlot(qp, pqm[p], o) /\ SlotsTaken(qp, pqm[p])
  BY At DEF OpSlot, SlotsTaken
<1>3. HasSdmaId(qp, qs, o)
  BY <1>1, At DEF HasSdmaId
<1>4. Marked(qp, qs)
  BY <1>1, At DEF Marked, Qpd
<1>5. queue' = [queue EXCEPT ![p] = qs] /\ pqm' = [pqm EXCEPT ![p] = pqm[p]]
  BY At DEF qs
<1>6. SdmaOwners'
  <2>1. Held(qp, o) = Held(qpd[p], op[p])
    BY DEF Held
  <2>2. \A i \in Qids : /\ qs[i].type = queue[p][i].type
                        /\ qs[i].sdma_id = queue[p][i].sdma_id
    BY <1>1
  <2>3. \A i \in Held(qpd[p], op[p]) : /\ qs[i].type = queue[p][i].type
                                          /\ qs[i].sdma_id = queue[p][i].sdma_id
    BY <2>2, HeldIsSlots
  <2> QED
    BY <1>5, <2>1, <2>3, KeepOwners
<1> QED
  BY <1>1, <1>2, <1>3, <1>4, <1>5, <1>6, At, StepAt

\* pqm_update_queue changes what user mode asks for, not what the queue is.
LEMMA UpdateBegin ==
  ASSUME IInv, NEW p \in Procs, NEW qid \in Qids, NEW on \in BOOLEAN,
         pqm_update_queue(p, qid, on)
  PROVE  Base'
<1> DEFINE q == [queue[p][qid] EXCEPT !.on = on]
           o == [at |-> "update", qid |-> qid]
<1>1. /\ queue' = [queue EXCEPT ![p] = [queue[p] EXCEPT ![qid] = q]]
      /\ op' = [op EXCEPT ![p] = o]
      /\ UNCHANGED <<dqm, hw, qpd, pqm, phase, failed, stops>>
  BY DEF pqm_update_queue
<1>2. /\ q \in Queue /\ q.type = queue[p][qid].type
      /\ q.sdma_id = queue[p][qid].sdma_id
      /\ q.is_evicted = queue[p][qid].is_evicted
      /\ q.is_active = queue[p][qid].is_active
  <2>1. queue[p][qid] \in Queue
    BY At
  <2> QED
    BY <2>1 DEF Queue
<1>3. o \in Op /\ o.at = "update" /\ o.qid = qid
  BY DEF Op
<1> HIDE DEF q, o
<1>4. DeviceTyped'
  BY <1>1, At DEF DeviceTyped
<1>5. op[p].at = "none"
  BY DEF pqm_update_queue, MayCall
<1> QED
  BY <1>1, <1>2, <1>3, <1>4, At, <1>5, QueueStep

\* The same for pqm_set_gws.
LEMMA SetGws ==
  ASSUME IInv, NEW p \in Procs, NEW qid \in Qids, NEW gws \in BOOLEAN,
         pqm_set_gws(p, qid, gws)
  PROVE  Base'
<1> DEFINE q  == [queue[p][qid] EXCEPT !.gws = gws]
           qp == [qpd[p] EXCEPT !.num_gws = gws]
           o  == [at |-> "update", qid |-> qid]
<1>1. /\ queue' = [queue EXCEPT ![p] = [queue[p] EXCEPT ![qid] = q]]
      /\ qpd' = [qpd EXCEPT ![p] = qp] /\ op' = [op EXCEPT ![p] = o]
      /\ UNCHANGED <<dqm, hw, pqm, phase, failed, stops>>
  BY DEF pqm_set_gws
<1>2. /\ q \in Queue /\ q.type = queue[p][qid].type
      /\ q.sdma_id = queue[p][qid].sdma_id
      /\ q.is_evicted = queue[p][qid].is_evicted
      /\ q.is_active = queue[p][qid].is_active
  BY At DEF Queue
<1>3. o \in Op /\ o.at = "update" /\ o.qid = qid
  BY DEF Op
<1>4. /\ qp \in Qpd /\ qp.queues_list = qpd[p].queues_list
      /\ qp.diq = qpd[p].diq /\ qp.evicted = qpd[p].evicted
  BY At DEF Qpd
<1> HIDE DEF q, qp, o
<1>5. DeviceTyped'
  BY <1>1, At DEF DeviceTyped
<1>6. op[p].at = "none"
  BY DEF pqm_set_gws, MayCall
<1> QED
  BY <1>1, <1>2, <1>3, <1>4, <1>5, <1>6, QueueStep

\* update_queue recomputes is_active from the marks as they are under the lock.
LEMMA UpdateQueue ==
  ASSUME IInv, NEW p \in Procs, update_queue(p)
  PROVE  Base'
<1> DEFINE qid == op[p].qid
           q   == update_mqd(queue[p][qid])
           nq  == [q EXCEPT !.is_gws = q.gws]
           d(u) == update_queue_count(u.d, queue[p][qid], q)
<1>1. /\ op[p].at = "update" /\ op' = [op EXCEPT ![p] = NoOp]
      /\ UNCHANGED <<qpd, pqm, phase, failed, stops>>
  BY DEF update_queue
<1>2. PICK u \in unmap_queues_cpsch(dqm, hw) :
         \/ /\ u.ret # "0"
            /\ dqm' = u.d /\ hw' = u.h /\ queue' = queue
         \/ /\ u.ret = "0"
            /\ queue' = [queue EXCEPT ![p] = [queue[p] EXCEPT ![qid] = nq]]
            /\ \E x \in map_queues_cpsch(d(u), u.h, Runnable(d(u), queue', qpd)) :
                  dqm' = x.d /\ hw' = x.h
  BY DEF update_queue
<1>3. qid \in Qids /\ queue[p][qid] \in Queue
  BY <1>1, At DEF OpSlot
<1>4. /\ q \in Queue /\ q.type = queue[p][qid].type
      /\ q.sdma_id = queue[p][qid].sdma_id
      /\ q.is_evicted = queue[p][qid].is_evicted
      /\ q.is_evicted => ~q.is_active
  BY <1>3, UpdateMqdType
<1> HIDE DEF q
<1>5. /\ nq \in Queue /\ nq.type = queue[p][qid].type
      /\ nq.sdma_id = queue[p][qid].sdma_id
      /\ nq.is_evicted = queue[p][qid].is_evicted
      /\ nq.is_evicted => ~nq.is_active
  BY <1>4 DEF Queue
<1> HIDE DEF nq, qid, d
<1>6. /\ u.d \in Dqm /\ u.h \in SUBSET (Procs \X Qids)
      /\ u.d.sdma_bitmap = dqm.sdma_bitmap
  BY <1>2, At, UnmapType DEF DeviceTyped, Results
<1>7. NoOp \in Op /\ NoOp.at = "none"
  BY DEF Op, NoOp
<1>8. CASE u.ret # "0"
  <2>1. dqm' = u.d /\ hw' = u.h /\ queue' = queue
    BY <1>2, <1>8
  <2>2. DeviceTyped'
    BY <1>1, <1>6, <2>1, At DEF DeviceTyped
  <2>3. /\ OpSlot(qpd[p], pqm[p], NoOp)
        /\ HasSdmaId(qpd[p], queue[p], NoOp)
    BY <1>1, <1>7, At DEF OpSlot, HasSdmaId
  <2>4. SdmaOwners'
    <3>1. Held(qpd[p], NoOp) = Held(qpd[p], op[p])
      BY <1>1, <1>7 DEF Held
    <3>2. /\ queue' = [queue EXCEPT ![p] = queue[p]]
          /\ qpd' = [qpd EXCEPT ![p] = qpd[p]]
      BY <1>1, <2>1, At
    <3> QED
      BY <1>1, <1>6, <2>1, <3>1, <3>2, KeepOwners
  <2> QED
    BY <1>1, <1>7, <2>1, <2>2, <2>3, <2>4, At, StepAt
<1>9. CASE u.ret = "0"
  <2>1. d(u) \in Dqm /\ d(u).sdma_bitmap = dqm.sdma_bitmap
    BY <1>3, <1>4, <1>6, UpdateCountType DEF d
  <2>2. PICK x \in map_queues_cpsch(d(u), u.h, Runnable(d(u), queue', qpd)) :
              dqm' = x.d /\ hw' = x.h
    BY <1>2, <1>9
  <2>3. queue' = [queue EXCEPT ![p] = [queue[p] EXCEPT ![qid] = nq]]
    BY <1>2, <1>9
  <2>4. x \in Results /\ x.d.sdma_bitmap = dqm.sdma_bitmap
    BY <1>6, <2>1, <2>2, RunnableType, MapType
  <2>5. DeviceTyped'
    BY <1>1, <2>2, <2>4, At DEF DeviceTyped, Results
  <2> QED
    BY <1>1, <1>3, <1>5, <1>7, <2>2, <2>3, <2>4, <2>5, At, QueueStep
<1> QED
  BY <1>8, <1>9

-----------------------------------------------------------------------------
(* Eviction and restoration.                                               *)

\* evict_process_queues_cpsch: the first eviction marks and deactivates every
\* queue on the list, a nested one finds them marked.
LEMMA Evict ==
  ASSUME IInv, NEW p \in Procs, evict_process_queues_cpsch(p)
  PROVE  Base'
<1> DEFINE qp == [qpd[p] EXCEPT !.evicted = @ + 1]
           qs == [i \in Qids |-> IF i \in qpd[p].queues_list
                                 THEN evict_queue(queue[p][i])
                                 ELSE queue[p][i]]
           d  == Discount(dqm, p, ActiveQueues(p))
<1>1. /\ qpd[p].evicted < MaxEvicted /\ qpd' = [qpd EXCEPT ![p] = qp]
      /\ UNCHANGED <<pqm, op, phase, failed, stops>>
  BY DEF evict_process_queues_cpsch
<1>2. /\ qp \in Qpd /\ qp.queues_list = qpd[p].queues_list
      /\ qp.diq = qpd[p].diq /\ qp.evicted = qpd[p].evicted + 1
      /\ qpd[p].evicted \in Nat
  BY <1>1, At, OpuQueuesAssumption DEF Qpd
<1> HIDE DEF qp
<1>3. OpSlot(qp, pqm[p], op[p]) /\ SlotsTaken(qp, pqm[p])
  BY <1>2, At DEF OpSlot, SlotsTaken
<1>4. Held(qp, op[p]) = Held(qpd[p], op[p])
  BY <1>2 DEF Held
<1>5. CASE qpd[p].evicted > 0
  <2>1. UNCHANGED <<dqm, hw, queue>>
    BY <1>5 DEF evict_process_queues_cpsch
  <2>2. DeviceTyped'
    BY <1>1, <2>1, At DEF DeviceTyped
  <2>3. HasSdmaId(qp, queue[p], op[p]) /\ Marked(qp, queue[p])
    BY <1>2, <1>5, At DEF HasSdmaId, Marked
  <2>4. SdmaOwners'
    <3>1. /\ queue' = [queue EXCEPT ![p] = queue[p]]
          /\ op' = [op EXCEPT ![p] = op[p]]
      BY <1>1, <2>1, At
    <3>2. dqm'.sdma_bitmap = dqm.sdma_bitmap
      BY <2>1
    <3> QED
      BY <1>1, <1>4, <3>1, <3>2, KeepOwners, Zenon
  <2> QED
    BY <1>1, <1>2, <1>3, <2>1, <2>2, <2>3, <2>4, At, StepAt
<1>6. CASE ~(qpd[p].evicted > 0)
  <2>1. /\ queue' = [queue EXCEPT ![p] = qs]
        /\ \E x \in execute_queues_cpsch(d, hw, Runnable(d, queue', qpd)) :
              dqm' = x.d /\ hw' = x.h
    BY <1>6 DEF evict_process_queues_cpsch
  <2>2. d \in Dqm /\ d.sdma_bitmap = dqm.sdma_bitmap
    <3>1. ActiveQueues(p) \subseteq Qids
      BY At DEF ActiveQueues, Qpd
    <3> QED
      BY <3>1, At, DiscountType DEF DeviceTyped
  <2>3. \A q \in Queue :
           /\ evict_queue(q) \in Queue /\ evict_queue(q).type = q.type
           /\ evict_queue(q).sdma_id = q.sdma_id
           /\ evict_queue(q).is_evicted = TRUE
           /\ evict_queue(q).is_active = FALSE
    BY DEF evict_queue, Queue
  <2>4. /\ qs \in [Qids -> Queue]
        /\ \A i \in Qids : /\ qs[i].type = queue[p][i].type
                           /\ qs[i].sdma_id = queue[p][i].sdma_id
        /\ \A i \in qpd[p].queues_list : /\ qs[i].is_evicted = TRUE
                                         /\ qs[i].is_active = FALSE
    BY <2>3, At DEF Qpd
  <2> HIDE DEF qs, d
  <2>5. DeviceTyped' /\ dqm'.sdma_bitmap = dqm.sdma_bitmap
    BY <1>1, <2>1, <2>2, At, RunlistStep DEF DeviceTyped
  <2>6. HasSdmaId(qp, qs, op[p])
    BY <1>2, <2>4, At DEF HasSdmaId
  <2>7. Marked(qp, qs)
    BY <1>2, <2>4 DEF Marked
  <2>8. SdmaOwners'
    <3>1. \A i \in Held(qpd[p], op[p]) : /\ qs[i].type = queue[p][i].type
                                            /\ qs[i].sdma_id = queue[p][i].sdma_id
      BY <2>4, HeldIsSlots
    <3>2. op' = [op EXCEPT ![p] = op[p]]
      BY <1>1, At
    <3> QED
      BY <1>1, <1>4, <2>1, <2>5, <3>1, <3>2, KeepOwners
  <2> QED
    BY <1>1, <1>2, <1>3, <2>1, <2>4, <2>5, <2>6, <2>7, <2>8, At, StepAt
<1> QED
  BY <1>5, <1>6

\* restore_process_queues_cpsch: only the last restore takes the marks off.
LEMMA Restore ==
  ASSUME IInv, NEW p \in Procs, restore_process_queues_cpsch(p)
  PROVE  Base'
<1> DEFINE less == [qpd[p] EXCEPT !.evicted = @ - 1]
           qp   == [qpd[p] EXCEPT !.evicted = 0]
           qs   == [i \in Qids |-> IF i \in qpd[p].queues_list
                                   THEN restore_queue(queue[p][i])
                                   ELSE queue[p][i]]
           on   == {i \in qpd[p].queues_list : queue[p][i].on}
           cp   == {i \in on : is_cp(queue[p][i].type)}
           d    == [dqm EXCEPT
                      !.active_queue_count = (@ + Cardinality(on)) % UINT,
                      !.active_cp_queue_count = (@ + Cardinality(cp)) % UINT]
<1>1. qpd[p].evicted > 0 /\ UNCHANGED <<pqm, op, phase, failed, stops>>
  BY DEF restore_process_queues_cpsch
<1>2. CASE qpd[p].evicted > 1
  <2>1. qpd' = [qpd EXCEPT ![p] = less] /\ UNCHANGED <<dqm, hw, queue>>
    BY <1>2 DEF restore_process_queues_cpsch
  <2>2. /\ less \in Qpd /\ less.queues_list = qpd[p].queues_list
        /\ less.diq = qpd[p].diq /\ less.evicted > 0
    BY <1>2, At, OpuQueuesAssumption DEF Qpd
  <2> HIDE DEF less
  <2>3. DeviceTyped'
    BY <1>1, <2>1, At DEF DeviceTyped
  <2>4. OpSlot(less, pqm[p], op[p]) /\ SlotsTaken(less, pqm[p])
    BY <2>2, At DEF OpSlot, SlotsTaken
  <2>5. HasSdmaId(less, queue[p], op[p]) /\ Marked(less, queue[p])
    BY <1>1, <2>2, At DEF HasSdmaId, Marked
  <2>6. SdmaOwners'
    <3>1. Held(less, op[p]) = Held(qpd[p], op[p])
      BY <2>2 DEF Held
    <3>2. /\ queue' = [queue EXCEPT ![p] = queue[p]]
          /\ op' = [op EXCEPT ![p] = op[p]]
      BY <1>1, <2>1, At
    <3> QED
      BY <2>1, <3>1, <3>2, KeepOwners
  <2> QED
    BY <1>1, <2>1, <2>2, <2>3, <2>4, <2>5, <2>6, At, StepAt
<1>3. CASE ~(qpd[p].evicted > 1)
  <2>1. /\ queue' = [queue EXCEPT ![p] = qs] /\ qpd' = [qpd EXCEPT ![p] = qp]
        /\ \E x \in execute_queues_cpsch(d, hw, Runnable(d, queue', qpd)) :
              dqm' = x.d /\ hw' = x.h
    BY <1>3 DEF restore_process_queues_cpsch
  <2>2. d \in Dqm /\ d.sdma_bitmap = dqm.sdma_bitmap
    <3>1. Cardinality(on) \in Nat /\ Cardinality(cp) \in Nat
      BY At, FiniteSlots DEF Qpd
    <3>2. \A n \in Counter, k \in Nat : (n + k) % UINT \in Counter
      BY CounterOps
    <3> HIDE DEF on, cp
    <3> QED
      BY <3>1, <3>2, At DEF DeviceTyped, Dqm
  <2>3. \A q \in Queue :
           /\ restore_queue(q) \in Queue /\ restore_queue(q).type = q.type
           /\ restore_queue(q).sdma_id = q.sdma_id
           /\ restore_queue(q).is_evicted = FALSE
    BY DEF restore_queue, Queue
  <2>4. /\ qs \in [Qids -> Queue]
        /\ \A i \in Qids : /\ qs[i].type = queue[p][i].type
                           /\ qs[i].sdma_id = queue[p][i].sdma_id
        /\ \A i \in qpd[p].queues_list : qs[i].is_evicted = FALSE
    BY <2>3, At DEF Qpd
  <2>5. /\ qp \in Qpd /\ qp.queues_list = qpd[p].queues_list
        /\ qp.diq = qpd[p].diq /\ qp.evicted = 0
    BY At, OpuQueuesAssumption DEF Qpd
  <2> HIDE DEF qs, d, qp
  <2>6. DeviceTyped' /\ dqm'.sdma_bitmap = dqm.sdma_bitmap
    BY <1>1, <2>1, <2>2, At, RunlistStep DEF DeviceTyped
  <2>7. OpSlot(qp, pqm[p], op[p]) /\ SlotsTaken(qp, pqm[p])
    BY <2>5, At DEF OpSlot, SlotsTaken
  <2>8. HasSdmaId(qp, qs, op[p])
    BY <2>4, <2>5, At DEF HasSdmaId
  <2>9. Marked(qp, qs)
    BY <2>4, <2>5 DEF Marked
  <2>10. SdmaOwners'
    <3>1. Held(qp, op[p]) = Held(qpd[p], op[p])
      BY <2>5 DEF Held
    <3>2. \A i \in Held(qpd[p], op[p]) : /\ qs[i].type = queue[p][i].type
                                            /\ qs[i].sdma_id = queue[p][i].sdma_id
      BY <2>4, HeldIsSlots
    <3>3. op' = [op EXCEPT ![p] = op[p]]
      BY <1>1, At
    <3> QED
      BY <2>1, <2>6, <3>1, <3>2, <3>3, KeepOwners
  <2> QED
    BY <1>1, <2>1, <2>4, <2>5, <2>6, <2>7, <2>8, <2>9, <2>10, At, StepAt
<1> QED
  BY <1>2, <1>3

-----------------------------------------------------------------------------
(* Release of a process, and suspend and reset of the device.              *)

\* The SDMA ids that a termination gives back are ids of the device.
LEMMA SdmaGivenBack ==
  ASSUME IInv, NEW p \in Procs, NEW b \in [SdmaTypes -> SUBSET SdmaIds]
  PROVE  sdma_given_back(b, p) \in [SdmaTypes -> SUBSET SdmaIds]
<1>1. \A i \in qpd[p].queues_list :
         i \in Qids /\ (queue[p][i].type \in SdmaTypes
                          => queue[p][i].sdma_id \in SdmaIds)
  BY At DEF HasSdmaId, OpSlot, Qpd
<1> QED
  BY <1>1 DEF sdma_given_back

\* The dqm that process_termination_cpsch leaves is well typed, and its bitmaps
\* have got back what the queues of the process held.
LEMMA TerminateClear ==
  ASSUME IInv, NEW p \in Procs
  PROVE  /\ terminate_clear(p) \in Dqm
         /\ terminate_clear(p).sdma_bitmap = sdma_given_back(dqm.sdma_bitmap, p)
<1> DEFINE gws == {i \in ActiveQueues(p) : queue[p][i].is_gws}
           c   == Discount(dqm, p, ActiveQueues(p))
           b   == sdma_given_back(c.sdma_bitmap, p)
           d   == [c EXCEPT
                     !.total_queue_count = Sub(@, Cardinality(qpd[p].queues_list)),
                     !.gws_queue_count = Sub(@, Cardinality(gws)),
                     !.sdma_bitmap = b]
<1>1. terminate_clear(p) = unregister_process(d, p)
  BY DEF terminate_clear, terminate_unregister
<1>2. /\ ActiveQueues(p) \subseteq Qids /\ gws \subseteq Qids
      /\ qpd[p].queues_list \subseteq Qids
  BY At DEF ActiveQueues, Qpd
<1>3. c \in Dqm /\ c.sdma_bitmap = dqm.sdma_bitmap
  BY <1>2, At, DiscountType DEF DeviceTyped
<1>4. b \in [SdmaTypes -> SUBSET SdmaIds]
  BY <1>3, SdmaGivenBack DEF Dqm
<1>5. Cardinality(qpd[p].queues_list) \in Nat /\ Cardinality(gws) \in Nat
  BY <1>2, FiniteSlots
<1>6. \A n \in Counter, k \in Nat : Sub(n, k) \in Counter
  BY CounterOps
<1> HIDE DEF gws, c, b
<1>7. d \in Dqm /\ d.sdma_bitmap = b
  BY <1>3, <1>4, <1>5, <1>6 DEF Dqm
<1> HIDE DEF d
<1> QED
  BY <1>1, <1>3, <1>7, RegisterType DEF b

\* The termination gives back the SDMA queues of all queues of the process.
LEMMA DropAll ==
  ASSUME IInv, NEW p \in Procs, NEW qp, NEW o,
         qpd' = [qpd EXCEPT ![p] = qp], queue' = [queue EXCEPT ![p] = queue[p]],
         op' = [op EXCEPT ![p] = o],
         dqm'.sdma_bitmap = sdma_given_back(dqm.sdma_bitmap, p),
         Held(qpd[p], op[p]) = qpd[p].queues_list,
         Held(qp, o) = {}
  PROVE  SdmaOwners'
<1> SUFFICES ASSUME ~CarriesOn PROVE SdmaOwners'
  BY DEF SdmaOwners
<1>1. /\ qpd'[p] = qp /\ queue'[p] = queue[p] /\ op'[p] = o
      /\ \A r \in Procs \ {p} : /\ qpd'[r] = qpd[r] /\ queue'[r] = queue[r]
                                /\ op'[r] = op[r]
  BY DEF IInv, Base, TypeOK
<1>2. /\ \A r \in Procs \ {p}, i \in Qids, t \in SdmaTypes :
            /\ Owns(qpd'[r], queue'[r], op'[r], i, t)
                  <=> Owns(qpd[r], queue[r], op[r], i, t)
            /\ queue'[r][i].sdma_id = queue[r][i].sdma_id
      /\ \A i \in Qids, t \in SdmaTypes : ~Owns(qpd'[p], queue'[p], op'[p], i, t)
  BY <1>1 DEF Owns
<1>3. qpd[p].queues_list \subseteq Qids
  BY At DEF Qpd
<1>4. \A t \in SdmaTypes, k \in SdmaIds :
         k \in dqm'.sdma_bitmap[t] <=>
           \/ k \in dqm.sdma_bitmap[t]
           \/ \E i \in Qids : /\ Owns(qpd[p], queue[p], op[p], i, t)
                              /\ queue[p][i].sdma_id = k
  BY <1>3 DEF sdma_given_back, Owns
<1>5. SdmaOwners
  BY DEF IInv, Base
<1> SUFFICES ASSUME NEW t \in SdmaTypes
             PROVE  /\ \A a, r \in Procs, i, j \in Qids :
                          /\ Owns(qpd'[a], queue'[a], op'[a], i, t)
                          /\ Owns(qpd'[r], queue'[r], op'[r], j, t)
                          /\ queue'[a][i].sdma_id = queue'[r][j].sdma_id
                          => a = r /\ i = j
                    /\ \A a \in Procs, i \in Qids :
                          Owns(qpd'[a], queue'[a], op'[a], i, t)
                          => queue'[a][i].sdma_id \in SdmaIds \ dqm'.sdma_bitmap[t]
                    /\ \A n \in SdmaIds \ dqm'.sdma_bitmap[t] :
                          \E a \in Procs, i \in Qids :
                             /\ Owns(qpd'[a], queue'[a], op'[a], i, t)
                             /\ queue'[a][i].sdma_id = n
  BY DEF SdmaOwners
<1>6. \A a, r \in Procs, i, j \in Qids :
         /\ Owns(qpd'[a], queue'[a], op'[a], i, t)
         /\ Owns(qpd'[r], queue'[r], op'[r], j, t)
         /\ queue'[a][i].sdma_id = queue'[r][j].sdma_id
         => a = r /\ i = j
  BY <1>2, <1>5 DEF SdmaOwners
<1>7. ASSUME NEW a \in Procs, NEW i \in Qids,
             Owns(qpd'[a], queue'[a], op'[a], i, t)
      PROVE  queue'[a][i].sdma_id \in SdmaIds \ dqm'.sdma_bitmap[t]
  <2>1. /\ a # p /\ Owns(qpd[a], queue[a], op[a], i, t)
        /\ queue'[a][i].sdma_id = queue[a][i].sdma_id
    BY <1>2, <1>7
  <2>2. queue[a][i].sdma_id \in SdmaIds \ dqm.sdma_bitmap[t]
    BY <1>5, <2>1 DEF SdmaOwners
  <2>3. \A j \in Qids : Owns(qpd[p], queue[p], op[p], j, t)
                          => queue[p][j].sdma_id # queue[a][i].sdma_id
    BY <1>5, <2>1 DEF SdmaOwners
  <2> QED
    BY <1>4, <2>1, <2>2, <2>3
<1>8. ASSUME NEW n \in SdmaIds \ dqm'.sdma_bitmap[t]
      PROVE  \E a \in Procs, i \in Qids :
                /\ Owns(qpd'[a], queue'[a], op'[a], i, t)
                /\ queue'[a][i].sdma_id = n
  <2>1. PICK a \in Procs, i \in Qids :
           Owns(qpd[a], queue[a], op[a], i, t) /\ queue[a][i].sdma_id = n
    BY <1>4, <1>5, <1>8 DEF SdmaOwners
  <2>2. a # p
    BY <1>4, <1>8, <2>1
  <2> QED
    BY <1>2, <2>1, <2>2
<1> QED
  BY <1>6, <1>7, <1>8

\* process_termination_cpsch up to the first free_mqd, whatever the run list call
\* returned.
LEMMA Terminate ==
  ASSUME IInv, NEW p \in Procs, process_termination_cpsch(p)
  PROVE  Base'
<1> DEFINE d == terminate_clear(p)
           o == [at |-> "terminating", qid |-> NONE]
<1>1. /\ op' = [op EXCEPT ![p] = o]
      /\ UNCHANGED <<pqm, queue, phase, failed, stops>>
  BY DEF process_termination_cpsch
<1> DEFINE wave(x) == IF ~x.d.is_hws_hang
                         /\ (x.ret # "0" \/ qpd[p].reset_wavefronts)
                      THEN FALSE ELSE qpd[p].reset_wavefronts
           qp(x, first) ==
             [qpd[p] EXCEPT !.queues_list = @ \ first,
                            !.queue_count = Sub(@, Cardinality(first)),
                            !.reset_wavefronts = wave(x)]
<1>2. PICK x \in execute_queues_cpsch(d, hw, Runnable(d, queue, qpd)) :
         /\ dqm' = x.d /\ hw' = x.h
         /\ \E first \in IF NoQueues(p) THEN {{}}
                         ELSE {{i} : i \in qpd[p].queues_list} :
               qpd' = [qpd EXCEPT
                 ![p].queues_list = @ \ first,
                 ![p].queue_count = Sub(@, Cardinality(first)),
                 ![p].reset_wavefronts =
                    IF ~x.d.is_hws_hang /\ (x.ret # "0" \/ @)
                    THEN FALSE ELSE @]
  BY DEF process_termination_cpsch
<1>3. PICK first \in IF NoQueues(p) THEN {{}}
                     ELSE {{i} : i \in qpd[p].queues_list} :
               qpd' = [qpd EXCEPT ![p] = qp(x, first)]
  BY <1>2, Zenon
<1>4. Cardinality(first) \in Nat
  BY <1>3, At, FiniteSlots DEF Qpd
<1>5. wave(x) \in BOOLEAN
  <2>1. qpd[p].reset_wavefronts \in BOOLEAN
    BY At DEF Qpd
  <2> QED
    BY <2>1
<1>6. \A n \in Counter, k \in Nat : Sub(n, k) \in Counter
  BY CounterOps
<1> HIDE DEF wave, d
<1>7. /\ qp(x, first) \in Qpd
      /\ qp(x, first).queues_list = qpd[p].queues_list \ first
      /\ qp(x, first).diq = qpd[p].diq
      /\ qp(x, first).evicted = qpd[p].evicted
  BY <1>4, <1>5, <1>6, At DEF Qpd
<1> HIDE DEF qp
<1>8. DeviceTyped' /\ dqm'.sdma_bitmap = d.sdma_bitmap
  <2>1. d \in Dqm
    BY TerminateClear DEF d
  <2>2. /\ x.d \in Dqm /\ x.h \in SUBSET (Procs \X Qids)
        /\ x.d.sdma_bitmap = d.sdma_bitmap
    BY <1>2, <2>1, RunlistStep
  <2> QED
    BY <1>1, <1>2, <2>2, At DEF DeviceTyped
<1>9. o \in Op /\ o.at = "terminating"
  BY DEF Op
<1> HIDE DEF o
<1>10. OpSlot(qp(x, first), pqm[p], o) /\ SlotsTaken(qp(x, first), pqm[p])
  BY <1>7, <1>9, At DEF OpSlot, SlotsTaken
<1>11. HasSdmaId(qp(x, first), queue[p], o) /\ Marked(qp(x, first), queue[p])
  <2>1. op[p].at = "none"
    BY DEF process_termination_cpsch
  <2> QED
    BY <1>7, <1>9, <2>1, At DEF HasSdmaId, Marked
<1>12. SdmaOwners'
  <2>1. op[p].at = "none"
    BY DEF process_termination_cpsch
  <2>2. /\ Held(qpd[p], op[p]) = qpd[p].queues_list
        /\ Held(qp(x, first), o) = {}
    BY <1>9, <2>1 DEF Held
  <2>3. queue' = [queue EXCEPT ![p] = queue[p]]
    BY <1>1, At
  <2>4. dqm'.sdma_bitmap = sdma_given_back(dqm.sdma_bitmap, p)
    BY <1>8, TerminateClear DEF d
  <2> QED
    BY <1>1, <1>3, <2>2, <2>3, <2>4, DropAll, Zenon
<1> QED
  BY <1>1, <1>3, <1>7, <1>8, <1>9, <1>10, <1>11, <1>12, At, StepAt

\* Each turn of the free_mqd loop takes one queue off the list; what it held was
\* given back before.
LEMMA TerminateFreeMqd ==
  ASSUME IInv, NEW p \in Procs, terminate_free_mqd(p)
  PROVE  Base'
<1> DEFINE qp(i) == [qpd[p] EXCEPT !.queues_list = @ \ {i},
                                   !.queue_count = Dec(@)]
<1>1. /\ op[p].at = "terminating"
      /\ UNCHANGED <<dqm, hw, pqm, queue, op, phase, failed, stops>>
  BY DEF terminate_free_mqd, procVars
<1>2. PICK i \in qpd[p].queues_list : qpd' = [qpd EXCEPT ![p] = qp(i)]
  BY DEF terminate_free_mqd
<1>3. \A n \in Counter : Dec(n) \in Counter
  BY CounterOps, OpuQueuesAssumption
<1>4. /\ qp(i) \in Qpd /\ qp(i).queues_list = qpd[p].queues_list \ {i}
      /\ qp(i).diq = qpd[p].diq /\ qp(i).evicted = qpd[p].evicted
  BY <1>3, At DEF Qpd
<1> HIDE DEF qp
<1>5. DeviceTyped'
  BY <1>1, At DEF DeviceTyped
<1>6. OpSlot(qp(i), pqm[p], op[p]) /\ SlotsTaken(qp(i), pqm[p])
  BY <1>1, <1>4, At DEF OpSlot, SlotsTaken
<1>7. HasSdmaId(qp(i), queue[p], op[p]) /\ Marked(qp(i), queue[p])
  BY <1>1, <1>4, At DEF HasSdmaId, Marked
<1>8. SdmaOwners'
  <2>1. Held(qp(i), op[p]) = Held(qpd[p], op[p])
    BY <1>1 DEF Held
  <2>2. /\ queue' = [queue EXCEPT ![p] = queue[p]]
        /\ op' = [op EXCEPT ![p] = op[p]]
    BY <1>1, At
  <2>3. dqm'.sdma_bitmap = dqm.sdma_bitmap
    BY <1>1
  <2> QED
    BY <1>2, <2>1, <2>2, <2>3, KeepOwners, Zenon
<1> QED
  BY <1>1, <1>2, <1>4, <1>5, <1>6, <1>7, <1>8, At, StepAt

\* pqm_uninit leaves the process as a new one finds it.
LEMMA PqmUninit ==
  ASSUME IInv, NEW p \in Procs, pqm_uninit(p)
  PROVE  Base'
<1> DEFINE pq == [slots |-> {}, nodes |-> {}]
           qs == [i \in Qids |-> NoQueue]
<1>1. /\ pqm' = [pqm EXCEPT ![p] = pq] /\ op' = [op EXCEPT ![p] = NoOp]
      /\ queue' = [queue EXCEPT ![p] = qs] /\ qpd' = [qpd EXCEPT ![p] = FreshQpd]
      /\ phase' = [phase EXCEPT ![p] = "gone"]
      /\ UNCHANGED <<dqm, hw, failed, stops>>
  BY DEF pqm_uninit
<1>2. /\ pq \in Pqm /\ qs \in [Qids -> Queue] /\ FreshQpd \in Qpd
      /\ NoOp \in Op /\ NoOp.at = "none"
      /\ FreshQpd.queues_list = {} /\ FreshQpd.diq = NONE
      /\ \A i \in Qids : qs[i].type \notin SdmaTypes
  BY FreshTypes DEF Pqm, Op, NoOp, FreshQpd
<1>3. DeviceTyped'
  BY <1>1, At DEF DeviceTyped
<1>4. /\ OpSlot(FreshQpd, pq, NoOp) /\ SlotsTaken(FreshQpd, pq)
      /\ HasSdmaId(FreshQpd, qs, NoOp) /\ Marked(FreshQpd, qs)
  BY <1>2 DEF OpSlot, SlotsTaken, HasSdmaId, Marked
<1>5. SdmaOwners'
  <2>1. op[p].at = "terminating"
    BY DEF pqm_uninit
  <2>2. Held(FreshQpd, NoOp) = {} /\ Held(qpd[p], op[p]) = {}
    BY <1>2, <2>1 DEF Held
  <2> QED
    BY <1>1, <2>2, KeepOwners
<1> QED
  BY <1>1, <1>2, <1>3, <1>4, <1>5, StepAt

\* Steps that leave the lists, the slots, the queues and the operations alone.
LEMMA Frame ==
  ASSUME IInv, UNCHANGED <<qpd, pqm, queue, op>>, DeviceTyped',
         dqm'.sdma_bitmap = dqm.sdma_bitmap
  PROVE  Base'
<1>1. SdmaOwners'
  BY DEF IInv, Base, SdmaOwners
<1> QED
  BY <1>1 DEF IInv, Base, TypeOK, DeviceTyped

\* The begin of a release and the start of a new process.
LEMMA ReleaseAndNew ==
  ASSUME IInv, NEW p \in Procs, release_begin(p) \/ new_process(p)
  PROVE  Base'
<1>1. UNCHANGED <<dqm, hw, qpd, pqm, queue, op, stops>>
  BY DEF release_begin, new_process
<1>2. /\ phase' \in [Procs -> {"live", "releasing", "gone"}]
      /\ failed' \in [Procs -> BOOLEAN]
  BY At DEF DeviceTyped, release_begin, new_process
<1>3. DeviceTyped'
  BY <1>1, <1>2, At DEF DeviceTyped
<1> QED
  BY <1>1, <1>3, Frame

\* pre_reset, stop_cpsch and start_cpsch: suspend, resume and reset keep every
\* queue and what it holds.
LEMMA DeviceSteps ==
  ASSUME IInv, pre_reset \/ stop_cpsch \/ start_cpsch
  PROVE  Base'
<1>1. UNCHANGED <<qpd, pqm, queue, op, phase, failed>>
  BY DEF pre_reset, stop_cpsch, start_cpsch, procVars
<1>2. /\ dqm \in Dqm /\ hw \in SUBSET (Procs \X Qids) /\ stops \in 0..MaxStops
      /\ phase \in [Procs -> {"live", "releasing", "gone"}]
      /\ failed \in [Procs -> BOOLEAN]
  BY DEF IInv, Base, TypeOK
<1>3. /\ dqm' \in Dqm /\ hw' \in SUBSET (Procs \X Qids)
      /\ stops' \in 0..MaxStops /\ dqm'.sdma_bitmap = dqm.sdma_bitmap
  <2>1. CASE pre_reset
    BY <1>2, <2>1 DEF pre_reset, Dqm
  <2>2. CASE stop_cpsch
    <3>1. stops' \in 0..MaxStops
      BY <1>2, <2>2, OpuQueuesAssumption DEF stop_cpsch
    <3>2. PICK u \in IF dqm.is_hws_hang THEN {Result(dqm, hw, "EIO")}
                     ELSE unmap_queues_cpsch(dqm, hw) :
             /\ dqm' = [u.d EXCEPT !.sched_running = FALSE]
             /\ hw' = u.h
      BY <2>2 DEF stop_cpsch
    <3>3. /\ u.d \in Dqm /\ u.h \in SUBSET (Procs \X Qids)
          /\ u.d.sdma_bitmap = dqm.sdma_bitmap
      BY <1>2, <3>2, UnmapType DEF Results, Result
    <3>4. dqm' \in Dqm /\ dqm'.sdma_bitmap = dqm.sdma_bitmap
      BY <3>2, <3>3 DEF Dqm
    <3> QED
      BY <3>1, <3>2, <3>3, <3>4
  <2>3. CASE start_cpsch
    <3> DEFINE d == [dqm EXCEPT !.is_hws_hang = FALSE, !.is_resetting = FALSE,
                                !.sched_running = TRUE]
    <3>1. d \in Dqm /\ d.sdma_bitmap = dqm.sdma_bitmap
      BY <1>2 DEF Dqm
    <3>2. PICK x \in execute_queues_cpsch(d, {}, Runnable(d, queue, qpd)) :
             dqm' = x.d /\ hw' = x.h
      BY <2>3 DEF start_cpsch
    <3> HIDE DEF d
    <3>3. x \in Results /\ x.d.sdma_bitmap = dqm.sdma_bitmap
      BY <3>1, <3>2, RunnableType, ExecuteType
    <3>4. stops' = stops
      BY <2>3 DEF start_cpsch
    <3> QED
      BY <1>2, <3>2, <3>3, <3>4 DEF Results
  <2> QED
    BY <2>1, <2>2, <2>3
<1>4. DeviceTyped'
  BY <1>1, <1>2, <1>3 DEF DeviceTyped
<1> QED
  BY <1>1, <1>3, <1>4, Frame

-----------------------------------------------------------------------------

\* What a step that changes only what process p has leaves alone.
Rest(p) ==
  \A r \in Procs \ {p} :
    /\ qpd'[r] = qpd[r] /\ pqm'[r] = pqm[r] /\ queue'[r] = queue[r]
    /\ op'[r] = op[r] /\ phase'[r] = phase[r] /\ failed'[r] = failed[r]

\* What the invariant says of the nodes of process p.
LEMMA NodesNow ==
  ASSUME IInv, NEW p \in Procs
  PROVE  Nodes(qpd[p], pqm[p], queue[p], op[p], phase[p], failed[p])
BY DEF IInv, NodesAt

\* A step that changes only what process p has.
LEMMA NodesStep ==
  ASSUME IInv, NEW p \in Procs, Rest(p),
         Nodes(qpd'[p], pqm'[p], queue'[p], op'[p], phase'[p], failed'[p])
  PROVE  \A r \in Procs : NodesAt(r)'
BY NodesNow DEF Rest, NodesAt

\* Steps that change the queues and the counters, not the lists.
LEMMA NodesFrame ==
  ASSUME IInv, NEW p \in Procs, Rest(p),
         qpd'[p].queues_list = qpd[p].queues_list, qpd'[p].diq = qpd[p].diq,
         \/ /\ op'[p] = op[p]
            /\ \A i \in Qids : queue'[p][i].type = queue[p][i].type
         \/ op'[p].at = "update" /\ op[p].at = "none" /\ phase[p] = "live"
         \/ op'[p].at = "reserved" /\ op[p].at = "create" /\ phase[p] = "live"
         \/ op'[p].at = "none" /\ op[p].at = "update",
         UNCHANGED <<pqm, phase, failed>>
  PROVE  \A r \in Procs : NodesAt(r)'
<1>1. op[p].at = "create" => op[p].qid \in Qids
  BY At DEF OpSlot
<1>2. Nodes(qpd'[p], pqm'[p], queue'[p], op'[p], phase'[p], failed'[p])
  BY <1>1, NodesNow DEF Nodes
<1> QED
  BY <1>2, NodesStep

\* The calls of user mode.
LEMMA CallNodes ==
  ASSUME IInv, NEW p \in Procs, Call(p)
  PROVE  \A r \in Procs : NodesAt(r)'
<1>1. ASSUME NEW type, NEW on, create_begin(p, type, on),
             type = DIQ => qpd[p].diq = NONE
      PROVE  \A r \in Procs : NodesAt(r)'
  <2> DEFINE qid == Lowest(FreeSlots(p))
             pq  == [pqm[p] EXCEPT !.slots = @ \cup {qid}]
             qs  == [queue[p] EXCEPT ![qid] = FreshQueue(type, on)]
             o   == [at |-> "create", qid |-> qid]
  <2>1. qid \in Qids
    <3>1. FreeSlots(p) # {} /\ FreeSlots(p) \subseteq Nat
      BY <1>1, IdsAreNumbers DEF create_begin, FreeSlots
    <3> QED
      BY <3>1, LowestIn DEF FreeSlots
  <2>2. /\ pqm' = [pqm EXCEPT ![p] = pq] /\ queue' = [queue EXCEPT ![p] = qs]
        /\ op' = [op EXCEPT ![p] = o] /\ UNCHANGED <<qpd, phase, failed>>
        /\ phase[p] = "live" /\ op[p].at = "none"
    BY <1>1 DEF create_begin, MayCall
  <2> HIDE DEF qid
  <2>3. pq.nodes = pqm[p].nodes /\ o.at = "create" /\ o.qid = qid
    BY At DEF Pqm
  <2>4. qs[qid].type = type
    BY <2>1, At DEF FreshQueue
  <2> HIDE DEF pq, qs, o
  <2>5. Rest(p) /\ pqm'[p] = pq /\ queue'[p] = qs /\ op'[p] = o
    BY <2>2 DEF Rest, IInv, Base, TypeOK
  <2>6. Nodes(qpd'[p], pqm'[p], queue'[p], op'[p], phase'[p], failed'[p])
    BY <1>1, <2>2, <2>3, <2>4, <2>5, NodesNow DEF Nodes
  <2> QED
    BY <2>5, <2>6, NodesStep
<1>2. CASE create_call(p)
  <2>1. DIQ \notin Types
    BY OpuQueuesAssumption DEF DIQ, COMPUTE, SdmaTypes, SDMA, SDMA_XGMI
  <2> QED
    BY <1>1, <1>2, <2>1 DEF create_call, DebuggerFree
<1>3. CASE destroy_kernel_queue_cpsch(p)
  <2> DEFINE qp == [qpd[p] EXCEPT !.diq = NONE, !.is_debug = FALSE]
             o  == [at |-> "destroyed", qid |-> qpd[p].diq]
  <2>1. /\ qpd' = [qpd EXCEPT ![p] = qp] /\ op' = [op EXCEPT ![p] = o]
        /\ UNCHANGED <<pqm, queue, phase, failed>>
        /\ phase[p] = "live" /\ op[p].at = "none"
    BY <1>3 DEF destroy_kernel_queue_cpsch, MayCall
  <2>2. /\ qp.queues_list = qpd[p].queues_list /\ qp.diq = NONE
        /\ o.at = "destroyed" /\ o.qid = qpd[p].diq
    BY At DEF Qpd
  <2> HIDE DEF qp, o
  <2>3. Rest(p) /\ qpd'[p] = qp /\ op'[p] = o
    BY <2>1 DEF Rest, IInv, Base, TypeOK
  <2>4. Nodes(qpd'[p], pqm'[p], queue'[p], op'[p], phase'[p], failed'[p])
    BY <2>1, <2>2, <2>3, NodesNow DEF Nodes
  <2> QED
    BY <2>3, <2>4, NodesStep
<1>4. ASSUME NEW qid \in Qids, destroy_queue_cpsch(p, qid)
      PROVE  \A r \in Procs : NodesAt(r)'
  <2>1. \E b, k, w : qpd' = [qpd EXCEPT ![p] =
           [qpd[p] EXCEPT !.queues_list = @ \ {qid}, !.queue_count = k,
                          !.doorbell_bitmap = b, !.reset_wavefronts = w]]
    <3> DEFINE q  == queue[p][qid]
               d  == destroy_queue_count(deallocate_sdma_queue(dqm, q), q)
               b  == deallocate_doorbell(qpd[p].doorbell_bitmap, q)
               k  == Dec(qpd[p].queue_count)
               qn == [qpd EXCEPT ![p].queues_list = @ \ {qid},
                        ![p].queue_count = Dec(@),
                        ![p].doorbell_bitmap = deallocate_doorbell(@, q)]
               qq == [qpd[p] EXCEPT !.queues_list = @ \ {qid},
                        !.queue_count = k, !.doorbell_bitmap = b]
    <3>1. \E x : qpd' = [qn EXCEPT ![p].reset_wavefronts = @ \/ x.ret = "ETIME"]
      BY <1>4 DEF destroy_queue_cpsch
    <3>2. qn = [qpd EXCEPT ![p] = qq]
      OBVIOUS
    <3> HIDE DEF qn, q, d, b, k
    <3>3. qn[p] = qq /\ \A v : [qn EXCEPT ![p] = v] = [qpd EXCEPT ![p] = v]
      BY <3>2 DEF IInv, Base, TypeOK
    <3>4. PICK x : qpd' = [qn EXCEPT ![p].reset_wavefronts = @ \/ x.ret = "ETIME"]
      BY <3>1
    <3> DEFINE w == qq.reset_wavefronts \/ x.ret = "ETIME"
    <3>5. qpd' = [qn EXCEPT ![p] = [qq EXCEPT !.reset_wavefronts = w]]
      BY <3>3, <3>4
    <3> HIDE DEF w
    <3> QED
      BY <3>3, <3>5
  <2>2. PICK b, k, w : qpd' = [qpd EXCEPT ![p] =
           [qpd[p] EXCEPT !.queues_list = @ \ {qid}, !.queue_count = k,
                          !.doorbell_bitmap = b, !.reset_wavefronts = w]]
    BY <2>1
  <2> DEFINE qp == [qpd[p] EXCEPT !.queues_list = @ \ {qid}, !.queue_count = k,
                          !.doorbell_bitmap = b, !.reset_wavefronts = w]
             o  == [at |-> "destroyed", qid |-> qid]
  <2>3. /\ phase[p] = "live" /\ op[p].at = "none"
        /\ UNCHANGED <<pqm, queue, phase>>
        /\ \/ op' = [op EXCEPT ![p] = o] /\ failed' = failed
           \/ op' = op /\ failed' = [failed EXCEPT ![p] = TRUE]
    BY <1>4 DEF destroy_queue_cpsch, MayCall
  <2>4. /\ qp.queues_list = qpd[p].queues_list \ {qid} /\ qp.diq = qpd[p].diq
        /\ o.at = "destroyed" /\ o.qid = qid
    BY At DEF Qpd
  <2>5. qpd' = [qpd EXCEPT ![p] = qp]
    BY <2>2
  <2> HIDE DEF qp, o
  <2>6. CASE op' = [op EXCEPT ![p] = o] /\ failed' = failed
    <3>1. Rest(p) /\ qpd'[p] = qp /\ op'[p] = o
      BY <2>3, <2>5, <2>6 DEF Rest, IInv, Base, TypeOK
    <3>2. Nodes(qpd'[p], pqm'[p], queue'[p], op'[p], phase'[p], failed'[p])
      BY <2>3, <2>4, <2>6, <3>1, NodesNow DEF Nodes
    <3> QED
      BY <3>1, <3>2, NodesStep
  <2>7. CASE op' = op /\ failed' = [failed EXCEPT ![p] = TRUE]
    <3>1. Rest(p) /\ qpd'[p] = qp /\ failed'[p] = TRUE
      BY <2>3, <2>5, <2>7 DEF Rest, IInv, Base, TypeOK
    <3>2. Nodes(qpd'[p], pqm'[p], queue'[p], op'[p], phase'[p], failed'[p])
      BY <2>3, <2>4, <2>7, <3>1, NodesNow DEF Nodes
    <3> QED
      BY <3>1, <3>2, NodesStep
  <2> QED
    BY <2>3, <2>6, <2>7
<1>5. ASSUME NEW qid \in Qids, NEW on \in BOOLEAN, pqm_update_queue(p, qid, on)
      PROVE  \A r \in Procs : NodesAt(r)'
  <2> DEFINE qs == [queue[p] EXCEPT ![qid].on = on]
             o  == [at |-> "update", qid |-> qid]
  <2>1. /\ queue' = [queue EXCEPT ![p] = qs] /\ op' = [op EXCEPT ![p] = o]
        /\ UNCHANGED <<qpd, pqm, phase, failed>>
        /\ phase[p] = "live" /\ op[p].at = "none" /\ o.at = "update"
    BY <1>5 DEF pqm_update_queue, MayCall
  <2> HIDE DEF qs, o
  <2>2. Rest(p) /\ op'[p] = o
    BY <2>1 DEF Rest, IInv, Base, TypeOK
  <2> QED
    BY <2>1, <2>2, NodesFrame
<1>6. ASSUME NEW qid \in Qids, NEW gws \in BOOLEAN, pqm_set_gws(p, qid, gws)
      PROVE  \A r \in Procs : NodesAt(r)'
  <2> DEFINE qs == [queue[p] EXCEPT ![qid].gws = gws]
             qp == [qpd[p] EXCEPT !.num_gws = gws]
             o  == [at |-> "update", qid |-> qid]
  <2>1. /\ queue' = [queue EXCEPT ![p] = qs] /\ op' = [op EXCEPT ![p] = o]
        /\ qpd' = [qpd EXCEPT ![p] = qp] /\ UNCHANGED <<pqm, phase, failed>>
        /\ phase[p] = "live" /\ op[p].at = "none" /\ o.at = "update"
    BY <1>6 DEF pqm_set_gws, MayCall
  <2>2. qp.queues_list = qpd[p].queues_list /\ qp.diq = qpd[p].diq
    BY At DEF Qpd
  <2> HIDE DEF qs, qp, o
  <2>3. Rest(p) /\ op'[p] = o /\ qpd'[p] = qp
    BY <2>1 DEF Rest, IInv, Base, TypeOK
  <2> QED
    BY <2>1, <2>2, <2>3, NodesFrame
<1>7. CASE release_begin(p)
  <2>1. /\ phase' = [phase EXCEPT ![p] = "releasing"] /\ op[p].at = "none"
        /\ UNCHANGED <<qpd, pqm, queue, op, failed>>
    BY <1>7 DEF release_begin
  <2>2. Rest(p) /\ phase'[p] = "releasing"
    BY <2>1 DEF Rest, IInv, Base, TypeOK
  <2>3. Nodes(qpd'[p], pqm'[p], queue'[p], op'[p], phase'[p], failed'[p])
    BY <2>1, <2>2, NodesNow DEF Nodes
  <2> QED
    BY <2>2, <2>3, NodesStep
<1>8. CASE new_process(p)
  <2>1. /\ phase' = [phase EXCEPT ![p] = "live"] /\ phase[p] = "gone"
        /\ failed' = [failed EXCEPT ![p] = FALSE]
        /\ UNCHANGED <<qpd, pqm, queue, op>>
    BY <1>8 DEF new_process
  <2>2. Rest(p) /\ phase'[p] = "live" /\ failed'[p] = FALSE
    BY <2>1 DEF Rest, IInv, Base, TypeOK
  <2>3. Nodes(qpd'[p], pqm'[p], queue'[p], op'[p], phase'[p], failed'[p])
    BY <2>1, <2>2, NodesNow DEF Nodes
  <2> QED
    BY <2>2, <2>3, NodesStep
<1> QED
  BY <1>2, <1>3, <1>4, <1>5, <1>6, <1>7, <1>8 DEF Call

\* The steps inside an operation.
LEMMA ProceedNodes ==
  ASSUME IInv, NEW p \in Procs, Proceed(p)
  PROVE  \A r \in Procs : NodesAt(r)'
<1>1. ASSUME NEW d, NEW qp, create_undo(p, d), op[p].at \in {"create", "reserved"},
             qpd' = [qpd EXCEPT ![p] = qp], qp.diq = qpd[p].diq,
             qp.queues_list = qpd[p].queues_list
      PROVE  \A r \in Procs : NodesAt(r)'
  <2> DEFINE pq == [pqm[p] EXCEPT !.slots = @ \ {op[p].qid}]
             qs == [queue[p] EXCEPT ![op[p].qid] = NoQueue]
  <2>1. /\ pqm' = [pqm EXCEPT ![p] = pq] /\ queue' = [queue EXCEPT ![p] = qs]
        /\ op' = [op EXCEPT ![p] = NoOp] /\ UNCHANGED <<phase, failed>>
    BY <1>1 DEF create_undo
  <2>2. pq.nodes = pqm[p].nodes /\ NoOp.at = "none"
    BY At DEF Pqm, NoOp
  <2> HIDE DEF pq, qs
  <2>3. Rest(p) /\ qpd'[p] = qp /\ pqm'[p] = pq /\ op'[p] = NoOp
    BY <1>1, <2>1 DEF Rest, IInv, Base, TypeOK
  <2>4. Nodes(qpd'[p], pqm'[p], queue'[p], op'[p], phase'[p], failed'[p])
    BY <1>1, <2>1, <2>2, <2>3, NodesNow DEF Nodes
  <2> QED
    BY <2>3, <2>4, NodesStep
<1>2. CASE create_refused(p) \/ create_kernel_queue_refused(p)
  <2>1. op[p].at = "create" /\ create_undo(p, dqm) /\ qpd' = qpd
    BY <1>2 DEF create_refused, create_kernel_queue_refused
  <2> QED
    BY <1>1, <2>1, At
<1>3. CASE create_no_mqd(p)
  <2> DEFINE b  == deallocate_doorbell(qpd[p].doorbell_bitmap, queue[p][op[p].qid])
             qp == [qpd[p] EXCEPT !.doorbell_bitmap = b]
  <2>1. /\ op[p].at = "reserved" /\ qpd' = [qpd EXCEPT ![p] = qp]
        /\ \E d : create_undo(p, d)
    BY <1>3 DEF create_no_mqd
  <2> HIDE DEF b
  <2>2. qp.diq = qpd[p].diq /\ qp.queues_list = qpd[p].queues_list
    BY At DEF Qpd
  <2> HIDE DEF qp
  <2> QED
    BY <1>1, <2>1, <2>2
<1>4. CASE create_reserve(p)
  <2> DEFINE o == [op[p] EXCEPT !.at = "reserved"]
  <2>1. /\ op' = [op EXCEPT ![p] = o] /\ op[p].at = "create"
        /\ UNCHANGED <<pqm, phase, failed>>
    BY <1>4 DEF create_reserve
  <2>2. o.at = "reserved" /\ phase[p] = "live"
    <3>1. phase[p] # "live" => op[p].at \in {"none", "terminating"}
      BY NodesNow DEF Nodes
    <3> QED
      BY <2>1, <3>1, At DEF Op
  <2> HIDE DEF o
  <2>3. \E qs : queue' = [queue EXCEPT ![p] = qs]
    BY <1>4 DEF create_reserve
  <2>4. \E qp : /\ qpd' = [qpd EXCEPT ![p] = qp] /\ qp.diq = qpd[p].diq
                /\ qp.queues_list = qpd[p].queues_list
    <3> DEFINE b  == qpd[p].doorbell_bitmap \cup {Lowest(FreeDoorbells(p))}
               qp == [qpd[p] EXCEPT !.doorbell_bitmap = b]
    <3>1. qpd' = qpd \/ qpd' = [qpd EXCEPT ![p] = qp]
      BY <1>4 DEF create_reserve
    <3> HIDE DEF b
    <3>2. qp.diq = qpd[p].diq /\ qp.queues_list = qpd[p].queues_list
      BY At DEF Qpd
    <3> HIDE DEF qp
    <3> QED
      BY <3>1, <3>2, At
  <2>5. /\ Rest(p) /\ op'[p] = o /\ qpd'[p].diq = qpd[p].diq
        /\ qpd'[p].queues_list = qpd[p].queues_list
    BY <2>1, <2>3, <2>4 DEF Rest, IInv, Base, TypeOK
  <2> QED
    BY <2>1, <2>2, <2>5, NodesFrame
<1>5. CASE create_queue_cpsch(p)
  <2> DEFINE k  == Inc(qpd[p].queue_count)
             qp == [qpd[p] EXCEPT !.queues_list = @ \cup {op[p].qid},
                                  !.queue_count = k]
             pq == [pqm[p] EXCEPT !.nodes = @ \cup {op[p].qid}]
             q  == update_mqd([queue[p][op[p].qid] EXCEPT
                                 !.is_evicted = qpd[p].evicted > 0])
             qs == [queue[p] EXCEPT ![op[p].qid] = q]
  <2>1. /\ qpd' = [qpd EXCEPT ![p] = qp] /\ pqm' = [pqm EXCEPT ![p] = pq]
        /\ op' = [op EXCEPT ![p] = NoOp] /\ UNCHANGED <<phase, failed>>
        /\ op[p].at = "reserved"
    BY <1>5 DEF create_queue_cpsch
  <2>2. queue' = [queue EXCEPT ![p] = qs]
    BY <1>5 DEF create_queue_cpsch
  <2> HIDE DEF k, q
  <2>3. /\ qp.queues_list = qpd[p].queues_list \cup {op[p].qid}
        /\ qp.diq = qpd[p].diq /\ pq.nodes = pqm[p].nodes \cup {op[p].qid}
        /\ NoOp.at = "none"
    BY At DEF Qpd, Pqm, NoOp
  <2> HIDE DEF qp, pq, qs
  <2>4. Rest(p) /\ qpd'[p] = qp /\ pqm'[p] = pq /\ op'[p] = NoOp
    BY <2>1, <2>2 DEF Rest, IInv, Base, TypeOK
  <2>5. Nodes(qpd'[p], pqm'[p], queue'[p], op'[p], phase'[p], failed'[p])
    BY <2>1, <2>3, <2>4, NodesNow DEF Nodes
  <2> QED
    BY <2>4, <2>5, NodesStep
<1>6. CASE create_kernel_queue_cpsch(p)
  <2> DEFINE qp == [qpd[p] EXCEPT !.diq = op[p].qid, !.is_debug = TRUE]
             pq == [pqm[p] EXCEPT !.nodes = @ \cup {op[p].qid}]
  <2>1. /\ qpd' = [qpd EXCEPT ![p] = qp] /\ pqm' = [pqm EXCEPT ![p] = pq]
        /\ op' = [op EXCEPT ![p] = NoOp] /\ UNCHANGED <<queue, phase, failed>>
        /\ op[p].at = "create" /\ queue[p][op[p].qid].type = DIQ
    BY <1>6 DEF create_kernel_queue_cpsch
  <2>2. /\ qp.queues_list = qpd[p].queues_list /\ qp.diq = op[p].qid
        /\ pq.nodes = pqm[p].nodes \cup {op[p].qid} /\ NoOp.at = "none"
    BY At DEF Qpd, Pqm, NoOp
  <2> HIDE DEF qp, pq
  <2>3. \A i \in pqm[p].nodes : i \in Qids
    BY At DEF Pqm
  <2>4. NONE \notin Qids
    BY IdsAreNumbers
  <2>5. Rest(p) /\ qpd'[p] = qp /\ pqm'[p] = pq /\ op'[p] = NoOp
    BY <2>1 DEF Rest, IInv, Base, TypeOK
  <2>6. Nodes(qpd'[p], pqm'[p], queue'[p], op'[p], phase'[p], failed'[p])
    <3>1. Nodes(qpd[p], pqm[p], queue[p], op[p], phase[p], failed[p])
      BY NodesNow
    <3>2. \A i \in pqm[p].nodes : i # qpd[p].diq
      BY <2>1, <2>3, <2>4, <3>1 DEF Nodes
    <3>3. phase'[p] = "live" /\ failed'[p] = failed[p] /\ op'[p].at = "none"
      BY <2>1, <2>2, <2>5, <3>1 DEF Nodes
    <3>4. failed[p] = FALSE => \A i \in pqm[p].nodes : i \in qpd[p].queues_list
      BY <2>1, <3>1, <3>2 DEF Nodes
    <3> QED
      BY <2>2, <2>5, <3>3, <3>4 DEF Nodes
  <2> QED
    BY <2>5, <2>6, NodesStep
<1>7. CASE destroy_finish(p)
  <2> DEFINE qid == op[p].qid
             pq == [pqm[p] EXCEPT !.slots = @ \ {qid}, !.nodes = @ \ {qid}]
             n  == [qpd[p] EXCEPT !.num_gws = FALSE]
             qs == [queue[p] EXCEPT ![qid] = NoQueue]
  <2>1. /\ pqm' = [pqm EXCEPT ![p] = pq] /\ queue' = [queue EXCEPT ![p] = qs]
        /\ qpd' = qpd \/ qpd' = [qpd EXCEPT ![p] = n]
        /\ op' = [op EXCEPT ![p] = NoOp] /\ UNCHANGED <<phase, failed>>
        /\ op[p].at = "destroyed"
    BY <1>7 DEF destroy_finish
  <2>2. /\ n.queues_list = qpd[p].queues_list /\ n.diq = qpd[p].diq
        /\ pq.nodes = pqm[p].nodes \ {qid} /\ NoOp.at = "none"
    BY At DEF Qpd, Pqm, NoOp
  <2> HIDE DEF n, pq, qs
  <2>3. PICK qp : /\ qpd' = [qpd EXCEPT ![p] = qp] /\ qp.diq = qpd[p].diq
                  /\ qp.queues_list = qpd[p].queues_list
    BY <2>1, <2>2, At
  <2>4. Rest(p) /\ qpd'[p] = qp /\ pqm'[p] = pq /\ op'[p] = NoOp
    BY <2>1, <2>3 DEF Rest, IInv, Base, TypeOK
  <2>5. Nodes(qpd'[p], pqm'[p], queue'[p], op'[p], phase'[p], failed'[p])
    <3>1. Nodes(qpd[p], pqm[p], queue[p], op[p], phase[p], failed[p])
      BY NodesNow
    <3>2. phase'[p] = "live" /\ failed'[p] = failed[p] /\ op'[p].at = "none"
      BY <2>1, <2>2, <2>4, <3>1 DEF Nodes
    <3>3. failed[p] = FALSE => \A i \in pqm[p].nodes :
             i \in qpd[p].queues_list \/ i = qpd[p].diq \/ i = qid
      BY <2>1, <3>1 DEF Nodes
    <3> QED
      BY <2>2, <2>3, <2>4, <3>2, <3>3 DEF Nodes
  <2> QED
    BY <2>4, <2>5, NodesStep
<1>8. CASE update_queue(p)
  <2>1. /\ op' = [op EXCEPT ![p] = NoOp] /\ UNCHANGED <<qpd, pqm, phase, failed>>
        /\ op[p].at = "update" /\ NoOp.at = "none"
    BY <1>8 DEF update_queue, NoOp
  <2>2. \E qs : queue' = [queue EXCEPT ![p] = qs]
    <3> DEFINE q  == update_mqd(queue[p][op[p].qid])
               qs == [queue[p] EXCEPT ![op[p].qid] = [q EXCEPT !.is_gws = q.gws]]
    <3>1. queue' = queue \/ queue' = [queue EXCEPT ![p] = qs]
      BY <1>8 DEF update_queue
    <3> HIDE DEF qs
    <3> QED
      BY <3>1, At
  <2>3. Rest(p) /\ op'[p] = NoOp
    BY <2>1, <2>2 DEF Rest, IInv, Base, TypeOK
  <2> QED
    BY <2>1, <2>3, NodesFrame
<1>9. CASE process_termination_cpsch(p)
  <2>1. /\ op[p].at = "none" /\ UNCHANGED <<pqm, queue, phase, failed>>
        /\ op' = [op EXCEPT ![p] = [at |-> "terminating", qid |-> NONE]]
    BY <1>9 DEF process_termination_cpsch
  <2>2. \A r \in Procs \ {p} : qpd'[r] = qpd[r]
    BY <1>9 DEF process_termination_cpsch, IInv, Base, TypeOK
  <2>3. Rest(p) /\ op'[p].at = "terminating"
    BY <2>1, <2>2 DEF Rest, IInv, Base, TypeOK
  <2>4. Nodes(qpd'[p], pqm'[p], queue'[p], op'[p], phase'[p], failed'[p])
    <3>1. Nodes(qpd[p], pqm[p], queue[p], op[p], phase[p], failed[p])
      BY NodesNow
    <3> QED
      BY <2>1, <2>3, <3>1, ZenonT(30) DEF Nodes
  <2> QED
    BY <2>3, <2>4, NodesStep
<1>10. CASE terminate_free_mqd(p)
  <2>1. /\ op[p].at = "terminating" /\ UNCHANGED <<pqm, queue, op, phase, failed>>
    BY <1>10 DEF terminate_free_mqd, procVars
  <2>2. \A r \in Procs \ {p} : qpd'[r] = qpd[r]
    BY <1>10 DEF terminate_free_mqd, IInv, Base, TypeOK
  <2>3. Rest(p)
    BY <2>1, <2>2 DEF Rest
  <2>4. Nodes(qpd'[p], pqm'[p], queue'[p], op'[p], phase'[p], failed'[p])
    BY <2>1, NodesNow DEF Nodes
  <2> QED
    BY <2>3, <2>4, NodesStep
<1>11. CASE pqm_uninit(p)
  <2> DEFINE pq == [slots |-> {}, nodes |-> {}]
             qs == [i \in Qids |-> NoQueue]
  <2>1. /\ pqm' = [pqm EXCEPT ![p] = pq] /\ queue' = [queue EXCEPT ![p] = qs]
        /\ op' = [op EXCEPT ![p] = NoOp] /\ phase' = [phase EXCEPT ![p] = "gone"]
        /\ qpd' = [qpd EXCEPT ![p] = FreshQpd] /\ failed' = failed
    BY <1>11 DEF pqm_uninit
  <2>2. pq.nodes = {} /\ NoOp.at = "none"
    BY DEF NoOp
  <2> HIDE DEF pq, qs
  <2>3. Rest(p) /\ pqm'[p] = pq /\ op'[p] = NoOp
    BY <2>1 DEF Rest, IInv, Base, TypeOK
  <2>4. Nodes(qpd'[p], pqm'[p], queue'[p], op'[p], phase'[p], failed'[p])
    BY <2>2, <2>3 DEF Nodes
  <2> QED
    BY <2>3, <2>4, NodesStep
<1> QED
  BY <1>2, <1>3, <1>4, <1>5, <1>6, <1>7, <1>8, <1>9, <1>10, <1>11 DEF Proceed

\* Every step preserves what the invariant says of the nodes.
LEMMA NextNodes == IInv /\ [Next]_vars => \A r \in Procs : NodesAt(r)'
<1> SUFFICES ASSUME IInv, [Next]_vars PROVE \A r \in Procs : NodesAt(r)'
  OBVIOUS
<1>1. ASSUME UNCHANGED <<qpd, pqm, queue, op, phase, failed>>
      PROVE  \A r \in Procs : NodesAt(r)'
  BY <1>1 DEF IInv, NodesAt
<1>2. ASSUME NEW p \in Procs, evict_process_queues_cpsch(p)
      PROVE  \A r \in Procs : NodesAt(r)'
  <2> DEFINE qp == [qpd[p] EXCEPT !.evicted = @ + 1]
             qs == [i \in Qids |-> IF i \in qpd[p].queues_list
                                   THEN evict_queue(queue[p][i])
                                   ELSE queue[p][i]]
  <2>1. /\ qpd' = [qpd EXCEPT ![p] = qp] /\ UNCHANGED <<pqm, op, phase, failed>>
        /\ queue' = queue \/ queue' = [queue EXCEPT ![p] = qs]
    BY <1>2 DEF evict_process_queues_cpsch
  <2>2. qp.queues_list = qpd[p].queues_list /\ qp.diq = qpd[p].diq
    BY At DEF Qpd
  <2>3. \A i \in Qids : qs[i].type = queue[p][i].type
    BY At DEF evict_queue, Queue
  <2> HIDE DEF qp, qs
  <2>4. /\ Rest(p) /\ qpd'[p] = qp /\ op'[p] = op[p]
        /\ queue'[p] = queue[p] \/ queue'[p] = qs
    BY <2>1 DEF Rest, IInv, Base, TypeOK
  <2> QED
    BY <2>1, <2>2, <2>3, <2>4, NodesFrame
<1>3. ASSUME NEW p \in Procs, restore_process_queues_cpsch(p)
      PROVE  \A r \in Procs : NodesAt(r)'
  <2> DEFINE less == [qpd[p] EXCEPT !.evicted = @ - 1]
             zero == [qpd[p] EXCEPT !.evicted = 0]
             qs   == [i \in Qids |-> IF i \in qpd[p].queues_list
                                     THEN restore_queue(queue[p][i])
                                     ELSE queue[p][i]]
  <2>1. /\ qpd' = [qpd EXCEPT ![p] = less] \/ qpd' = [qpd EXCEPT ![p] = zero]
        /\ UNCHANGED <<pqm, op, phase, failed>>
        /\ queue' = queue \/ queue' = [queue EXCEPT ![p] = qs]
    BY <1>3 DEF restore_process_queues_cpsch
  <2>2. /\ less.queues_list = qpd[p].queues_list /\ less.diq = qpd[p].diq
        /\ zero.queues_list = qpd[p].queues_list /\ zero.diq = qpd[p].diq
    BY At DEF Qpd
  <2>3. \A i \in Qids : qs[i].type = queue[p][i].type
    BY At DEF restore_queue, Queue
  <2> HIDE DEF less, zero, qs
  <2>4. /\ Rest(p) /\ op'[p] = op[p]
        /\ qpd'[p] = less \/ qpd'[p] = zero
        /\ queue'[p] = queue[p] \/ queue'[p] = qs
    BY <2>1 DEF Rest, IInv, Base, TypeOK
  <2> QED
    BY <2>1, <2>2, <2>3, <2>4, NodesFrame
<1> QED
  BY <1>1, <1>2, <1>3, CallNodes, ProceedNodes
     DEF Next, vars, procVars, pre_reset, stop_cpsch, start_cpsch

\* Every step preserves the rest of the invariant.
LEMMA NextBase == IInv /\ [Next]_vars => Base'
<1> SUFFICES ASSUME IInv, [Next]_vars PROVE Base'
  OBVIOUS
<1>1. CASE UNCHANGED vars
  BY <1>1, Frame DEF vars, DeviceTyped, IInv, Base, TypeOK
<1>2. ASSUME NEW p \in Procs, Call(p) PROVE Base'
  <2>1. CASE create_call(p)
    <3>1. ASSUME NEW type \in Types, NEW on \in BOOLEAN,
                 create_begin(p, type, on)
          PROVE  Base'
      <4>1. type \in {COMPUTE, DIQ} \cup SdmaTypes
        BY OpuQueuesAssumption
      <4> QED
        BY <3>1, <4>1, CreateBegin
    <3>2. CASE create_begin(p, DIQ, TRUE)
      BY <3>2, CreateBegin
    <3> QED
      BY <2>1, <3>1, <3>2 DEF create_call
  <2>2. CASE \E qid \in Qids :
                \/ destroy_queue_cpsch(p, qid)
                \/ \E on \in BOOLEAN : pqm_update_queue(p, qid, on)
                \/ \E gws \in BOOLEAN : pqm_set_gws(p, qid, gws)
    BY <2>2, DestroyQueue, UpdateBegin, SetGws
  <2> QED
    BY <1>2, <2>1, <2>2, DestroyKernelQueue, ReleaseAndNew DEF Call
<1>3. ASSUME NEW p \in Procs, Proceed(p) PROVE Base'
  BY <1>3, CreateRefused, CreateReserve, CreateNoMqd, CreateQueue,
     CreateKernelQueue, DestroyFinish, UpdateQueue, Terminate,
     TerminateFreeMqd, PqmUninit DEF Proceed
<1> QED
  BY <1>1, <1>2, <1>3, Evict, Restore, DeviceSteps DEF Next

\* Every step preserves the invariant.
LEMMA NextIInv == IInv /\ [Next]_vars => IInv'
BY NextBase, NextNodes DEF IInv

\* The inductive invariant holds in every behaviour, for any number of
\* processes, queues and SDMA queues and whatever the firmware answers.
THEOREM Invariance == Spec => []IInv
BY InitIInv, NextIInv, PTL DEF Spec

\* The variables keep their types; in particular the lists of a qpd hold slots
\* of its process, and no counter leaves the range of unsigned int.
THEOREM TypeCorrect == Spec => []TypeOK
<1>1. IInv => TypeOK
  BY DEF IInv, Base
<1> QED
  BY <1>1, Invariance, PTL

\* While a process is evicted, however often, every queue on its list is marked
\* and none is active, the ones created or updated meanwhile included, and none
\* stays marked afterwards: for any number of processes and queues, with nested
\* evictions, failing run lists, hangs, suspends and resets.
THEOREM EvictionIsComplete == Spec => []EvictedIsInactive
<1>1. IInv => EvictedIsInactive
  BY DEF IInv, Base, ProcInv, Marked, EvictedIsInactive
<1> QED
  BY <1>1, Invariance, PTL

\* The invariant's account of the SDMA queues is SdmaExclusive.
LEMMA OwnersAreHolders == ~CarriesOn /\ SdmaOwners => SdmaExclusive
<1> SUFFICES ASSUME ~CarriesOn, SdmaOwners PROVE SdmaExclusive
  OBVIOUS
<1>1. \A p \in Procs : Holding(p) = Held(qpd[p], op[p])
  BY DEF Holding, Held
<1> SUFFICES ASSUME NEW t \in SdmaTypes
             PROVE  /\ \A x, y \in SdmaHolders(t) :
                          queue[x[1]][x[2]].sdma_id = queue[y[1]][y[2]].sdma_id => x = y
                    /\ {queue[x[1]][x[2]].sdma_id : x \in SdmaHolders(t)}
                          = SdmaIds \ dqm.sdma_bitmap[t]
  BY DEF SdmaExclusive
<1>2. /\ \A x \in SdmaHolders(t) :
            /\ x[1] \in Procs /\ x[2] \in Qids /\ x = <<x[1], x[2]>>
            /\ Owns(qpd[x[1]], queue[x[1]], op[x[1]], x[2], t)
      /\ \A p \in Procs, i \in Qids :
            Owns(qpd[p], queue[p], op[p], i, t) => <<p, i>> \in SdmaHolders(t)
  BY <1>1 DEF SdmaHolders, Owns
<1>3. \A x, y \in SdmaHolders(t) :
         queue[x[1]][x[2]].sdma_id = queue[y[1]][y[2]].sdma_id => x = y
  <2> SUFFICES ASSUME NEW x \in SdmaHolders(t), NEW y \in SdmaHolders(t),
                      queue[x[1]][x[2]].sdma_id = queue[y[1]][y[2]].sdma_id
               PROVE  x = y
    OBVIOUS
  <2>1. x[1] = y[1] /\ x[2] = y[2]
    BY <1>2 DEF SdmaOwners
  <2> QED
    BY <1>2, <2>1
<1>4. ASSUME NEW x \in SdmaHolders(t)
      PROVE  queue[x[1]][x[2]].sdma_id \in SdmaIds \ dqm.sdma_bitmap[t]
  BY <1>2 DEF SdmaOwners
<1>5. ASSUME NEW k \in SdmaIds \ dqm.sdma_bitmap[t]
      PROVE  \E x \in SdmaHolders(t) : queue[x[1]][x[2]].sdma_id = k
  <2>1. PICK p \in Procs, i \in Qids :
           Owns(qpd[p], queue[p], op[p], i, t) /\ queue[p][i].sdma_id = k
    BY <1>5 DEF SdmaOwners
  <2>2. <<p, i>> \in SdmaHolders(t)
    BY <1>2, <2>1
  <2> QED
    BY <2>1, <2>2
<1> QED
  BY <1>3, <1>4, <1>5

\* An SDMA queue of the device never has two holders and never gets lost, in any
\* order of creations (failing ones included), destructions and terminations of
\* any number of processes, although it is reserved, used and given back in
\* separate sections under dqm_lock, and although a destroy may fail: as long as
\* user mode does not destroy a queue again whose destroy failed.
THEOREM SdmaQueuesAreExclusive ==
  ASSUME ~CarriesOn
  PROVE  Spec => []SdmaExclusive
<1>1. IInv => SdmaExclusive
  BY OwnersAreHolders DEF IInv, Base
<1> QED
  BY <1>1, Invariance, PTL
-----------------------------------------------------------------------------
(* What the helpers of the dqm do to its counters, its list of processes   *)
(* and the state of its scheduler.                                         *)

SameCounts(d, e) ==
  /\ e.active_queue_count = d.active_queue_count
  /\ e.active_cp_queue_count = d.active_cp_queue_count
  /\ e.total_queue_count = d.total_queue_count

SameSched(d, e) ==
  /\ e.active_runlist = d.active_runlist
  /\ e.is_hws_hang = d.is_hws_hang
  /\ e.sched_running = d.sched_running

LEMMA CountFacts ==
  ASSUME NEW d \in Dqm, NEW type
  PROVE  LET up   == increment_queue_count(d, type)
             down == decrement_queue_count(d, type)
         IN  /\ up \in Dqm /\ SameSched(d, up) /\ up.registered = d.registered
             /\ up.total_queue_count = d.total_queue_count
             /\ up.active_queue_count = Inc(d.active_queue_count)
             /\ up.active_cp_queue_count = IF is_cp(type) THEN Inc(d.active_cp_queue_count)
                                           ELSE d.active_cp_queue_count
             /\ down \in Dqm /\ SameSched(d, down) /\ down.registered = d.registered
             /\ down.total_queue_count = d.total_queue_count
             /\ down.active_queue_count = Dec(d.active_queue_count)
             /\ down.active_cp_queue_count = IF is_cp(type) THEN Dec(d.active_cp_queue_count)
                                             ELSE d.active_cp_queue_count
<1>1. increment_queue_count(d, type) \in Dqm /\ decrement_queue_count(d, type) \in Dqm
  BY QueueCountType
<1> QED
  BY <1>1 DEF Dqm, increment_queue_count, decrement_queue_count, SameSched

LEMMA TotalFacts ==
  ASSUME NEW d \in Dqm, NEW n \in Counter
  PROVE  LET e == [d EXCEPT !.total_queue_count = n]
         IN  /\ e \in Dqm /\ SameSched(d, e) /\ e.registered = d.registered
             /\ e.sdma_bitmap = d.sdma_bitmap /\ e.total_queue_count = n
             /\ e.active_queue_count = d.active_queue_count
             /\ e.active_cp_queue_count = d.active_cp_queue_count
BY DEF Dqm, SameSched

LEMMA RegisterFacts ==
  ASSUME NEW d \in Dqm, NEW p \in Procs
  PROVE  LET up   == register_process(d, p)
             down == unregister_process(d, p)
         IN  /\ up \in Dqm /\ SameSched(d, up) /\ SameCounts(d, up)
             /\ up.registered[p] = d.registered[p] + 1
             /\ \A r \in Procs \ {p} : up.registered[r] = d.registered[r]
             /\ down \in Dqm /\ SameSched(d, down) /\ SameCounts(d, down)
             /\ down.registered[p] = IF d.registered[p] = 0 THEN 0 ELSE d.registered[p] - 1
             /\ \A r \in Procs \ {p} : down.registered[r] = d.registered[r]
<1> DEFINE up   == [d.registered EXCEPT ![p] = d.registered[p] + 1]
           down == [d.registered EXCEPT ![p] = IF d.registered[p] = 0 THEN 0
                                               ELSE d.registered[p] - 1]
<1>1. d.registered \in [Procs -> Nat]
  BY DEF Dqm
<1>2. /\ up \in [Procs -> Nat] /\ down \in [Procs -> Nat]
      /\ up[p] = d.registered[p] + 1
      /\ down[p] = IF d.registered[p] = 0 THEN 0 ELSE d.registered[p] - 1
      /\ \A r \in Procs \ {p} : up[r] = d.registered[r] /\ down[r] = d.registered[r]
  BY <1>1
<1>3. /\ register_process(d, p) = [d EXCEPT !.registered = up]
      /\ unregister_process(d, p) = [d EXCEPT !.registered = down]
  BY DEF register_process, unregister_process
<1>4. register_process(d, p) \in Dqm /\ unregister_process(d, p) \in Dqm
  BY RegisterType
<1> HIDE DEF up, down
<1>5. /\ register_process(d, p).registered = up /\ unregister_process(d, p).registered = down
      /\ SameSched(d, register_process(d, p)) /\ SameCounts(d, register_process(d, p))
      /\ SameSched(d, unregister_process(d, p)) /\ SameCounts(d, unregister_process(d, p))
  BY <1>3 DEF Dqm, SameSched, SameCounts
<1> QED BY <1>2, <1>4, <1>5

LEMMA DeallocateFacts ==
  ASSUME NEW d \in Dqm, NEW q \in Queue, q.type \in SdmaTypes => q.sdma_id \in SdmaIds
  PROVE  LET e == deallocate_sdma_queue(d, q)
         IN  e \in Dqm /\ SameSched(d, e) /\ SameCounts(d, e) /\ e.registered = d.registered
<1>1. deallocate_sdma_queue(d, q) \in Dqm
  BY DeallocateType
<1>2. \A b : LET e == [d EXCEPT !.sdma_bitmap = b]
             IN  SameSched(d, e) /\ SameCounts(d, e) /\ e.registered = d.registered
  BY DEF SameSched, SameCounts, Dqm
<1>3. \E b : deallocate_sdma_queue(d, q) = [d EXCEPT !.sdma_bitmap = b]
  <2>1. CASE q.type \in SdmaTypes
    <3>1. deallocate_sdma_queue(d, q) =
            [d EXCEPT !.sdma_bitmap = [d.sdma_bitmap EXCEPT ![q.type] = d.sdma_bitmap[q.type] \cup {q.sdma_id}]]
      BY <2>1 DEF deallocate_sdma_queue
    <3> QED BY <3>1
  <2>2. CASE q.type \notin SdmaTypes
    <3>1. deallocate_sdma_queue(d, q) = d /\ d = [d EXCEPT !.sdma_bitmap = d.sdma_bitmap]
      BY <2>2 DEF deallocate_sdma_queue, Dqm
    <3> QED BY <3>1
  <2> QED BY <2>1, <2>2
<1> QED BY <1>1, <1>2, <1>3

LEMMA DestroyCountFacts ==
  ASSUME NEW d \in Dqm, NEW q \in Queue
  PROVE  LET e == destroy_queue_count(d, q)
         IN  /\ e \in Dqm /\ SameSched(d, e) /\ e.registered = d.registered
             /\ e.total_queue_count = Dec(d.total_queue_count)
             /\ e.active_queue_count = IF q.is_active THEN Dec(d.active_queue_count)
                                       ELSE d.active_queue_count
             /\ e.active_cp_queue_count = IF q.is_active /\ is_cp(q.type)
                                          THEN Dec(d.active_cp_queue_count)
                                          ELSE d.active_cp_queue_count
<1> DEFINE c == IF q.is_active THEN decrement_queue_count(d, q.type) ELSE d
           e == destroy_queue_count(d, q)
<1>1. /\ c \in Dqm /\ SameSched(d, c) /\ c.registered = d.registered
      /\ c.total_queue_count = d.total_queue_count
      /\ c.active_queue_count = IF q.is_active THEN Dec(d.active_queue_count)
                                ELSE d.active_queue_count
      /\ c.active_cp_queue_count = IF q.is_active /\ is_cp(q.type)
                                   THEN Dec(d.active_cp_queue_count)
                                   ELSE d.active_cp_queue_count
  <2>1. SameSched(d, d)
    BY DEF SameSched
  <2> QED BY <2>1, CountFacts
<1>2. e = [c EXCEPT !.total_queue_count = Dec(@),
                    !.gws_queue_count = IF q.is_active /\ q.is_gws THEN Dec(@) ELSE @]
  BY DEF destroy_queue_count
<1>3. e \in Dqm
  BY DestroyCountType
<1> HIDE DEF c
<1>4. /\ SameSched(c, e) /\ e.registered = c.registered /\ e.total_queue_count = Dec(c.total_queue_count)
      /\ e.active_queue_count = c.active_queue_count /\ e.active_cp_queue_count = c.active_cp_queue_count
  BY <1>1, <1>2 DEF Dqm, SameSched
<1> QED BY <1>1, <1>3, <1>4 DEF SameSched

LEMMA UpdateCountFacts ==
  ASSUME NEW d \in Dqm, NEW old \in Queue, NEW q \in Queue
  PROVE  LET e == update_queue_count(d, old, q)
         IN  /\ e \in Dqm /\ SameSched(d, e) /\ e.registered = d.registered
             /\ e.total_queue_count = d.total_queue_count
             /\ q.is_active = old.is_active => SameCounts(d, e)
             /\ q.is_active /\ ~old.is_active =>
                  /\ e.active_queue_count = Inc(d.active_queue_count)
                  /\ e.active_cp_queue_count = IF is_cp(q.type) THEN Inc(d.active_cp_queue_count)
                                               ELSE d.active_cp_queue_count
             /\ ~q.is_active /\ old.is_active =>
                  /\ e.active_queue_count = Dec(d.active_queue_count)
                  /\ e.active_cp_queue_count = IF is_cp(q.type) THEN Dec(d.active_cp_queue_count)
                                               ELSE d.active_cp_queue_count
<1> DEFINE c == IF q.is_active /\ ~old.is_active
                THEN increment_queue_count(d, q.type)
                ELSE IF ~q.is_active /\ old.is_active
                THEN decrement_queue_count(d, q.type) ELSE d
           e == update_queue_count(d, old, q)
<1>1. /\ c \in Dqm /\ SameSched(d, c) /\ c.registered = d.registered
      /\ c.total_queue_count = d.total_queue_count
      /\ q.is_active = old.is_active => SameCounts(d, c)
      /\ q.is_active /\ ~old.is_active =>
           /\ c.active_queue_count = Inc(d.active_queue_count)
           /\ c.active_cp_queue_count = IF is_cp(q.type) THEN Inc(d.active_cp_queue_count)
                                        ELSE d.active_cp_queue_count
      /\ ~q.is_active /\ old.is_active =>
           /\ c.active_queue_count = Dec(d.active_queue_count)
           /\ c.active_cp_queue_count = IF is_cp(q.type) THEN Dec(d.active_cp_queue_count)
                                        ELSE d.active_cp_queue_count
  <2>1. SameSched(d, d) /\ SameCounts(d, d)
    BY DEF SameSched, SameCounts
  <2>2. q.is_active \in BOOLEAN /\ old.is_active \in BOOLEAN
    BY DEF Queue
  <2>3. CASE q.is_active /\ ~old.is_active
    BY <2>3, CountFacts
  <2>4. CASE ~q.is_active /\ old.is_active
    BY <2>4, CountFacts
  <2>5. CASE q.is_active = old.is_active
    BY <2>1, <2>5
  <2> QED BY <2>2, <2>3, <2>4, <2>5
<1>2. e = IF ~q.is_active \/ q.gws = q.is_gws THEN c
          ELSE [c EXCEPT !.gws_queue_count = IF q.gws THEN Inc(@) ELSE Dec(@)]
  BY DEF update_queue_count
<1>3. e \in Dqm
  BY UpdateCountType
<1> HIDE DEF c
<1>4. SameSched(c, e) /\ e.registered = c.registered /\ SameCounts(c, e)
  BY <1>1, <1>2 DEF Dqm, SameSched, SameCounts
<1> QED BY <1>1, <1>3, <1>4 DEF SameSched, SameCounts

LEMMA DiscountFacts ==
  ASSUME NEW d \in Dqm, NEW p \in Procs, NEW S, S \subseteq Qids
  PROVE  LET e == Discount(d, p, S)
             cp == {i \in S : is_cp(queue[p][i].type)}
         IN  /\ e \in Dqm /\ SameSched(d, e) /\ e.registered = d.registered
             /\ e.sdma_bitmap = d.sdma_bitmap
             /\ e.gws_queue_count = d.gws_queue_count
             /\ e.total_queue_count = d.total_queue_count
             /\ e.active_queue_count = Sub(d.active_queue_count, Cardinality(S))
             /\ e.active_cp_queue_count = Sub(d.active_cp_queue_count, Cardinality(cp))
<1>1. Discount(d, p, S) \in Dqm
  BY DiscountType
<1> DEFINE n == Cardinality(S)
           k == Cardinality({i \in S : is_cp(queue[p][i].type)})
<1>2. Discount(d, p, S) = [d EXCEPT !.active_queue_count = Sub(d.active_queue_count, n),
                                    !.active_cp_queue_count = Sub(d.active_cp_queue_count, k)]
  BY DEF Discount
<1>3. LET e == Discount(d, p, S)
      IN  /\ e \in Dqm /\ SameSched(d, e) /\ e.registered = d.registered
          /\ e.sdma_bitmap = d.sdma_bitmap
          /\ e.gws_queue_count = d.gws_queue_count
          /\ e.total_queue_count = d.total_queue_count
          /\ e.active_queue_count = Sub(d.active_queue_count, n)
          /\ e.active_cp_queue_count = Sub(d.active_cp_queue_count, k)
  <2> HIDE DEF n, k
  <2> QED BY <1>1, <1>2 DEF Dqm, SameSched
<1> QED BY <1>3
-----------------------------------------------------------------------------
(* What the run list functions do to the scheduler and to the firmware.    *)

LEMMA UnmapFacts ==
  ASSUME NEW d \in Dqm, NEW h \in SUBSET (Procs \X Qids), NEW x \in unmap_queues_cpsch(d, h)
  PROVE  /\ x.d \in Dqm /\ x.h \in SUBSET (Procs \X Qids)
         /\ SameCounts(d, x.d) /\ x.d.registered = d.registered
         /\ x.d.sched_running = d.sched_running
         /\ d.is_hws_hang => x.d.is_hws_hang
<1>1. x \in Results
  BY UnmapType
<1>2. \A ret : Result(d, h, ret).d = d
  BY DEF Result
<1>3. \A o \in UnmapOutcomes : /\ SameCounts(d, unmap_result(d, h, o).d)
                               /\ unmap_result(d, h, o).d.registered = d.registered
                               /\ unmap_result(d, h, o).d.sched_running = d.sched_running
                               /\ d.is_hws_hang => unmap_result(d, h, o).d.is_hws_hang
  <2> SUFFICES ASSUME NEW o \in UnmapOutcomes
               PROVE  /\ SameCounts(d, unmap_result(d, h, o).d)
                      /\ unmap_result(d, h, o).d.registered = d.registered
                      /\ unmap_result(d, h, o).d.sched_running = d.sched_running
                      /\ d.is_hws_hang => unmap_result(d, h, o).d.is_hws_hang
    OBVIOUS
  <2>1. o \in {"ok", "not_sent", "timeout", "unresponsive"}
    BY OpuQueuesAssumption
  <2>2. unmap_result(d, h, o).d \in {d, [d EXCEPT !.active_runlist = FALSE], [d EXCEPT !.is_hws_hang = TRUE]}
    BY <2>1 DEF unmap_result, Result
  <2> QED BY <2>2 DEF Dqm, SameCounts
<1>4. SameCounts(d, d)
  BY DEF SameCounts
<1>5. \/ \E ret : x = Result(d, h, ret)
      \/ \E o \in UnmapOutcomes : x = unmap_result(d, h, o)
  BY DEF unmap_queues_cpsch
<1> QED BY <1>1, <1>2, <1>3, <1>4, <1>5 DEF Results

LEMMA MapFacts ==
  ASSUME NEW d \in Dqm, NEW h \in SUBSET (Procs \X Qids), NEW run \in SUBSET (Procs \X Qids),
         NEW x \in map_queues_cpsch(d, h, run)
  PROVE  /\ x.d \in Dqm /\ x.h \in SUBSET (Procs \X Qids)
         /\ SameCounts(d, x.d) /\ x.d.registered = d.registered
         /\ x.d.sched_running = d.sched_running /\ x.d.is_hws_hang = d.is_hws_hang
<1>1. x \in Results
  BY MapType
<1>2. x.d \in {d, [d EXCEPT !.active_runlist = TRUE]}
  BY DEF map_queues_cpsch, Result
<1>3. SameCounts(d, x.d) /\ x.d.registered = d.registered
      /\ x.d.sched_running = d.sched_running /\ x.d.is_hws_hang = d.is_hws_hang
  BY <1>2 DEF Dqm, SameCounts
<1> QED BY <1>1, <1>3 DEF Results

LEMMA ExecuteFacts ==
  ASSUME NEW d \in Dqm, NEW h \in SUBSET (Procs \X Qids), NEW run \in SUBSET (Procs \X Qids),
         NEW x \in execute_queues_cpsch(d, h, run)
  PROVE  /\ x.d \in Dqm /\ x.h \in SUBSET (Procs \X Qids)
         /\ SameCounts(d, x.d) /\ x.d.registered = d.registered
         /\ x.d.sched_running = d.sched_running
         /\ d.is_hws_hang => x.d.is_hws_hang
<1>1. CASE d.is_hws_hang
  BY <1>1 DEF execute_queues_cpsch, Result, SameCounts
<1>2. CASE ~d.is_hws_hang
  <2>1. PICK u \in unmap_queues_cpsch(d, h) :
           x \in IF u.ret # "0" THEN {u} ELSE map_queues_cpsch(u.d, u.h, run)
    BY <1>2 DEF execute_queues_cpsch
  <2>2. /\ u.d \in Dqm /\ u.h \in SUBSET (Procs \X Qids)
        /\ SameCounts(d, u.d) /\ u.d.registered = d.registered
        /\ u.d.sched_running = d.sched_running
    BY <2>1, UnmapFacts
  <2>3. CASE u.ret # "0"
    BY <1>2, <2>1, <2>2, <2>3
  <2>4. CASE u.ret = "0"
    <3>1. x \in map_queues_cpsch(u.d, u.h, run)
      BY <2>1, <2>4
    <3>2. /\ x.d \in Dqm /\ x.h \in SUBSET (Procs \X Qids)
          /\ SameCounts(u.d, x.d) /\ x.d.registered = u.d.registered
          /\ x.d.sched_running = u.d.sched_running
      <4> DEFINE e == u.d
                 g == u.h
      <4>1. /\ e \in Dqm /\ g \in SUBSET (Procs \X Qids)
            /\ x \in map_queues_cpsch(e, g, run)
        BY <2>2, <3>1
      <4> HIDE DEF e, g
      <4>2. /\ x.d \in Dqm /\ x.h \in SUBSET (Procs \X Qids)
            /\ SameCounts(e, x.d) /\ x.d.registered = e.registered
            /\ x.d.sched_running = e.sched_running
        BY <4>1, MapFacts
      <4> QED BY <4>2 DEF e
    <3>3. SameCounts(d, x.d)
      BY <2>2, <3>2 DEF SameCounts
    <3> QED BY <1>2, <2>2, <3>2, <3>3
  <2> QED BY <2>3, <2>4
<1> QED BY <1>1, <1>2
-----------------------------------------------------------------------------
(* What each step does to the parts of the state that the further          *)
(* invariants speak of.                                                    *)

\* The step leaves the other processes alone.
Only(p) ==
  \A r \in Procs \ {p} : /\ qpd'[r] = qpd[r] /\ queue'[r] = queue[r] /\ op'[r] = op[r]
                         /\ phase'[r] = phase[r] /\ failed'[r] = failed[r]

\* The dqm becomes d, without or with a new run list.
Settled(d) == dqm' = d /\ hw' = hw
Executed(d) ==
  \E x \in execute_queues_cpsch(d, hw, Runnable(d, queue', qpd')) : dqm' = x.d /\ hw' = x.h

\* Queue i of a process with these lists is on the run list.
Runs(n, qp, qs, i) ==
  n > 0 /\ ((i \in qp.queues_list /\ qs[i].is_active) \/ i = qp.diq)

\* The run list depends on Runs only.
LEMMA RunnableEqual ==
  ASSUME NEW d, NEW qs, NEW qp, NEW e, NEW qt, NEW qn,
         \A r \in Procs, i \in Qids :
            Runs(e.registered[r], qn[r], qt[r], i) <=> Runs(d.registered[r], qp[r], qs[r], i)
  PROVE  Runnable(e, qt, qn) = Runnable(d, qs, qp)
<1>1. \A x \in Procs \X Qids : x[1] \in Procs /\ x[2] \in Qids
  OBVIOUS
<1> QED BY <1>1 DEF Runnable, Runs

\* Settled or executed, the counters and the list of processes are those of d.
LEMMA AfterCall ==
  ASSUME IInv, NEW d \in Dqm, Settled(d) \/ Executed(d)
  PROVE  /\ dqm' \in Dqm /\ SameCounts(d, dqm') /\ dqm'.registered = d.registered
         /\ dqm'.sched_running = d.sched_running
<1>1. CASE Settled(d)
  BY <1>1 DEF Settled, SameCounts
<1>2. CASE Executed(d)
  <2> DEFINE run == Runnable(d, queue', qpd')
  <2>1. run \in SUBSET (Procs \X Qids) /\ hw \in SUBSET (Procs \X Qids)
    BY RunnableType DEF IInv, Base, TypeOK
  <2>2. PICK x \in execute_queues_cpsch(d, hw, run) : dqm' = x.d /\ hw' = x.h
    BY <1>2, Zenon DEF Executed
  <2> HIDE DEF run
  <2>3. /\ x.d \in Dqm /\ SameCounts(d, x.d) /\ x.d.registered = d.registered
        /\ x.d.sched_running = d.sched_running
    BY <2>1, ExecuteFacts
  <2> QED BY <2>2, <2>3
<1> QED BY <1>1, <1>2

\* A step that gives process p a new qpd, new queues and a new operation.
LEMMA Change ==
  ASSUME IInv, NEW p \in Procs, NEW qp, NEW qs, NEW o,
         qpd' = [qpd EXCEPT ![p] = qp], queue' = [queue EXCEPT ![p] = qs],
         op' = [op EXCEPT ![p] = o],
         \A r \in Procs \ {p} : phase'[r] = phase[r] /\ failed'[r] = failed[r]
  PROVE  Only(p) /\ qpd'[p] = qp /\ queue'[p] = qs /\ op'[p] = o
BY DEF IInv, Base, TypeOK, Only

LEMMA CreateBeginEffect ==
  ASSUME IInv, NEW p \in Procs, NEW on \in BOOLEAN,
         NEW type \in {COMPUTE, DIQ} \cup SdmaTypes, create_begin(p, type, on)
  PROVE  /\ Only(p) /\ hw' = hw /\ qpd'[p] = qpd[p] /\ phase'[p] = phase[p] /\ failed'[p] = failed[p]
         /\ phase[p] = "live" /\ op[p].at = "none" /\ (failed[p] => CarriesOn)
         /\ \E q \in Qids \ pqm[p].slots :
              /\ op'[p].at = "create" /\ op'[p].qid = q
              /\ queue'[p][q].type = type
              /\ \A i \in Qids \ {q} : queue'[p][i] = queue[p][i]
         /\ \/ NoQueues(p) /\ Settled(register_process(dqm, p))
            \/ (NoQueues(p) => NoMemory) /\ Settled(dqm)
<1> DEFINE qid == Lowest(FreeSlots(p))
           qs  == [queue[p] EXCEPT ![qid] = FreshQueue(type, on)]
           o   == [at |-> "create", qid |-> qid]
<1>1. qid \in Qids \ pqm[p].slots
  <2>1. FreeSlots(p) # {} /\ FreeSlots(p) \subseteq Nat
    BY IdsAreNumbers DEF create_begin, FreeSlots
  <2> QED BY <2>1, LowestIn DEF FreeSlots
<1>2. /\ queue' = [queue EXCEPT ![p] = qs] /\ op' = [op EXCEPT ![p] = o] /\ qpd' = qpd
      /\ hw' = hw /\ phase' = phase /\ failed' = failed
      /\ \/ NoQueues(p) /\ dqm' = register_process(dqm, p)
         \/ (NoQueues(p) => NoMemory) /\ dqm' = dqm
      /\ phase[p] = "live" /\ op[p].at = "none" /\ (failed[p] => CarriesOn)
  BY DEF create_begin, MayCall
<1> HIDE DEF qid
<1>3. qs[qid] = FreshQueue(type, on) /\ \A i \in Qids \ {qid} : qs[i] = queue[p][i]
  BY <1>1, At
<1>4. FreshQueue(type, on).type = type
  BY DEF FreshQueue
<1>5. o.at = "create" /\ o.qid = qid
  OBVIOUS
<1>6. qpd' = [qpd EXCEPT ![p] = qpd[p]]
  BY <1>2, At
<1> HIDE DEF qs, o
<1>7. Only(p) /\ qpd'[p] = qpd[p] /\ queue'[p] = qs /\ op'[p] = o
  BY <1>2, <1>6, Change
<1> QED BY <1>1, <1>2, <1>3, <1>4, <1>5, <1>7 DEF Settled

\* err_create_queue.
Undone(p, d) ==
  /\ Only(p) /\ phase'[p] = phase[p] /\ failed'[p] = failed[p]
  /\ op'[p].at = "none"
  /\ op[p].qid \in Qids
  /\ \A i \in Qids \ {op[p].qid} : queue'[p][i] = queue[p][i]
  /\ qpd'[p].queues_list = qpd[p].queues_list /\ qpd'[p].diq = qpd[p].diq
  /\ qpd'[p].queue_count = qpd[p].queue_count
  /\ Settled(IF NoQueues(p) THEN unregister_process(d, p) ELSE d)

LEMMA UndoEffect ==
  ASSUME IInv, NEW p \in Procs, op[p].at \in {"create", "reserved"}, NEW d, create_undo(p, d),
         NEW qp, qpd' = [qpd EXCEPT ![p] = qp],
         qp.queues_list = qpd[p].queues_list, qp.diq = qpd[p].diq,
         qp.queue_count = qpd[p].queue_count
  PROVE  Undone(p, d) /\ qpd'[p] = qp
<1> DEFINE qs == [queue[p] EXCEPT ![op[p].qid] = NoQueue]
<1>1. op[p].qid \in Qids
  BY At DEF OpSlot
<1>2. /\ queue' = [queue EXCEPT ![p] = qs] /\ op' = [op EXCEPT ![p] = NoOp]
      /\ hw' = hw /\ phase' = phase /\ failed' = failed
      /\ dqm' = IF NoQueues(p) THEN unregister_process(d, p) ELSE d
  BY DEF create_undo
<1>3. \A i \in Qids \ {op[p].qid} : qs[i] = queue[p][i]
  BY <1>1, At
<1> HIDE DEF qs
<1>4. Only(p) /\ qpd'[p] = qp /\ queue'[p] = qs /\ op'[p] = NoOp
  BY <1>2, Change
<1>5. NoOp.at = "none"
  BY DEF NoOp
<1> QED BY <1>1, <1>2, <1>3, <1>4, <1>5 DEF Undone, Settled

LEMMA CreateRefusedEffect ==
  ASSUME IInv, NEW p \in Procs, create_refused(p) \/ create_kernel_queue_refused(p)
  PROVE  op[p].at = "create" /\ Undone(p, dqm) /\ qpd'[p] = qpd[p]
<1>1. op[p].at = "create" /\ create_undo(p, dqm) /\ qpd' = qpd
  BY DEF create_refused, create_kernel_queue_refused
<1>2. qpd' = [qpd EXCEPT ![p] = qpd[p]]
  BY <1>1, At
<1> QED BY <1>1, <1>2, UndoEffect

LEMMA CreateNoMqdEffect ==
  ASSUME IInv, NEW p \in Procs, create_no_mqd(p)
  PROVE  LET q == queue[p][op[p].qid]
         IN  /\ op[p].at = "reserved" /\ NoMemory /\ op[p].qid \in Qids
             /\ Undone(p, deallocate_sdma_queue(dqm, q))
             /\ qpd'[p].doorbell_bitmap = deallocate_doorbell(qpd[p].doorbell_bitmap, q)
<1> DEFINE q  == queue[p][op[p].qid]
           b  == deallocate_doorbell(qpd[p].doorbell_bitmap, q)
           qp == [qpd[p] EXCEPT !.doorbell_bitmap = b]
           d  == deallocate_sdma_queue(dqm, q)
<1>1. /\ op[p].at = "reserved" /\ NoMemory /\ create_undo(p, d)
      /\ qpd' = [qpd EXCEPT ![p] = qp]
  BY DEF create_no_mqd
<1>2. op[p].qid \in Qids
  BY <1>1, At DEF OpSlot
<1> HIDE DEF b, d
<1>3. /\ qp.queues_list = qpd[p].queues_list /\ qp.diq = qpd[p].diq
      /\ qp.queue_count = qpd[p].queue_count /\ qp.doorbell_bitmap = b
  BY At DEF Qpd
<1> HIDE DEF qp
<1>4. Undone(p, d) /\ qpd'[p] = qp
  BY <1>1, <1>3, UndoEffect
<1> QED BY <1>1, <1>2, <1>3, <1>4 DEF b, d

\* A queue has what the reservation gives it: an SDMA queue or a doorbell.
LEMMA CreateReserveEffect ==
  ASSUME IInv, NEW p \in Procs, create_reserve(p)
  PROVE  LET q == op[p].qid
         IN  /\ Only(p) /\ hw' = hw /\ phase'[p] = phase[p] /\ failed'[p] = failed[p]
             /\ op[p].at = "create" /\ q \in Qids
             /\ op'[p].at = "reserved" /\ op'[p].qid = q
             /\ dqm.total_queue_count < MAX_PER_DEVICE
             /\ \A i \in Qids \ {q} : queue'[p][i] = queue[p][i]
             /\ queue'[p][q].type = queue[p][q].type /\ queue[p][q].type # DIQ
             /\ qpd'[p].queues_list = qpd[p].queues_list /\ qpd'[p].diq = qpd[p].diq
             /\ qpd'[p].queue_count = qpd[p].queue_count
             /\ \/ queue[p][q].type \in SdmaTypes /\ qpd'[p].doorbell_bitmap = qpd[p].doorbell_bitmap
                \/ /\ queue[p][q].type = COMPUTE
                   /\ queue'[p][q].doorbell_id \in Doorbells \ qpd[p].doorbell_bitmap
                   /\ qpd'[p].doorbell_bitmap = qpd[p].doorbell_bitmap \cup {queue'[p][q].doorbell_id}
             /\ \E d \in Dqm : /\ SameSched(dqm, d) /\ SameCounts(dqm, d)
                               /\ d.registered = dqm.registered /\ Settled(d)
<1> DEFINE qid == op[p].qid
           q   == queue[p][qid]
           o   == [op[p] EXCEPT !.at = "reserved"]
<1>1. /\ op[p].at = "create" /\ op' = [op EXCEPT ![p] = o]
      /\ hw' = hw /\ phase' = phase /\ failed' = failed
      /\ q.type # DIQ /\ ~Refused(p, q)
  BY DEF create_reserve
<1>2. qid \in Qids /\ q \in Queue /\ dqm \in Dqm
  BY <1>1, At DEF OpSlot, DeviceTyped
<1>3. o.at = "reserved" /\ o.qid = qid
  BY At DEF Op
<1> HIDE DEF o
<1>4. dqm.total_queue_count < MAX_PER_DEVICE
  <2>1. ~(dqm.total_queue_count >= MAX_PER_DEVICE)
    BY <1>1 DEF Refused
  <2>2. dqm.total_queue_count \in Nat /\ MAX_PER_DEVICE \in Nat
    BY <1>2, OpuQueuesAssumption DEF Dqm, Counter
  <2> QED BY <2>1, <2>2
<1>5. CASE q.type \in SdmaTypes
  <2> DEFINE id == Lowest(dqm.sdma_bitmap[q.type])
             nq == [q EXCEPT !.sdma_id = id]
             qs == [queue[p] EXCEPT ![qid] = nq]
             b  == [dqm.sdma_bitmap EXCEPT ![q.type] = dqm.sdma_bitmap[q.type] \ {id}]
             d  == [dqm EXCEPT !.sdma_bitmap = b]
  <2>1. /\ queue' = [queue EXCEPT ![p] = qs] /\ dqm' = d /\ qpd' = qpd
    BY <1>5 DEF create_reserve
  <2>2. dqm' \in Dqm
    BY CreateReserve DEF IInv, Base, TypeOK
  <2> HIDE DEF id
  <2>3. nq.type = q.type
    BY <1>2 DEF Queue
  <2> HIDE DEF nq, b
  <2>4. qs[qid] = nq /\ \A i \in Qids \ {qid} : qs[i] = queue[p][i]
    BY <1>2, At
  <2>5. SameSched(dqm, d) /\ SameCounts(dqm, d) /\ d.registered = dqm.registered
    BY <1>2 DEF Dqm, SameSched, SameCounts
  <2> HIDE DEF qs, d
  <2>6. qpd' = [qpd EXCEPT ![p] = qpd[p]]
    BY <2>1, At
  <2>7. Only(p) /\ qpd'[p] = qpd[p] /\ queue'[p] = qs /\ op'[p] = o
    BY <1>1, <2>1, <2>6, Change
  <2>8. d \in Dqm /\ Settled(d)
    BY <1>1, <2>1, <2>2 DEF Settled
  <2> QED BY <1>1, <1>2, <1>3, <1>4, <1>5, <2>3, <2>4, <2>5, <2>7, <2>8
<1>6. CASE q.type \notin SdmaTypes
  <2> DEFINE id == Lowest(FreeDoorbells(p))
             nq == [q EXCEPT !.doorbell_id = id]
             qs == [queue[p] EXCEPT ![qid] = nq]
             qp == [qpd[p] EXCEPT !.doorbell_bitmap = qpd[p].doorbell_bitmap \cup {id}]
  <2>1. /\ queue' = [queue EXCEPT ![p] = qs] /\ dqm' = dqm /\ qpd' = [qpd EXCEPT ![p] = qp]
    BY <1>6 DEF create_reserve
  <2>2. q.type = COMPUTE
    BY <1>1, <1>2, <1>6 DEF Queue, SdmaTypes
  <2>3. id \in Doorbells \ qpd[p].doorbell_bitmap
    <3>1. FreeDoorbells(p) # {} /\ FreeDoorbells(p) \subseteq Nat
      BY <1>1, <2>2, IdsAreNumbers DEF Refused, FreeDoorbells
    <3> QED BY <3>1, LowestIn DEF FreeDoorbells
  <2> HIDE DEF id
  <2>4. nq.type = q.type /\ nq.doorbell_id = id
    BY <1>2 DEF Queue
  <2> HIDE DEF nq
  <2>5. qs[qid] = nq /\ \A i \in Qids \ {qid} : qs[i] = queue[p][i]
    BY <1>2, At
  <2>6. /\ qp.queues_list = qpd[p].queues_list /\ qp.diq = qpd[p].diq
        /\ qp.queue_count = qpd[p].queue_count
        /\ qp.doorbell_bitmap = qpd[p].doorbell_bitmap \cup {id}
    BY At DEF Qpd
  <2> HIDE DEF qs, qp
  <2>7. Only(p) /\ qpd'[p] = qp /\ queue'[p] = qs /\ op'[p] = o
    BY <1>1, <2>1, Change
  <2>8. SameSched(dqm, dqm) /\ SameCounts(dqm, dqm) /\ Settled(dqm)
    BY <1>1, <2>1 DEF SameSched, SameCounts, Settled
  <2> QED BY <1>1, <1>2, <1>3, <1>4, <2>2, <2>3, <2>4, <2>5, <2>6, <2>7, <2>8
<1> QED BY <1>5, <1>6

LEMMA CreateQueueEffect ==
  ASSUME IInv, NEW p \in Procs, create_queue_cpsch(p)
  PROVE  LET q == op[p].qid
         IN  /\ Only(p) /\ phase'[p] = phase[p] /\ failed'[p] = failed[p]
             /\ op[p].at = "reserved" /\ q \in Qids /\ q \notin qpd[p].queues_list /\ q # qpd[p].diq
             /\ op'[p].at = "none"
             /\ \A i \in Qids \ {q} : queue'[p][i] = queue[p][i]
             /\ queue'[p][q].type = queue[p][q].type
             /\ queue'[p][q].doorbell_id = queue[p][q].doorbell_id
             /\ qpd'[p].queues_list = qpd[p].queues_list \cup {q} /\ qpd'[p].diq = qpd[p].diq
             /\ qpd'[p].queue_count = Inc(qpd[p].queue_count)
             /\ qpd'[p].doorbell_bitmap = qpd[p].doorbell_bitmap
             /\ \E d \in Dqm :
                  /\ SameSched(dqm, d) /\ d.registered = dqm.registered
                  /\ d.total_queue_count = Inc(dqm.total_queue_count)
                  /\ d.active_queue_count = IF queue'[p][q].is_active THEN Inc(dqm.active_queue_count)
                                            ELSE dqm.active_queue_count
                  /\ d.active_cp_queue_count =
                       IF queue'[p][q].is_active /\ is_cp(queue[p][q].type)
                       THEN Inc(dqm.active_cp_queue_count) ELSE dqm.active_cp_queue_count
                  /\ IF queue'[p][q].is_active THEN Executed(d) ELSE Settled(d)
<1> DEFINE qid == op[p].qid
           m   == [queue[p][qid] EXCEPT !.is_evicted = qpd[p].evicted > 0]
           q   == update_mqd(m)
           c   == IF q.is_active THEN increment_queue_count(dqm, q.type) ELSE dqm
           d   == [c EXCEPT !.total_queue_count = Inc(@)]
           qs  == [queue[p] EXCEPT ![qid] = q]
           qp  == [qpd[p] EXCEPT !.queues_list = @ \cup {qid},
                                 !.queue_count = Inc(@)]
<1>1. /\ op[p].at = "reserved"
      /\ queue' = [queue EXCEPT ![p] = qs] /\ qpd' = [qpd EXCEPT ![p] = qp]
      /\ op' = [op EXCEPT ![p] = NoOp] /\ phase' = phase /\ failed' = failed
  BY DEF create_queue_cpsch
<1>0. IF q.is_active
      THEN \E x \in execute_queues_cpsch(d, hw, Runnable(d, queue', qpd')) : dqm' = x.d /\ hw' = x.h
      ELSE dqm' = d /\ hw' = hw
  BY Zenon DEF create_queue_cpsch
<1>2. /\ qid \in Qids /\ qid \notin qpd[p].queues_list /\ qid # qpd[p].diq
      /\ queue[p][qid] \in Queue
  BY <1>1, At DEF OpSlot
<1>3. m \in Queue /\ m.type = queue[p][qid].type /\ m.doorbell_id = queue[p][qid].doorbell_id
  <2> DEFINE e == qpd[p].evicted > 0
  <2>1. e \in BOOLEAN /\ m = [queue[p][qid] EXCEPT !.is_evicted = e]
    OBVIOUS
  <2> HIDE DEF e, m
  <2> QED BY <1>2, <2>1 DEF Queue
<1> HIDE DEF m
<1>4. q \in Queue /\ q.type = queue[p][qid].type /\ q.doorbell_id = queue[p][qid].doorbell_id
  <2>1. q \in Queue
    BY <1>3, UpdateMqdType
  <2>2. q.type = m.type /\ q.doorbell_id = m.doorbell_id
    BY <1>3 DEF Queue, update_mqd
  <2> QED BY <1>3, <2>1, <2>2
<1> HIDE DEF q
<1>5. \A n \in Counter : Inc(n) \in Counter
  BY CounterOps, OpuQueuesAssumption
<1>6. /\ d \in Dqm /\ SameSched(dqm, d) /\ d.registered = dqm.registered
      /\ d.total_queue_count = Inc(dqm.total_queue_count)
      /\ d.active_queue_count = IF q.is_active THEN Inc(dqm.active_queue_count)
                                ELSE dqm.active_queue_count
      /\ d.active_cp_queue_count = IF q.is_active /\ is_cp(q.type)
                                   THEN Inc(dqm.active_cp_queue_count) ELSE dqm.active_cp_queue_count
  <2>1. /\ c \in Dqm /\ SameSched(dqm, c) /\ c.registered = dqm.registered
        /\ c.total_queue_count = dqm.total_queue_count
        /\ c.active_queue_count = IF q.is_active THEN Inc(dqm.active_queue_count)
                                  ELSE dqm.active_queue_count
        /\ c.active_cp_queue_count = IF q.is_active /\ is_cp(q.type)
                                     THEN Inc(dqm.active_cp_queue_count) ELSE dqm.active_cp_queue_count
    <3>1. dqm \in Dqm /\ SameSched(dqm, dqm)
      BY DEF IInv, Base, TypeOK, SameSched
    <3> QED BY <3>1, CountFacts
  <2>2. d = [c EXCEPT !.total_queue_count = Inc(c.total_queue_count)] /\ Inc(c.total_queue_count) \in Counter
    BY <1>5, <2>1 DEF Dqm
  <2> HIDE DEF c, d
  <2> QED BY <2>1, <2>2, TotalFacts DEF SameSched
<1>7. qs[qid] = q /\ \A i \in Qids \ {qid} : qs[i] = queue[p][i]
  BY <1>2, At
<1>8. /\ qp.queues_list = qpd[p].queues_list \cup {qid} /\ qp.diq = qpd[p].diq
      /\ qp.queue_count = Inc(qpd[p].queue_count) /\ qp.doorbell_bitmap = qpd[p].doorbell_bitmap
  BY At DEF Qpd
<1>9. IF q.is_active THEN Executed(d) ELSE Settled(d)
  BY <1>0, Zenon DEF Executed, Settled
<1>10. NoOp.at = "none"
  BY DEF NoOp
<1> HIDE DEF qid, c, d, qs, qp
<1>11. Only(p) /\ qpd'[p] = qp /\ queue'[p] = qs /\ op'[p] = NoOp
  BY <1>1, Change
<1> QED BY <1>1, <1>2, <1>4, <1>6, <1>7, <1>8, <1>9, <1>10, <1>11 DEF qid

LEMMA CreateKernelQueueEffect ==
  ASSUME IInv, NEW p \in Procs, create_kernel_queue_cpsch(p)
  PROVE  LET q == op[p].qid
         IN  /\ Only(p) /\ phase'[p] = phase[p] /\ failed'[p] = failed[p] /\ queue'[p] = queue[p]
             /\ op[p].at = "create" /\ q \in Qids /\ q \notin qpd[p].queues_list
             /\ queue[p][q].type = DIQ
             /\ op'[p].at = "none"
             /\ dqm.total_queue_count < MAX_PER_DEVICE
             /\ qpd'[p].queues_list = qpd[p].queues_list /\ qpd'[p].diq = q
             /\ qpd'[p].queue_count = qpd[p].queue_count
             /\ qpd'[p].doorbell_bitmap = qpd[p].doorbell_bitmap
             /\ \E d \in Dqm :
                  /\ SameSched(dqm, d) /\ d.registered = dqm.registered
                  /\ d.total_queue_count = Inc(dqm.total_queue_count)
                  /\ d.active_queue_count = Inc(dqm.active_queue_count)
                  /\ d.active_cp_queue_count = Inc(dqm.active_cp_queue_count)
                  /\ Executed(d)
<1> DEFINE qid == op[p].qid
           c   == increment_queue_count(dqm, DIQ)
           d   == [c EXCEPT !.total_queue_count = Inc(@)]
           qp  == [qpd[p] EXCEPT !.diq = qid, !.is_debug = TRUE]
<1>1. /\ op[p].at = "create" /\ queue[p][qid].type = DIQ
      /\ dqm.total_queue_count < MAX_PER_DEVICE
      /\ queue' = queue /\ qpd' = [qpd EXCEPT ![p] = qp]
      /\ op' = [op EXCEPT ![p] = NoOp] /\ phase' = phase /\ failed' = failed
      /\ \E x \in execute_queues_cpsch(d, hw, Runnable(d, queue, qpd')) :
            dqm' = x.d /\ hw' = x.h
  BY DEF create_kernel_queue_cpsch
<1>2. qid \in Qids /\ qid \notin qpd[p].queues_list
  BY <1>1, At DEF OpSlot
<1>3. /\ d \in Dqm /\ SameSched(dqm, d) /\ d.registered = dqm.registered
      /\ d.total_queue_count = Inc(dqm.total_queue_count)
      /\ d.active_queue_count = Inc(dqm.active_queue_count)
      /\ d.active_cp_queue_count = Inc(dqm.active_cp_queue_count)
  <2>1. /\ c \in Dqm /\ SameSched(dqm, c) /\ c.registered = dqm.registered
        /\ c.total_queue_count = dqm.total_queue_count
        /\ c.active_queue_count = Inc(dqm.active_queue_count)
        /\ c.active_cp_queue_count = Inc(dqm.active_cp_queue_count)
    <3>1. dqm \in Dqm /\ is_cp(DIQ)
      BY DEF IInv, Base, TypeOK, is_cp
    <3> QED BY <3>1, CountFacts
  <2>2. d = [c EXCEPT !.total_queue_count = Inc(c.total_queue_count)] /\ Inc(c.total_queue_count) \in Counter
    BY <2>1, CounterOps, OpuQueuesAssumption DEF Dqm
  <2> HIDE DEF c, d
  <2> QED BY <2>1, <2>2, TotalFacts DEF SameSched
<1>4. /\ qp.queues_list = qpd[p].queues_list /\ qp.diq = qid
      /\ qp.queue_count = qpd[p].queue_count /\ qp.doorbell_bitmap = qpd[p].doorbell_bitmap
  BY At DEF Qpd
<1>5. Executed(d)
  BY <1>1, Zenon DEF Executed
<1>6. NoOp.at = "none"
  BY DEF NoOp
<1>7. queue' = [queue EXCEPT ![p] = queue[p]]
  BY <1>1, At
<1> HIDE DEF qid, c, d, qp
<1>8. Only(p) /\ qpd'[p] = qp /\ queue'[p] = queue[p] /\ op'[p] = NoOp
  <2>1. /\ qpd' = [qpd EXCEPT ![p] = qp] /\ op' = [op EXCEPT ![p] = NoOp]
        /\ \A r \in Procs \ {p} : phase'[r] = phase[r] /\ failed'[r] = failed[r]
    BY <1>1
  <2> QED BY <1>7, <2>1 DEF IInv, Base, TypeOK, Only
<1> QED BY <1>1, <1>2, <1>3, <1>4, <1>5, <1>6, <1>8 DEF qid

\* The execution of a run list may fail with something other than -ETIME.
MayFail(d) ==
  \E run : \E x \in execute_queues_cpsch(d, hw, run) : x.ret \notin {"0", "ETIME"}

\* destroy_queue_cpsch, and what pqm_destroy_queue makes of its result.
LEMMA DestroyQueueEffect ==
  ASSUME IInv, NEW p \in Procs, NEW qid \in Qids, destroy_queue_cpsch(p, qid)
  PROVE  LET q == queue[p][qid]
         IN  /\ Only(p) /\ phase'[p] = phase[p] /\ queue'[p] = queue[p]
             /\ phase[p] = "live" /\ op[p].at = "none" /\ (failed[p] => CarriesOn)
             /\ (CarriesOn \/ qid \in qpd[p].queues_list)
             /\ (failed[p] \/ qid \in qpd[p].queues_list)
             /\ qpd'[p].queues_list = qpd[p].queues_list \ {qid} /\ qpd'[p].diq = qpd[p].diq
             /\ qpd'[p].queue_count = Dec(qpd[p].queue_count)
             /\ qpd'[p].doorbell_bitmap = deallocate_doorbell(qpd[p].doorbell_bitmap, q)
             /\ \E d \in Dqm :
                  /\ SameSched(dqm, d) /\ d.registered = dqm.registered
                  /\ d.total_queue_count = Dec(dqm.total_queue_count)
                  /\ d.active_queue_count = IF q.is_active THEN Dec(dqm.active_queue_count)
                                            ELSE dqm.active_queue_count
                  /\ d.active_cp_queue_count = IF q.is_active /\ is_cp(q.type)
                                               THEN Dec(dqm.active_cp_queue_count)
                                               ELSE dqm.active_cp_queue_count
                  /\ IF q.is_active THEN Executed(d) ELSE Settled(d)
                  /\ \/ op'[p].at = "destroyed" /\ op'[p].qid = qid /\ failed'[p] = failed[p]
                     \/ op'[p].at = "none" /\ failed'[p] = TRUE /\ q.is_active /\ MayFail(d)
<1> DEFINE q  == queue[p][qid]
           c  == deallocate_sdma_queue(dqm, q)
           d  == destroy_queue_count(c, q)
           qq == [qpd[p] EXCEPT !.queues_list = @ \ {qid},
                    !.queue_count = Dec(@),
                    !.doorbell_bitmap = deallocate_doorbell(@, q)]
           qn == [qpd EXCEPT ![p].queues_list = @ \ {qid},
                    ![p].queue_count = Dec(@),
                    ![p].doorbell_bitmap = deallocate_doorbell(@, q)]
<1>1. /\ (CarriesOn \/ qid \in qpd[p].queues_list)
      /\ (failed[p] \/ qid \in qpd[p].queues_list)
      /\ phase[p] = "live" /\ op[p].at = "none" /\ (failed[p] => CarriesOn)
      /\ qid \in pqm[p].nodes /\ qid # qpd[p].diq /\ queue' = queue /\ phase' = phase
  <2>1. MayCall(p) /\ qid \in UserNodes(p) /\ queue' = queue /\ phase' = phase
    BY DEF destroy_queue_cpsch
  <2> QED BY <2>1, CalledIsListed DEF MayCall, UserNodes
<1>2. PICK x \in IF q.is_active
                 THEN execute_queues_cpsch(d, hw, Runnable(d, queue, qn))
                 ELSE {Result(d, hw, "0")} :
         /\ dqm' = x.d /\ hw' = x.h
         /\ qpd' = [qn EXCEPT ![p].reset_wavefronts = @ \/ x.ret = "ETIME"]
         /\ IF x.ret \in {"0", "ETIME"}
            THEN /\ op' = [op EXCEPT ![p] = [at |-> "destroyed", qid |-> qid]]
                 /\ failed' = failed
            ELSE failed' = [failed EXCEPT ![p] = TRUE] /\ op' = op
  BY DEF destroy_queue_cpsch
<1>3. q \in Queue /\ (q.type \in SdmaTypes => q.sdma_id \in SdmaIds)
  BY <1>1, At DEF HasSdmaId
<1>4. /\ d \in Dqm /\ SameSched(dqm, d) /\ d.registered = dqm.registered
      /\ d.total_queue_count = Dec(dqm.total_queue_count)
      /\ d.active_queue_count = IF q.is_active THEN Dec(dqm.active_queue_count)
                                ELSE dqm.active_queue_count
      /\ d.active_cp_queue_count = IF q.is_active /\ is_cp(q.type)
                                   THEN Dec(dqm.active_cp_queue_count)
                                   ELSE dqm.active_cp_queue_count
  <2>1. c \in Dqm /\ SameSched(dqm, c) /\ SameCounts(dqm, c) /\ c.registered = dqm.registered
    BY <1>3, DeallocateFacts DEF IInv, Base, TypeOK
  <2>2. d = destroy_queue_count(c, q)
    OBVIOUS
  <2> HIDE DEF c, d, q
  <2> QED BY <1>3, <2>1, <2>2, DestroyCountFacts DEF SameSched, SameCounts
<1> DEFINE qp == [qq EXCEPT !.reset_wavefronts = @ \/ x.ret = "ETIME"]
<1>5. qpd' = [qpd EXCEPT ![p] = qp] /\ qn[p] = qq /\ \A r \in Procs \ {p} : qn[r] = qpd[r]
  <2>1. qn = [qpd EXCEPT ![p] = qq]
    OBVIOUS
  <2> HIDE DEF qq, qn
  <2>2. /\ qn[p] = qq /\ [qpd EXCEPT ![p] = qp] = [qn EXCEPT ![p] = qp]
        /\ \A r \in Procs \ {p} : qn[r] = qpd[r]
    BY <2>1 DEF IInv, Base, TypeOK
  <2> QED BY <1>2, <2>2
<1> HIDE DEF q, c, d, qn
<1>6. /\ qq.queues_list = qpd[p].queues_list \ {qid} /\ qq.diq = qpd[p].diq
      /\ qq.queue_count = Dec(qpd[p].queue_count)
      /\ qq.doorbell_bitmap = deallocate_doorbell(qpd[p].doorbell_bitmap, q)
      /\ qq \in Qpd
  <2>1. \A b \in SUBSET Doorbells : deallocate_doorbell(b, q) \in SUBSET Doorbells
    BY DEF deallocate_doorbell
  <2>2. \A n \in Counter : Dec(n) \in Counter
    BY CounterOps, OpuQueuesAssumption
  <2> QED BY <2>1, <2>2, At DEF Qpd
<1> HIDE DEF qq
<1>7. /\ qp.queues_list = qpd[p].queues_list \ {qid} /\ qp.diq = qpd[p].diq
      /\ qp.queue_count = Dec(qpd[p].queue_count)
      /\ qp.doorbell_bitmap = deallocate_doorbell(qpd[p].doorbell_bitmap, q)
  BY <1>6 DEF Qpd
<1> HIDE DEF qp
<1>8. queue' = [queue EXCEPT ![p] = queue[p]]
  BY <1>1, At
<1>9. PICK o : /\ op' = [op EXCEPT ![p] = o]
               /\ \/ /\ o = [at |-> "destroyed", qid |-> qid] /\ x.ret \in {"0", "ETIME"}
                     /\ failed' = failed
                  \/ /\ o = op[p] /\ x.ret \notin {"0", "ETIME"}
                     /\ failed' = [failed EXCEPT ![p] = TRUE]
  BY <1>2, At
<1>10. /\ \A r \in Procs \ {p} : failed'[r] = failed[r]
       /\ \/ failed' = failed /\ x.ret \in {"0", "ETIME"}
          \/ failed'[p] = TRUE /\ x.ret \notin {"0", "ETIME"}
  BY <1>9 DEF IInv, Base, TypeOK
<1>11. Only(p) /\ qpd'[p] = qp /\ queue'[p] = queue[p] /\ op'[p] = o
  <2>1. \A r \in Procs \ {p} : phase'[r] = phase[r] /\ failed'[r] = failed[r]
    BY <1>1, <1>10
  <2>2. qpd' = [qpd EXCEPT ![p] = qp] /\ op' = [op EXCEPT ![p] = o]
    BY <1>5, <1>9
  <2> QED BY <1>8, <2>1, <2>2 DEF IInv, Base, TypeOK, Only
<1>12. \/ Executed(d) /\ q.is_active
       \/ Settled(d) /\ ~q.is_active /\ x.ret = "0"
  <2>1. CASE q.is_active
    <3>1. Runnable(d, queue', qpd') = Runnable(d, queue, qn)
      <4>1. \A r \in Procs : qpd'[r].queues_list = qn[r].queues_list /\ qpd'[r].diq = qn[r].diq
        BY <1>5, <1>6, <1>7, <1>11 DEF Only
      <4>2. \A r \in Procs, i \in Qids : Runs(d.registered[r], qpd'[r], queue'[r], i)
                                            <=> Runs(d.registered[r], qn[r], queue[r], i)
        BY <1>1, <4>1 DEF Runs
      <4> HIDE DEF qn
      <4> QED BY <4>2, RunnableEqual
    <3>2. x \in execute_queues_cpsch(d, hw, Runnable(d, queue, qn)) /\ dqm' = x.d /\ hw' = x.h
      BY <1>2, <2>1
    <3> QED BY <2>1, <3>1, <3>2 DEF Executed
  <2>2. CASE ~q.is_active
    <3>1. x = Result(d, hw, "0") /\ dqm' = x.d /\ hw' = x.h
      BY <1>2, <2>2
    <3> QED BY <2>2, <3>1 DEF Settled, Result
  <2> QED BY <2>1, <2>2
<1>13. \/ o.at = "destroyed" /\ o.qid = qid /\ failed'[p] = failed[p]
       \/ o.at = "none" /\ failed'[p] = TRUE /\ x.ret \notin {"0", "ETIME"}
  BY <1>1, <1>9, <1>10
<1>14. x.ret \notin {"0", "ETIME"} => MayFail(d) /\ q.is_active
  BY <1>2, <1>12 DEF MayFail
<1> QED BY <1>1, <1>4, <1>7, <1>11, <1>12, <1>13, <1>14 DEF q

LEMMA DestroyKernelQueueEffect ==
  ASSUME IInv, NEW p \in Procs, destroy_kernel_queue_cpsch(p)
  PROVE  /\ Only(p) /\ phase'[p] = phase[p] /\ failed'[p] = failed[p] /\ queue'[p] = queue[p]
         /\ phase[p] = "live" /\ op[p].at = "none" /\ (failed[p] => CarriesOn)
         /\ qpd[p].diq \in Qids
         /\ op'[p].at = "destroyed" /\ op'[p].qid = qpd[p].diq
         /\ qpd'[p].queues_list = qpd[p].queues_list /\ qpd'[p].diq = NONE
         /\ qpd'[p].queue_count = qpd[p].queue_count
         /\ qpd'[p].doorbell_bitmap = qpd[p].doorbell_bitmap
         /\ \E d \in Dqm :
              /\ SameSched(dqm, d) /\ d.registered = dqm.registered
              /\ d.total_queue_count = Dec(dqm.total_queue_count)
              /\ d.active_queue_count = Dec(dqm.active_queue_count)
              /\ d.active_cp_queue_count = Dec(dqm.active_cp_queue_count)
              /\ Executed(d)
<1> DEFINE c  == decrement_queue_count(dqm, DIQ)
           d  == [c EXCEPT !.total_queue_count = Dec(@)]
           qp == [qpd[p] EXCEPT !.diq = NONE, !.is_debug = FALSE]
           o  == [at |-> "destroyed", qid |-> qpd[p].diq]
<1>1. /\ qpd[p].diq # NONE
      /\ phase[p] = "live" /\ op[p].at = "none" /\ (failed[p] => CarriesOn)
      /\ qpd' = [qpd EXCEPT ![p] = qp] /\ op' = [op EXCEPT ![p] = o]
      /\ queue' = queue /\ phase' = phase /\ failed' = failed
      /\ \E x \in execute_queues_cpsch(d, hw, Runnable(d, queue, qpd')) :
            dqm' = x.d /\ hw' = x.h
  BY DEF destroy_kernel_queue_cpsch, MayCall
<1>2. /\ d \in Dqm /\ SameSched(dqm, d) /\ d.registered = dqm.registered
      /\ d.total_queue_count = Dec(dqm.total_queue_count)
      /\ d.active_queue_count = Dec(dqm.active_queue_count)
      /\ d.active_cp_queue_count = Dec(dqm.active_cp_queue_count)
  <2>1. /\ c \in Dqm /\ SameSched(dqm, c) /\ c.registered = dqm.registered
        /\ c.total_queue_count = dqm.total_queue_count
        /\ c.active_queue_count = Dec(dqm.active_queue_count)
        /\ c.active_cp_queue_count = Dec(dqm.active_cp_queue_count)
    <3>1. dqm \in Dqm /\ is_cp(DIQ)
      BY DEF IInv, Base, TypeOK, is_cp
    <3> QED BY <3>1, CountFacts
  <2>2. d = [c EXCEPT !.total_queue_count = Dec(c.total_queue_count)] /\ Dec(c.total_queue_count) \in Counter
    BY <2>1, CounterOps, OpuQueuesAssumption DEF Dqm
  <2> HIDE DEF c, d
  <2> QED BY <2>1, <2>2, TotalFacts DEF SameSched
<1>3. qpd[p].diq \in Qids
  BY <1>1, At DEF Qpd
<1>4. /\ qp.queues_list = qpd[p].queues_list /\ qp.diq = NONE
      /\ qp.queue_count = qpd[p].queue_count /\ qp.doorbell_bitmap = qpd[p].doorbell_bitmap
  BY At DEF Qpd
<1>5. o.at = "destroyed" /\ o.qid = qpd[p].diq
  OBVIOUS
<1>6. Executed(d)
  BY <1>1, Zenon DEF Executed
<1>7. queue' = [queue EXCEPT ![p] = queue[p]]
  BY <1>1, At
<1> HIDE DEF c, d, qp, o
<1>8. Only(p) /\ qpd'[p] = qp /\ queue'[p] = queue[p] /\ op'[p] = o
  <2>1. /\ qpd' = [qpd EXCEPT ![p] = qp] /\ op' = [op EXCEPT ![p] = o]
        /\ \A r \in Procs \ {p} : phase'[r] = phase[r] /\ failed'[r] = failed[r]
    BY <1>1
  <2> QED BY <1>7, <2>1 DEF IInv, Base, TypeOK, Only
<1> QED BY <1>1, <1>2, <1>3, <1>4, <1>5, <1>6, <1>8

LEMMA DestroyFinishEffect ==
  ASSUME IInv, NEW p \in Procs, destroy_finish(p)
  PROVE  /\ op[p].at = "destroyed" /\ Undone(p, dqm)
         /\ qpd'[p].doorbell_bitmap = qpd[p].doorbell_bitmap
<1> DEFINE qid == op[p].qid
           qp  == [qpd[p] EXCEPT !.num_gws = FALSE]
           qs  == [queue[p] EXCEPT ![qid] = NoQueue]
<1>1. /\ op[p].at = "destroyed" /\ queue' = [queue EXCEPT ![p] = qs]
      /\ qpd' = [qpd EXCEPT ![p] = qp] \/ qpd' = qpd
      /\ op' = [op EXCEPT ![p] = NoOp] /\ hw' = hw /\ phase' = phase /\ failed' = failed
      /\ dqm' = IF NoQueues(p) THEN unregister_process(dqm, p) ELSE dqm
  BY DEF destroy_finish
<1>2. qid \in Qids
  BY <1>1, At DEF OpSlot
<1> HIDE DEF qid
<1>3. /\ qp.queues_list = qpd[p].queues_list /\ qp.diq = qpd[p].diq
      /\ qp.queue_count = qpd[p].queue_count /\ qp.doorbell_bitmap = qpd[p].doorbell_bitmap
  BY At DEF Qpd
<1>4. \A i \in Qids \ {qid} : qs[i] = queue[p][i]
  BY <1>2, At
<1> HIDE DEF qp, qs
<1>5. PICK nqp :
         /\ qpd' = [qpd EXCEPT ![p] = nqp]
         /\ nqp.queues_list = qpd[p].queues_list /\ nqp.diq = qpd[p].diq
         /\ nqp.queue_count = qpd[p].queue_count /\ nqp.doorbell_bitmap = qpd[p].doorbell_bitmap
  BY <1>1, <1>3, At
<1>6. Only(p) /\ qpd'[p] = nqp /\ queue'[p] = qs /\ op'[p] = NoOp
  BY <1>1, <1>5 DEF IInv, Base, TypeOK, Only
<1>7. NoOp.at = "none"
  BY DEF NoOp
<1> QED BY <1>1, <1>2, <1>4, <1>5, <1>6, <1>7 DEF Undone, Settled, qid

\* pqm_update_queue and pqm_set_gws.
LEMMA UpdateBeginEffect ==
  ASSUME IInv, NEW p \in Procs, NEW qid \in Qids, NEW b \in BOOLEAN,
         pqm_update_queue(p, qid, b) \/ pqm_set_gws(p, qid, b)
  PROVE  /\ Only(p) /\ phase'[p] = phase[p] /\ failed'[p] = failed[p]
         /\ phase[p] = "live" /\ op[p].at = "none" /\ (failed[p] => CarriesOn)
         /\ (CarriesOn \/ qid \in qpd[p].queues_list)
         /\ (failed[p] \/ qid \in qpd[p].queues_list)
         /\ op'[p].at = "update" /\ op'[p].qid = qid
         /\ \A i \in Qids : /\ queue'[p][i].type = queue[p][i].type
                            /\ queue'[p][i].doorbell_id = queue[p][i].doorbell_id
                            /\ queue'[p][i].is_active = queue[p][i].is_active
         /\ qpd'[p].queues_list = qpd[p].queues_list /\ qpd'[p].diq = qpd[p].diq
         /\ qpd'[p].queue_count = qpd[p].queue_count
         /\ qpd'[p].doorbell_bitmap = qpd[p].doorbell_bitmap
         /\ Settled(dqm)
<1> DEFINE o == [at |-> "update", qid |-> qid]
<1>1. /\ phase[p] = "live" /\ op[p].at = "none" /\ (failed[p] => CarriesOn)
      /\ (CarriesOn \/ qid \in qpd[p].queues_list)
      /\ (failed[p] \/ qid \in qpd[p].queues_list)
      /\ op' = [op EXCEPT ![p] = o]
      /\ dqm' = dqm /\ hw' = hw /\ phase' = phase /\ failed' = failed
  <2>1. MayCall(p) /\ qid \in UserNodes(p)
    BY DEF pqm_update_queue, pqm_set_gws
  <2>2. /\ op' = [op EXCEPT ![p] = o]
        /\ dqm' = dqm /\ hw' = hw /\ phase' = phase /\ failed' = failed
    BY DEF pqm_update_queue, pqm_set_gws
  <2> QED BY <2>1, <2>2, CalledIsListed DEF MayCall
<1>2. PICK q : /\ queue' = [queue EXCEPT ![p] = [queue[p] EXCEPT ![qid] = q]]
               /\ q.type = queue[p][qid].type /\ q.doorbell_id = queue[p][qid].doorbell_id
               /\ q.is_active = queue[p][qid].is_active
  <2> DEFINE q1 == [queue[p][qid] EXCEPT !.on = b]
             q2 == [queue[p][qid] EXCEPT !.gws = b]
  <2>1. \/ queue' = [queue EXCEPT ![p] = [queue[p] EXCEPT ![qid] = q1]]
        \/ queue' = [queue EXCEPT ![p] = [queue[p] EXCEPT ![qid] = q2]]
    BY DEF pqm_update_queue, pqm_set_gws
  <2>2. queue[p][qid] \in Queue
    BY At
  <2>3. \A q \in {q1, q2} : /\ q.type = queue[p][qid].type /\ q.doorbell_id = queue[p][qid].doorbell_id
                            /\ q.is_active = queue[p][qid].is_active
    BY <2>2 DEF Queue
  <2> HIDE DEF q1, q2
  <2> QED BY <2>1, <2>3
<1>3. PICK qp : /\ qpd' = [qpd EXCEPT ![p] = qp]
                /\ qp.queues_list = qpd[p].queues_list /\ qp.diq = qpd[p].diq
                /\ qp.queue_count = qpd[p].queue_count /\ qp.doorbell_bitmap = qpd[p].doorbell_bitmap
  <2> DEFINE qp == [qpd[p] EXCEPT !.num_gws = b]
  <2>1. qpd' = [qpd EXCEPT ![p] = qp] \/ qpd' = qpd
    BY DEF pqm_update_queue, pqm_set_gws
  <2>2. /\ qp.queues_list = qpd[p].queues_list /\ qp.diq = qpd[p].diq
        /\ qp.queue_count = qpd[p].queue_count /\ qp.doorbell_bitmap = qpd[p].doorbell_bitmap
    BY At DEF Qpd
  <2> HIDE DEF qp
  <2> QED BY <2>1, <2>2, At
<1> DEFINE qs == [queue[p] EXCEPT ![qid] = q]
<1>4. qs[qid] = q /\ \A i \in Qids \ {qid} : qs[i] = queue[p][i]
  BY At
<1>5. o.at = "update" /\ o.qid = qid
  OBVIOUS
<1> HIDE DEF qs, o
<1>6. queue' = [queue EXCEPT ![p] = qs]
  BY <1>2 DEF qs
<1>7. Only(p) /\ qpd'[p] = qp /\ queue'[p] = qs /\ op'[p] = o
  BY <1>1, <1>3, <1>6 DEF IInv, Base, TypeOK, Only
<1>8. \A i \in Qids : /\ qs[i].type = queue[p][i].type
                      /\ qs[i].doorbell_id = queue[p][i].doorbell_id
                      /\ qs[i].is_active = queue[p][i].is_active
  BY <1>2, <1>4
<1> QED BY <1>1, <1>3, <1>5, <1>7, <1>8 DEF Settled

\* What update_queue does to the counters when queue old becomes new, and the run
\* list it then sends.
Recounted(e, d, old, new) ==
  /\ SameSched(e, d) /\ d.registered = e.registered
  /\ d.total_queue_count = e.total_queue_count
  /\ new.is_active = old.is_active => SameCounts(e, d)
  /\ new.is_active /\ ~old.is_active =>
       /\ d.active_queue_count = Inc(e.active_queue_count)
       /\ d.active_cp_queue_count = IF is_cp(new.type) THEN Inc(e.active_cp_queue_count)
                                    ELSE e.active_cp_queue_count
  /\ ~new.is_active /\ old.is_active =>
       /\ d.active_queue_count = Dec(e.active_queue_count)
       /\ d.active_cp_queue_count = IF is_cp(new.type) THEN Dec(e.active_cp_queue_count)
                                    ELSE e.active_cp_queue_count
Mapped(d, h) ==
  \E x \in map_queues_cpsch(d, h, Runnable(d, queue', qpd')) : dqm' = x.d /\ hw' = x.h

LEMMA UpdateQueueEffect ==
  ASSUME IInv, NEW p \in Procs, update_queue(p)
  PROVE  LET qid == op[p].qid
             old == queue[p][qid]
             new == queue'[p][qid]
         IN  /\ Only(p) /\ phase'[p] = phase[p] /\ failed'[p] = failed[p]
             /\ op[p].at = "update" /\ qid \in Qids /\ op'[p].at = "none"
             /\ qpd'[p] = qpd[p]
             /\ \A i \in Qids \ {qid} : queue'[p][i] = queue[p][i]
             /\ new.type = old.type /\ new.doorbell_id = old.doorbell_id
             /\ \E u \in unmap_queues_cpsch(dqm, hw) :
                  /\ u.d \in Dqm /\ SameCounts(dqm, u.d) /\ u.d.registered = dqm.registered
                  /\ \/ u.ret # "0" /\ dqm' = u.d /\ hw' = u.h /\ new = old
                     \/ u.ret = "0" /\ \E d \in Dqm : Recounted(u.d, d, old, new) /\ Mapped(d, u.h)
<1> DEFINE qid == op[p].qid
           old == queue[p][qid]
           q   == update_mqd(old)
           nq  == [q EXCEPT !.is_gws = q.gws]
           d(u) == update_queue_count(u.d, old, q)
           qs  == [queue[p] EXCEPT ![qid] = nq]
<1>1. /\ op[p].at = "update" /\ op' = [op EXCEPT ![p] = NoOp]
      /\ qpd' = qpd /\ phase' = phase /\ failed' = failed
  BY DEF update_queue
<1>2. PICK u \in unmap_queues_cpsch(dqm, hw) :
         \/ /\ u.ret # "0"
            /\ dqm' = u.d /\ hw' = u.h /\ queue' = queue
         \/ /\ u.ret = "0"
            /\ queue' = [queue EXCEPT ![p] = qs]
            /\ \E x \in map_queues_cpsch(d(u), u.h, Runnable(d(u), queue', qpd)) :
                  dqm' = x.d /\ hw' = x.h
  BY DEF update_queue
<1>3. qid \in Qids /\ old \in Queue
  BY <1>1, At DEF OpSlot
<1> HIDE DEF old
<1>4. q \in Queue /\ q.type = old.type /\ q.doorbell_id = old.doorbell_id
  <2>1. q \in Queue
    BY <1>3, UpdateMqdType
  <2> QED BY <1>3, <2>1 DEF Queue, update_mqd
<1> HIDE DEF q
<1>5. nq.type = old.type /\ nq.doorbell_id = old.doorbell_id /\ nq.is_active = q.is_active
  BY <1>4 DEF Queue
<1> HIDE DEF nq
<1>6. qs[qid] = nq /\ \A i \in Qids \ {qid} : qs[i] = queue[p][i]
  BY <1>3, At
<1> HIDE DEF qid, d, qs
<1>7. u.d \in Dqm /\ SameCounts(dqm, u.d) /\ u.d.registered = dqm.registered
  <2>1. dqm \in Dqm /\ hw \in SUBSET (Procs \X Qids)
    BY DEF IInv, Base, TypeOK
  <2> QED BY <1>2, <2>1, UnmapFacts
<1>8. NoOp.at = "none"
  BY DEF NoOp
<1>9. qpd' = [qpd EXCEPT ![p] = qpd[p]]
  BY <1>1, At
<1>10. CASE u.ret # "0"
  <2>1. dqm' = u.d /\ hw' = u.h /\ queue' = queue
    BY <1>2, <1>10
  <2>2. queue' = [queue EXCEPT ![p] = queue[p]]
    BY <2>1, At
  <2>3. Only(p) /\ qpd'[p] = qpd[p] /\ queue'[p] = queue[p] /\ op'[p] = NoOp
    BY <1>1, <1>9, <2>2 DEF IInv, Base, TypeOK, Only
  <2> QED BY <1>1, <1>2, <1>3, <1>7, <1>8, <1>10, <2>1, <2>3 DEF qid, old
<1>11. CASE u.ret = "0"
  <2>1. queue' = [queue EXCEPT ![p] = qs]
    BY <1>2, <1>11
  <2>2. Only(p) /\ qpd'[p] = qpd[p] /\ queue'[p] = qs /\ op'[p] = NoOp
    BY <1>1, <1>9, <2>1 DEF IInv, Base, TypeOK, Only
  <2>3. Mapped(d(u), u.h)
    <3>1. \E x \in map_queues_cpsch(d(u), u.h, Runnable(d(u), queue', qpd)) : dqm' = x.d /\ hw' = x.h
      BY <1>2, <1>11
    <3> QED BY <1>1, <3>1, Zenon DEF Mapped
  <2>4. d(u) \in Dqm /\ Recounted(u.d, d(u), old, q)
    <3> DEFINE e == u.d
               c == update_queue_count(e, old, q)
    <3>1. e \in Dqm /\ d(u) = c
      BY <1>7 DEF d
    <3> HIDE DEF e
    <3>2. c \in Dqm /\ Recounted(e, c, old, q)
      BY <1>3, <1>4, <3>1, UpdateCountFacts DEF Recounted
    <3> QED BY <3>1, <3>2 DEF e
  <2>5. Recounted(u.d, d(u), old, nq)
    BY <1>4, <1>5, <2>4 DEF Recounted
  <2>6. queue'[p][qid] = nq /\ \A i \in Qids \ {qid} : queue'[p][i] = queue[p][i]
    BY <1>6, <2>2
  <2>7. \E v \in unmap_queues_cpsch(dqm, hw) :
          /\ v.d \in Dqm /\ SameCounts(dqm, v.d) /\ v.d.registered = dqm.registered
          /\ v.ret = "0" /\ \E e \in Dqm : Recounted(v.d, e, old, nq) /\ Mapped(e, v.h)
    BY <1>2, <1>7, <1>11, <2>3, <2>4, <2>5
  <2> QED BY <1>1, <1>3, <1>5, <1>8, <2>2, <2>6, <2>7 DEF qid, old
<1> QED BY <1>10, <1>11

\* What eviction and restoration leave alone.
KeptLists(p) ==
  /\ Only(p) /\ phase'[p] = phase[p] /\ failed'[p] = failed[p] /\ op'[p] = op[p]
  /\ \A i \in Qids : /\ queue'[p][i].type = queue[p][i].type
                     /\ queue'[p][i].doorbell_id = queue[p][i].doorbell_id
  /\ qpd'[p].queues_list = qpd[p].queues_list /\ qpd'[p].diq = qpd[p].diq
  /\ qpd'[p].queue_count = qpd[p].queue_count
  /\ qpd'[p].doorbell_bitmap = qpd[p].doorbell_bitmap

\* The queues of a list that count as CP queues.
CpOf(S, qs) == {i \in S : is_cp(qs[i].type)}

LEMMA EvictEffect ==
  ASSUME IInv, NEW p \in Procs, evict_process_queues_cpsch(p)
  PROVE  /\ KeptLists(p) /\ MayEvict(p)
         /\ \/ Settled(dqm) /\ queue'[p] = queue[p]
            \/ /\ \A i \in qpd[p].queues_list : queue'[p][i].is_active = FALSE
               /\ \E d \in Dqm :
                    /\ SameSched(dqm, d) /\ d.registered = dqm.registered
                    /\ d.total_queue_count = dqm.total_queue_count
                    /\ d.active_queue_count = Sub(dqm.active_queue_count, Cardinality(ActiveQueues(p)))
                    /\ d.active_cp_queue_count = Sub(dqm.active_cp_queue_count,
                                                     Cardinality(CpOf(ActiveQueues(p), queue[p])))
                    /\ Executed(d)
<1> DEFINE qp == [qpd[p] EXCEPT !.evicted = @ + 1]
           qs == [i \in Qids |-> IF i \in qpd[p].queues_list
                                 THEN evict_queue(queue[p][i])
                                 ELSE queue[p][i]]
           d  == Discount(dqm, p, ActiveQueues(p))
<1>1. /\ MayEvict(p) /\ qpd' = [qpd EXCEPT ![p] = qp]
      /\ op' = op /\ phase' = phase /\ failed' = failed
  BY DEF evict_process_queues_cpsch
<1>2. /\ qp.queues_list = qpd[p].queues_list /\ qp.diq = qpd[p].diq
      /\ qp.queue_count = qpd[p].queue_count /\ qp.doorbell_bitmap = qpd[p].doorbell_bitmap
  BY At DEF Qpd
<1> HIDE DEF qp
<1>3. op' = [op EXCEPT ![p] = op[p]]
  BY <1>1, At
<1>4. CASE qpd[p].evicted > 0
  <2>1. dqm' = dqm /\ hw' = hw /\ queue' = queue
    BY <1>4 DEF evict_process_queues_cpsch
  <2>2. queue' = [queue EXCEPT ![p] = queue[p]]
    BY <2>1, At
  <2>3. Only(p) /\ qpd'[p] = qp /\ queue'[p] = queue[p] /\ op'[p] = op[p]
    BY <1>1, <1>3, <2>2 DEF IInv, Base, TypeOK, Only
  <2> QED BY <1>1, <1>2, <2>1, <2>3 DEF KeptLists, Settled
<1>5. CASE ~(qpd[p].evicted > 0)
  <2>1. /\ queue' = [queue EXCEPT ![p] = qs]
        /\ \E x \in execute_queues_cpsch(d, hw, Runnable(d, queue', qpd)) :
              dqm' = x.d /\ hw' = x.h
    BY <1>5 DEF evict_process_queues_cpsch
  <2>2. /\ d \in Dqm /\ SameSched(dqm, d) /\ d.registered = dqm.registered
        /\ d.total_queue_count = dqm.total_queue_count
        /\ d.active_queue_count = Sub(dqm.active_queue_count, Cardinality(ActiveQueues(p)))
        /\ d.active_cp_queue_count = Sub(dqm.active_cp_queue_count,
                                         Cardinality(CpOf(ActiveQueues(p), queue[p])))
    <3>1. ActiveQueues(p) \subseteq Qids /\ dqm \in Dqm
      BY At DEF ActiveQueues, Qpd, DeviceTyped
    <3> QED BY <3>1, DiscountFacts DEF CpOf
  <2>3. \A q \in Queue :
           /\ evict_queue(q).type = q.type /\ evict_queue(q).doorbell_id = q.doorbell_id
           /\ evict_queue(q).is_active = FALSE
    BY DEF evict_queue, Queue
  <2>4. /\ \A i \in Qids : /\ qs[i].type = queue[p][i].type
                           /\ qs[i].doorbell_id = queue[p][i].doorbell_id
        /\ \A i \in qpd[p].queues_list : qs[i].is_active = FALSE
    BY <2>3, At DEF Qpd
  <2> HIDE DEF qs, d
  <2>5. Only(p) /\ qpd'[p] = qp /\ queue'[p] = qs /\ op'[p] = op[p]
    BY <1>1, <1>3, <2>1 DEF IInv, Base, TypeOK, Only
  <2>6. Runnable(d, queue', qpd') = Runnable(d, queue', qpd)
    <3>1. \A r \in Procs : qpd'[r].queues_list = qpd[r].queues_list /\ qpd'[r].diq = qpd[r].diq
      BY <1>2, <2>5 DEF Only
    <3>2. \A r \in Procs, i \in Qids : Runs(d.registered[r], qpd'[r], queue'[r], i)
                                          <=> Runs(d.registered[r], qpd[r], queue'[r], i)
      BY <3>1 DEF Runs
    <3> QED BY <3>2, RunnableEqual
  <2>7. Executed(d)
    BY <2>1, <2>6, Zenon DEF Executed
  <2> QED BY <1>1, <1>2, <2>2, <2>4, <2>5, <2>7 DEF KeptLists
<1> QED BY <1>4, <1>5

LEMMA RestoreEffect ==
  ASSUME IInv, NEW p \in Procs, restore_process_queues_cpsch(p)
  PROVE  LET on == {i \in qpd[p].queues_list : queue'[p][i].is_active}
         IN  /\ KeptLists(p) /\ MayEvict(p)
             /\ \/ Settled(dqm) /\ queue'[p] = queue[p]
                \/ /\ \A i \in qpd[p].queues_list : ~queue[p][i].is_active
                   /\ \E d \in Dqm :
                        /\ SameSched(dqm, d) /\ d.registered = dqm.registered
                        /\ d.total_queue_count = dqm.total_queue_count
                        /\ d.active_queue_count = (dqm.active_queue_count + Cardinality(on)) % UINT
                        /\ d.active_cp_queue_count =
                             (dqm.active_cp_queue_count + Cardinality(CpOf(on, queue[p]))) % UINT
                        /\ Executed(d)
<1> DEFINE less == [qpd[p] EXCEPT !.evicted = @ - 1]
           qp   == [qpd[p] EXCEPT !.evicted = 0]
           qs   == [i \in Qids |-> IF i \in qpd[p].queues_list
                                   THEN restore_queue(queue[p][i])
                                   ELSE queue[p][i]]
           on   == {i \in qpd[p].queues_list : queue[p][i].on}
           cp   == {i \in on : is_cp(queue[p][i].type)}
           d    == [dqm EXCEPT
                      !.active_queue_count = (@ + Cardinality(on)) % UINT,
                      !.active_cp_queue_count = (@ + Cardinality(cp)) % UINT]
<1>1. /\ MayEvict(p) /\ qpd[p].evicted > 0 /\ op' = op /\ phase' = phase /\ failed' = failed
  BY Zenon DEF restore_process_queues_cpsch
<1>2. op' = [op EXCEPT ![p] = op[p]]
  BY <1>1, At
<1>3. CASE qpd[p].evicted > 1
  <2>1. qpd' = [qpd EXCEPT ![p] = less] /\ dqm' = dqm /\ hw' = hw /\ queue' = queue
    BY <1>3, Zenon DEF restore_process_queues_cpsch
  <2>2. /\ less.queues_list = qpd[p].queues_list /\ less.diq = qpd[p].diq
        /\ less.queue_count = qpd[p].queue_count /\ less.doorbell_bitmap = qpd[p].doorbell_bitmap
    BY At DEF Qpd
  <2> HIDE DEF less
  <2>3. queue' = [queue EXCEPT ![p] = queue[p]]
    BY <2>1, At
  <2>4. Only(p) /\ qpd'[p] = less /\ queue'[p] = queue[p] /\ op'[p] = op[p]
    BY <1>1, <1>2, <2>1, <2>3 DEF IInv, Base, TypeOK, Only
  <2> QED BY <1>1, <2>1, <2>2, <2>4 DEF KeptLists, Settled
<1>4. CASE ~(qpd[p].evicted > 1)
  <2>1. /\ queue' = [queue EXCEPT ![p] = qs] /\ qpd' = [qpd EXCEPT ![p] = qp]
        /\ \E x \in execute_queues_cpsch(d, hw, Runnable(d, queue', qpd)) :
              dqm' = x.d /\ hw' = x.h
    BY <1>4, Zenon DEF restore_process_queues_cpsch
  <2> DEFINE a == (dqm.active_queue_count + Cardinality(on)) % UINT
             b == (dqm.active_cp_queue_count + Cardinality(cp)) % UINT
  <2>2. /\ d \in Dqm /\ SameSched(dqm, d) /\ d.registered = dqm.registered
        /\ d.total_queue_count = dqm.total_queue_count
        /\ d.active_queue_count = a /\ d.active_cp_queue_count = b
    <3>1. Cardinality(on) \in Nat /\ Cardinality(cp) \in Nat
      BY At, FiniteSlots DEF Qpd
    <3>2. dqm \in Dqm /\ dqm.active_queue_count \in Counter /\ dqm.active_cp_queue_count \in Counter
      BY DEF IInv, Base, TypeOK, Dqm
    <3> HIDE DEF on, cp
    <3>3. a \in Counter /\ b \in Counter
      BY <3>1, <3>2, CounterOps
    <3>4. d = [dqm EXCEPT !.active_queue_count = a, !.active_cp_queue_count = b]
      OBVIOUS
    <3> HIDE DEF a, b, d
    <3> QED BY <3>2, <3>3, <3>4 DEF Dqm, SameSched
  <2>3. \A q \in Queue :
           /\ restore_queue(q).type = q.type /\ restore_queue(q).doorbell_id = q.doorbell_id
           /\ ~q.is_active => restore_queue(q).is_active = q.on
    BY DEF restore_queue, Queue
  <2>4. \A i \in qpd[p].queues_list : ~queue[p][i].is_active
    BY <1>1, At DEF Marked
  <2>5. /\ \A i \in Qids : /\ qs[i].type = queue[p][i].type
                           /\ qs[i].doorbell_id = queue[p][i].doorbell_id
        /\ \A i \in qpd[p].queues_list : qs[i].is_active = queue[p][i].on
    BY <2>3, <2>4, At DEF Qpd
  <2>6. /\ qp.queues_list = qpd[p].queues_list /\ qp.diq = qpd[p].diq
        /\ qp.queue_count = qpd[p].queue_count /\ qp.doorbell_bitmap = qpd[p].doorbell_bitmap
    BY At DEF Qpd
  <2> HIDE DEF qs, d, qp
  <2>7. Only(p) /\ qpd'[p] = qp /\ queue'[p] = qs /\ op'[p] = op[p]
    BY <1>1, <1>2, <2>1 DEF IInv, Base, TypeOK, Only
  <2>8. Runnable(d, queue', qpd') = Runnable(d, queue', qpd)
    <3>1. \A r \in Procs : qpd'[r].queues_list = qpd[r].queues_list /\ qpd'[r].diq = qpd[r].diq
      BY <2>6, <2>7 DEF Only
    <3>2. \A r \in Procs, i \in Qids : Runs(d.registered[r], qpd'[r], queue'[r], i)
                                          <=> Runs(d.registered[r], qpd[r], queue'[r], i)
      BY <3>1 DEF Runs
    <3> QED BY <3>2, RunnableEqual
  <2>9. Executed(d)
    BY <2>1, <2>8, Zenon DEF Executed
  <2>10. /\ on = {i \in qpd[p].queues_list : queue'[p][i].is_active}
         /\ cp = CpOf(on, queue[p])
    BY <2>5, <2>7 DEF CpOf
  <2>11. KeptLists(p)
    BY <1>1, <2>5, <2>6, <2>7 DEF KeptLists
  <2> HIDE DEF on, cp
  <2> QED BY <1>1, <2>2, <2>4, <2>9, <2>10, <2>11
<1> QED BY <1>3, <1>4

LEMMA ReleaseEffect ==
  ASSUME IInv, NEW p \in Procs, release_begin(p) \/ new_process(p)
  PROVE  /\ Only(p) /\ qpd'[p] = qpd[p] /\ queue'[p] = queue[p] /\ op'[p] = op[p]
         /\ Settled(dqm)
         /\ \/ /\ phase[p] = "live" /\ op[p].at = "none" /\ qpd[p].diq = NONE
               /\ phase'[p] = "releasing" /\ failed'[p] = failed[p]
            \/ phase[p] = "gone" /\ phase'[p] = "live" /\ failed'[p] = FALSE
<1>1. qpd' = qpd /\ queue' = queue /\ op' = op /\ dqm' = dqm /\ hw' = hw
  BY DEF release_begin, new_process
<1>2. /\ \A r \in Procs \ {p} : phase'[r] = phase[r] /\ failed'[r] = failed[r]
      /\ \/ /\ phase[p] = "live" /\ op[p].at = "none" /\ qpd[p].diq = NONE
            /\ phase'[p] = "releasing" /\ failed'[p] = failed[p]
         \/ phase[p] = "gone" /\ phase'[p] = "live" /\ failed'[p] = FALSE
  BY DEF release_begin, new_process, IInv, Base, TypeOK
<1> QED BY <1>1, <1>2 DEF Only, Settled

LEMMA TerminateClearFacts ==
  ASSUME IInv, NEW p \in Procs
  PROVE  LET d == terminate_clear(p)
         IN  /\ d \in Dqm /\ SameSched(dqm, d)
             /\ \A r \in Procs \ {p} : d.registered[r] = dqm.registered[r]
             /\ d.registered[p] = IF dqm.registered[p] = 0 THEN 0 ELSE dqm.registered[p] - 1
             /\ d.total_queue_count = Sub(dqm.total_queue_count, Cardinality(qpd[p].queues_list))
             /\ d.active_queue_count = Sub(dqm.active_queue_count, Cardinality(ActiveQueues(p)))
             /\ d.active_cp_queue_count = Sub(dqm.active_cp_queue_count,
                                              Cardinality(CpOf(ActiveQueues(p), queue[p])))
<1> DEFINE gws == {i \in ActiveQueues(p) : queue[p][i].is_gws}
           c   == Discount(dqm, p, ActiveQueues(p))
           b   == sdma_given_back(c.sdma_bitmap, p)
           n   == Sub(c.total_queue_count, Cardinality(qpd[p].queues_list))
           k   == Sub(c.gws_queue_count, Cardinality(gws))
           d   == [c EXCEPT !.total_queue_count = n, !.gws_queue_count = k, !.sdma_bitmap = b]
<1>1. terminate_clear(p) = unregister_process(d, p)
  BY DEF terminate_clear, terminate_unregister
<1>2. /\ ActiveQueues(p) \subseteq Qids /\ gws \subseteq Qids
      /\ qpd[p].queues_list \subseteq Qids /\ dqm \in Dqm
  BY At DEF ActiveQueues, Qpd, DeviceTyped
<1>3. /\ c \in Dqm /\ SameSched(dqm, c) /\ c.registered = dqm.registered
      /\ c.total_queue_count = dqm.total_queue_count
      /\ c.active_queue_count = Sub(dqm.active_queue_count, Cardinality(ActiveQueues(p)))
      /\ c.active_cp_queue_count = Sub(dqm.active_cp_queue_count,
                                       Cardinality(CpOf(ActiveQueues(p), queue[p])))
  <2> DEFINE S == ActiveQueues(p)
  <2>1. S \subseteq Qids
    BY <1>2
  <2>2. {i \in S : is_cp(queue[p][i].type)} = CpOf(S, queue[p])
    BY DEF CpOf
  <2> HIDE DEF S
  <2>3. LET e == Discount(dqm, p, S)
        IN  /\ e \in Dqm /\ SameSched(dqm, e) /\ e.registered = dqm.registered
            /\ e.total_queue_count = dqm.total_queue_count
            /\ e.active_queue_count = Sub(dqm.active_queue_count, Cardinality(S))
            /\ e.active_cp_queue_count = Sub(dqm.active_cp_queue_count, Cardinality(CpOf(S, queue[p])))
    <3> DEFINE e == Discount(dqm, p, S)
    <3>1. /\ e \in Dqm /\ SameSched(dqm, e) /\ e.registered = dqm.registered
          /\ e.total_queue_count = dqm.total_queue_count
          /\ e.active_queue_count = Sub(dqm.active_queue_count, Cardinality(S))
          /\ e.active_cp_queue_count = Sub(dqm.active_cp_queue_count,
                                           Cardinality({i \in S : is_cp(queue[p][i].type)}))
      BY <1>2, <2>1, DiscountFacts, ZenonT(60)
    <3> QED BY <2>2, <3>1, Zenon
  <2> QED BY <2>3 DEF S
<1>4. b \in [SdmaTypes -> SUBSET SdmaIds]
  BY <1>3, SdmaGivenBack DEF Dqm
<1>5. Cardinality(qpd[p].queues_list) \in Nat /\ Cardinality(gws) \in Nat
  BY <1>2, FiniteSlots
<1>6. n \in Counter /\ k \in Counter
  BY <1>3, <1>5, CounterOps DEF Dqm
<1>7. n = Sub(dqm.total_queue_count, Cardinality(qpd[p].queues_list))
  BY <1>3
<1> HIDE DEF gws, c, b, n, k
<1>8. /\ d \in Dqm /\ SameSched(c, d) /\ d.registered = c.registered /\ d.total_queue_count = n
      /\ d.active_queue_count = c.active_queue_count
      /\ d.active_cp_queue_count = c.active_cp_queue_count
  BY <1>3, <1>4, <1>6 DEF Dqm, SameSched
<1> HIDE DEF d
<1>9. LET e == unregister_process(d, p)
      IN  /\ e \in Dqm /\ SameSched(d, e) /\ SameCounts(d, e)
          /\ e.registered[p] = IF d.registered[p] = 0 THEN 0 ELSE d.registered[p] - 1
          /\ \A r \in Procs \ {p} : e.registered[r] = d.registered[r]
  BY <1>8, RegisterFacts
<1> DEFINE t == terminate_clear(p)
<1>10. /\ t \in Dqm /\ SameSched(dqm, t)
  BY <1>1, <1>3, <1>8, <1>9 DEF SameSched
<1>11. /\ \A r \in Procs \ {p} : t.registered[r] = dqm.registered[r]
       /\ t.registered[p] = IF dqm.registered[p] = 0 THEN 0 ELSE dqm.registered[p] - 1
  BY <1>1, <1>3, <1>8, <1>9
<1>12. /\ t.total_queue_count = n /\ t.active_queue_count = c.active_queue_count
       /\ t.active_cp_queue_count = c.active_cp_queue_count
  BY <1>1, <1>8, <1>9 DEF SameCounts
<1> HIDE DEF t
<1>13. /\ t.total_queue_count = Sub(dqm.total_queue_count, Cardinality(qpd[p].queues_list))
       /\ t.active_queue_count = Sub(dqm.active_queue_count, Cardinality(ActiveQueues(p)))
       /\ t.active_cp_queue_count = Sub(dqm.active_cp_queue_count,
                                        Cardinality(CpOf(ActiveQueues(p), queue[p])))
  BY <1>3, <1>7, <1>12, Zenon
<1> QED BY <1>10, <1>11, <1>13 DEF t

LEMMA TerminateEffect ==
  ASSUME IInv, NEW p \in Procs, process_termination_cpsch(p)
  PROVE  /\ Only(p) /\ phase'[p] = phase[p] /\ failed'[p] = failed[p] /\ queue'[p] = queue[p]
         /\ phase[p] = "releasing" /\ op[p].at = "none" /\ op'[p].at = "terminating"
         /\ \E first \in SUBSET qpd[p].queues_list :
              /\ qpd'[p].queues_list = qpd[p].queues_list \ first
              /\ qpd'[p].queue_count = Sub(qpd[p].queue_count, Cardinality(first))
         /\ qpd'[p].diq = qpd[p].diq
         /\ \E d \in Dqm :
              /\ d = terminate_clear(p)
              /\ SameCounts(d, dqm') /\ dqm'.registered = d.registered
              /\ d.registered[p] = 0 => Executed(d)
<1> DEFINE d == terminate_clear(p)
           o == [at |-> "terminating", qid |-> NONE]
           wave(x) == IF ~x.d.is_hws_hang
                         /\ (x.ret # "0" \/ qpd[p].reset_wavefronts)
                      THEN FALSE ELSE qpd[p].reset_wavefronts
           qp(x, first) ==
             [qpd[p] EXCEPT !.queues_list = @ \ first,
                            !.queue_count = Sub(@, Cardinality(first)),
                            !.reset_wavefronts = wave(x)]
<1>1. /\ op' = [op EXCEPT ![p] = o] /\ queue' = queue /\ phase' = phase /\ failed' = failed
      /\ phase[p] = "releasing" /\ op[p].at = "none"
  BY DEF process_termination_cpsch
<1>2. PICK x \in execute_queues_cpsch(d, hw, Runnable(d, queue, qpd)) :
         /\ dqm' = x.d /\ hw' = x.h
         /\ \E first \in IF NoQueues(p) THEN {{}}
                         ELSE {{i} : i \in qpd[p].queues_list} :
               qpd' = [qpd EXCEPT
                 ![p].queues_list = @ \ first,
                 ![p].queue_count = Sub(@, Cardinality(first)),
                 ![p].reset_wavefronts =
                    IF ~x.d.is_hws_hang /\ (x.ret # "0" \/ @)
                    THEN FALSE ELSE @]
  BY Zenon DEF process_termination_cpsch
<1>3. PICK first \in IF NoQueues(p) THEN {{}}
                     ELSE {{i} : i \in qpd[p].queues_list} :
               qpd' = [qpd EXCEPT ![p] = qp(x, first)]
  BY <1>2, Zenon
<1>4. first \in SUBSET qpd[p].queues_list
  BY <1>3
<1> HIDE DEF wave, d
<1>5. /\ qp(x, first).queues_list = qpd[p].queues_list \ first
      /\ qp(x, first).queue_count = Sub(qpd[p].queue_count, Cardinality(first))
      /\ qp(x, first).diq = qpd[p].diq
  BY At DEF Qpd
<1>6. o.at = "terminating"
  OBVIOUS
<1>7. queue' = [queue EXCEPT ![p] = queue[p]]
  BY <1>1, At
<1> HIDE DEF qp, o
<1>8. Only(p) /\ qpd'[p] = qp(x, first) /\ queue'[p] = queue[p] /\ op'[p] = o
  BY <1>1, <1>3, <1>7 DEF IInv, Base, TypeOK, Only
<1>9. d \in Dqm
  BY TerminateClear DEF d
<1>10. SameCounts(d, dqm') /\ dqm'.registered = d.registered
  <2> DEFINE run == Runnable(d, queue, qpd)
  <2>1. run \in SUBSET (Procs \X Qids) /\ hw \in SUBSET (Procs \X Qids)
    BY RunnableType DEF IInv, Base, TypeOK
  <2>2. x \in execute_queues_cpsch(d, hw, run)
    BY <1>2
  <2> HIDE DEF run
  <2>3. SameCounts(d, x.d) /\ x.d.registered = d.registered
    BY <1>9, <2>1, <2>2, ExecuteFacts
  <2> QED BY <1>2, <2>3
<1>11. ASSUME d.registered[p] = 0
       PROVE  Executed(d)
  <2>1. \A r \in Procs, i \in Qids : Runs(d.registered[r], qpd'[r], queue'[r], i)
                                        <=> Runs(d.registered[r], qpd[r], queue[r], i)
    BY <1>8, <1>11 DEF Runs, Only
  <2>2. Runnable(d, queue', qpd') = Runnable(d, queue, qpd)
    BY <2>1, RunnableEqual
  <2> QED BY <1>2, <2>2, Zenon DEF Executed
<1>12. d = terminate_clear(p)
  BY DEF d
<1> QED BY <1>1, <1>4, <1>5, <1>6, <1>8, <1>9, <1>10, <1>11, <1>12

LEMMA FreeMqdEffect ==
  ASSUME IInv, NEW p \in Procs, terminate_free_mqd(p)
  PROVE  /\ Only(p) /\ phase'[p] = phase[p] /\ failed'[p] = failed[p] /\ queue'[p] = queue[p]
         /\ op[p].at = "terminating" /\ op'[p] = op[p]
         /\ \E i \in qpd[p].queues_list :
              /\ qpd'[p].queues_list = qpd[p].queues_list \ {i}
              /\ qpd'[p].queue_count = Dec(qpd[p].queue_count)
         /\ qpd'[p].diq = qpd[p].diq
         /\ Settled(dqm)
<1> DEFINE qp(i) == [qpd[p] EXCEPT !.queues_list = @ \ {i},
                                   !.queue_count = Dec(@)]
<1>1. /\ op[p].at = "terminating" /\ dqm' = dqm /\ hw' = hw
      /\ queue' = queue /\ op' = op /\ phase' = phase /\ failed' = failed
  BY DEF terminate_free_mqd, procVars
<1>2. PICK i \in qpd[p].queues_list : qpd' = [qpd EXCEPT ![p] = qp(i)]
  BY Zenon DEF terminate_free_mqd
<1>3. /\ qp(i).queues_list = qpd[p].queues_list \ {i} /\ qp(i).diq = qpd[p].diq
      /\ qp(i).queue_count = Dec(qpd[p].queue_count)
  BY At DEF Qpd
<1> HIDE DEF qp
<1>4. queue' = [queue EXCEPT ![p] = queue[p]] /\ op' = [op EXCEPT ![p] = op[p]]
  BY <1>1, At
<1>5. Only(p) /\ qpd'[p] = qp(i) /\ queue'[p] = queue[p] /\ op'[p] = op[p]
  BY <1>1, <1>2, <1>4 DEF IInv, Base, TypeOK, Only
<1> QED BY <1>1, <1>3, <1>5 DEF Settled

LEMMA UninitEffect ==
  ASSUME IInv, NEW p \in Procs, pqm_uninit(p)
  PROVE  /\ Only(p) /\ phase'[p] = "gone" /\ failed'[p] = failed[p]
         /\ op[p].at = "terminating" /\ qpd[p].queues_list = {}
         /\ op'[p].at = "none" /\ qpd'[p].queues_list = {} /\ qpd'[p].diq = NONE
         /\ qpd'[p].queue_count = 0 /\ qpd'[p].doorbell_bitmap = ReservedDoorbells
         /\ Settled(dqm)
<1> DEFINE qs == [i \in Qids |-> NoQueue]
<1>1. /\ op[p].at = "terminating" /\ qpd[p].queues_list = {}
      /\ op' = [op EXCEPT ![p] = NoOp]
      /\ queue' = [queue EXCEPT ![p] = qs] /\ qpd' = [qpd EXCEPT ![p] = FreshQpd]
      /\ phase' = [phase EXCEPT ![p] = "gone"] /\ failed' = failed /\ dqm' = dqm /\ hw' = hw
  BY DEF pqm_uninit
<1>2. /\ NoOp.at = "none" /\ FreshQpd.queues_list = {} /\ FreshQpd.diq = NONE
      /\ FreshQpd.queue_count = 0 /\ FreshQpd.doorbell_bitmap = ReservedDoorbells
  BY DEF NoOp, FreshQpd
<1> HIDE DEF qs
<1>3. phase'[p] = "gone" /\ \A r \in Procs \ {p} : phase'[r] = phase[r]
  BY <1>1 DEF IInv, Base, TypeOK
<1>4. Only(p) /\ qpd'[p] = FreshQpd /\ queue'[p] = qs /\ op'[p] = NoOp
  <2>1. failed' = failed
    BY <1>1
  <2>2. \A r \in Procs \ {p} : phase'[r] = phase[r] /\ failed'[r] = failed[r]
    BY <1>3, <2>1
  <2>3. /\ op' = [op EXCEPT ![p] = NoOp] /\ queue' = [queue EXCEPT ![p] = qs]
        /\ qpd' = [qpd EXCEPT ![p] = FreshQpd]
    BY <1>1
  <2> QED BY <2>2, <2>3 DEF IInv, Base, TypeOK, Only
<1> QED BY <1>1, <1>2, <1>3, <1>4 DEF Settled

\* Suspend, resume and reset: none of them touches a process or a counter.
LEMMA DeviceEffect ==
  ASSUME IInv, pre_reset \/ stop_cpsch \/ start_cpsch
  PROVE  /\ qpd' = qpd /\ queue' = queue /\ op' = op /\ phase' = phase /\ failed' = failed
         /\ dqm \in Dqm /\ dqm' \in Dqm
         /\ SameCounts(dqm, dqm') /\ dqm'.registered = dqm.registered
<1>1. qpd' = qpd /\ queue' = queue /\ op' = op /\ phase' = phase /\ failed' = failed
  BY DEF pre_reset, stop_cpsch, start_cpsch, procVars
<1>2. dqm \in Dqm /\ hw \in SUBSET (Procs \X Qids)
  BY DEF IInv, Base, TypeOK
<1>3. dqm' \in Dqm
  BY DeviceSteps DEF IInv, Base, TypeOK
<1>4. CASE pre_reset
  <2>1. dqm' = [dqm EXCEPT !.is_resetting = TRUE]
    BY <1>4 DEF pre_reset
  <2> QED BY <1>1, <1>2, <1>3, <2>1 DEF Dqm, SameCounts
<1>5. CASE stop_cpsch
  <2>1. PICK u \in IF dqm.is_hws_hang THEN {Result(dqm, hw, "EIO")}
                   ELSE unmap_queues_cpsch(dqm, hw) :
           dqm' = [u.d EXCEPT !.sched_running = FALSE]
    BY <1>5 DEF stop_cpsch
  <2>2. u.d \in Dqm /\ SameCounts(dqm, u.d) /\ u.d.registered = dqm.registered
    <3>1. Result(dqm, hw, "EIO").d = dqm /\ SameCounts(dqm, dqm)
      BY DEF Result, SameCounts
    <3> QED BY <1>2, <2>1, <3>1, UnmapFacts
  <2> DEFINE e == u.d
  <2>3. e \in Dqm /\ SameCounts(dqm, e) /\ e.registered = dqm.registered
        /\ dqm' = [e EXCEPT !.sched_running = FALSE]
    BY <2>1, <2>2
  <2> HIDE DEF e
  <2>4. SameCounts(e, dqm') /\ dqm'.registered = e.registered
    BY <2>3 DEF Dqm, SameCounts
  <2> QED BY <1>1, <1>2, <1>3, <2>3, <2>4 DEF SameCounts
<1>6. CASE start_cpsch
  <2> DEFINE d == [dqm EXCEPT !.is_hws_hang = FALSE, !.is_resetting = FALSE,
                              !.sched_running = TRUE]
             run == Runnable(d, queue, qpd)
             none == {}
  <2>1. d \in Dqm /\ SameCounts(dqm, d) /\ d.registered = dqm.registered
    BY <1>2 DEF Dqm, SameCounts
  <2>2. PICK x \in execute_queues_cpsch(d, none, run) : dqm' = x.d
    BY <1>6 DEF start_cpsch
  <2>3. run \in SUBSET (Procs \X Qids) /\ none \in SUBSET (Procs \X Qids)
    BY RunnableType
  <2> HIDE DEF d, run, none
  <2>4. SameCounts(d, x.d) /\ x.d.registered = d.registered
    <3>1. \A e \in Dqm, g \in SUBSET (Procs \X Qids), r \in SUBSET (Procs \X Qids) :
             \A y \in execute_queues_cpsch(e, g, r) :
                SameCounts(e, y.d) /\ y.d.registered = e.registered
      BY ExecuteFacts
    <3>2. x \in execute_queues_cpsch(d, none, run) /\ d \in Dqm
      BY <2>1, <2>2
    <3> QED BY <2>3, <3>1, <3>2
  <2> QED BY <1>1, <1>2, <1>3, <2>1, <2>2, <2>4 DEF SameCounts
<1> QED BY <1>4, <1>5, <1>6
-----------------------------------------------------------------------------
(* Doorbells.                                                              *)

\* What an operation knows of its own process: an update works on a queue of the
\* list, a process that ends has no debug queue and no other operation, a debug
\* queue is only made where there is none and is never among the other queues.
LocalInv(qp, qs, o, ph) ==
  /\ o.at = "update" => o.qid \in qp.queues_list
  /\ o.at = "terminating" => ph = "releasing"
  /\ ph # "live" => qp.diq = NONE /\ o.at \in {"none", "terminating"}
  /\ ph = "gone" => /\ o.at = "none" /\ qp.queues_list = {}
                    /\ qp.doorbell_bitmap = ReservedDoorbells
  /\ qp.diq # NONE => qs[qp.diq].type = DIQ
  /\ o.at = "create" /\ qs[o.qid].type = DIQ => qp.diq = NONE
  /\ \A i \in Held(qp, o) : qs[i].type # DIQ

\* The queues of a process that have doorbells.
Rings(qp, qs, o) == {i \in Held(qp, o) : qs[i].type = COMPUTE}

\* DoorbellsExclusive for one process, spelled out.
BellInv(qp, qs, o, ph) ==
  ph = "live" =>
    /\ ReservedDoorbells \subseteq qp.doorbell_bitmap
    /\ \A i \in Rings(qp, qs, o) : qs[i].doorbell_id \in qp.doorbell_bitmap \ ReservedDoorbells
    /\ \A i, j \in Rings(qp, qs, o) : qs[i].doorbell_id = qs[j].doorbell_id => i = j
    /\ \A k \in qp.doorbell_bitmap \ ReservedDoorbells :
          \E i \in Rings(qp, qs, o) : qs[i].doorbell_id = k

BellsInv ==
  \A p \in Procs : /\ LocalInv(qpd[p], queue[p], op[p], phase[p])
                   /\ BellInv(qpd[p], queue[p], op[p], phase[p])

\* What IInv says of the slots of one process.
LEMMA SlotFacts ==
  ASSUME IInv, NEW p \in Procs
  PROVE  /\ qpd[p].queues_list \subseteq Qids /\ qpd[p].diq \in Qids \cup {NONE} /\ NONE \notin Qids
         /\ qpd[p].queues_list \subseteq pqm[p].slots /\ qpd[p].diq \notin qpd[p].queues_list
         /\ qpd[p].diq # NONE => qpd[p].diq \in pqm[p].slots
         /\ Held(qpd[p], op[p]) \subseteq Qids
         /\ op[p].at \in {"create", "reserved", "destroyed"} =>
              /\ op[p].qid \in Qids /\ op[p].qid \notin qpd[p].queues_list /\ op[p].qid # qpd[p].diq
BY At, HeldIsSlots, IdsAreNumbers DEF Qpd, SlotsTaken, OpSlot

\* A step of one process.
LEMMA BellsAt ==
  ASSUME BellsInv, NEW p \in Procs, Only(p),
         LocalInv(qpd'[p], queue'[p], op'[p], phase'[p]),
         BellInv(qpd'[p], queue'[p], op'[p], phase'[p])
  PROVE  BellsInv'
<1>1. \A r \in Procs \ {p} : /\ LocalInv(qpd'[r], queue'[r], op'[r], phase'[r])
                             /\ BellInv(qpd'[r], queue'[r], op'[r], phase'[r])
  BY DEF BellsInv, Only
<1> QED BY <1>1 DEF BellsInv

\* The queues with doorbells, and the bitmap, stay.
LEMMA BellsKept ==
  ASSUME NEW qp, NEW qs, NEW o, NEW ph, NEW qn, NEW qt, NEW n, NEW pn,
         BellInv(qp, qs, o, ph), pn = "live" => ph = "live",
         Rings(qn, qt, n) = Rings(qp, qs, o),
         \A i \in Rings(qp, qs, o) : qt[i].doorbell_id = qs[i].doorbell_id,
         qn.doorbell_bitmap = qp.doorbell_bitmap
  PROVE  BellInv(qn, qt, n, pn)
BY DEF BellInv

\* A queue that gets a free doorbell.
LEMMA BellAdded ==
  ASSUME NEW qp, NEW qs, NEW o, NEW ph, NEW qn, NEW qt, NEW n, NEW pn, NEW q,
         BellInv(qp, qs, o, ph), pn = "live" => ph = "live",
         q \notin Rings(qp, qs, o), Rings(qn, qt, n) = Rings(qp, qs, o) \cup {q},
         \A i \in Rings(qp, qs, o) : qt[i].doorbell_id = qs[i].doorbell_id,
         qt[q].doorbell_id \notin qp.doorbell_bitmap,
         qn.doorbell_bitmap = qp.doorbell_bitmap \cup {qt[q].doorbell_id}
  PROVE  BellInv(qn, qt, n, pn)
<1> SUFFICES ASSUME pn = "live" PROVE BellInv(qn, qt, n, pn)
  BY DEF BellInv
<1> DEFINE R == Rings(qp, qs, o)
           b == qp.doorbell_bitmap
<1>1. /\ ReservedDoorbells \subseteq b
      /\ \A i \in R : qs[i].doorbell_id \in b \ ReservedDoorbells
      /\ \A i, j \in R : qs[i].doorbell_id = qs[j].doorbell_id => i = j
      /\ \A k \in b \ ReservedDoorbells : \E i \in R : qs[i].doorbell_id = k
  BY DEF BellInv
<1>2. Rings(qn, qt, n) = R \cup {q} /\ qn.doorbell_bitmap = b \cup {qt[q].doorbell_id} /\ q \notin R
  OBVIOUS
<1> HIDE DEF R, b
<1>3. ReservedDoorbells \subseteq qn.doorbell_bitmap
  BY <1>1, <1>2
<1>4. \A i \in R : qt[i].doorbell_id = qs[i].doorbell_id
  BY DEF R
<1>5. qt[q].doorbell_id \notin b
  BY DEF b
<1>6. \A i \in R \cup {q} : qt[i].doorbell_id \in qn.doorbell_bitmap \ ReservedDoorbells
  BY <1>1, <1>2, <1>4, <1>5
<1>7. \A i, j \in R \cup {q} : qt[i].doorbell_id = qt[j].doorbell_id => i = j
  BY <1>1, <1>4, <1>5
<1>8. \A k \in qn.doorbell_bitmap \ ReservedDoorbells : \E i \in R \cup {q} : qt[i].doorbell_id = k
  BY <1>1, <1>2, <1>4
<1> QED BY <1>2, <1>3, <1>6, <1>7, <1>8 DEF BellInv

\* A queue that gives its doorbell back.
LEMMA BellDropped ==
  ASSUME NEW qp, NEW qs, NEW o, NEW ph, NEW qn, NEW qt, NEW n, NEW pn, NEW q,
         BellInv(qp, qs, o, ph), pn = "live" => ph = "live",
         q \in Rings(qp, qs, o), Rings(qn, qt, n) = Rings(qp, qs, o) \ {q},
         \A i \in Rings(qn, qt, n) : qt[i].doorbell_id = qs[i].doorbell_id,
         qn.doorbell_bitmap = qp.doorbell_bitmap \ {qs[q].doorbell_id}
  PROVE  BellInv(qn, qt, n, pn)
<1> SUFFICES ASSUME pn = "live" PROVE BellInv(qn, qt, n, pn)
  BY DEF BellInv
<1> DEFINE R == Rings(qp, qs, o)
           b == qp.doorbell_bitmap
<1>1. /\ ReservedDoorbells \subseteq b
      /\ \A i \in R : qs[i].doorbell_id \in b \ ReservedDoorbells
      /\ \A i, j \in R : qs[i].doorbell_id = qs[j].doorbell_id => i = j
      /\ \A k \in b \ ReservedDoorbells : \E i \in R : qs[i].doorbell_id = k
  BY DEF BellInv
<1>2. Rings(qn, qt, n) = R \ {q} /\ qn.doorbell_bitmap = b \ {qs[q].doorbell_id} /\ q \in R
  OBVIOUS
<1>3. \A i \in R \ {q} : qt[i].doorbell_id = qs[i].doorbell_id
  OBVIOUS
<1> HIDE DEF R, b
<1>4. ReservedDoorbells \subseteq qn.doorbell_bitmap
  BY <1>1, <1>2
<1>5. \A i \in R \ {q} : qt[i].doorbell_id \in qn.doorbell_bitmap \ ReservedDoorbells
  BY <1>1, <1>2, <1>3
<1>6. \A i, j \in R \ {q} : qt[i].doorbell_id = qt[j].doorbell_id => i = j
  BY <1>1, <1>3
<1>7. ASSUME NEW k \in qn.doorbell_bitmap \ ReservedDoorbells
      PROVE  \E i \in R \ {q} : qt[i].doorbell_id = k
  <2>1. PICK i \in R : qs[i].doorbell_id = k
    BY <1>1, <1>2
  <2>2. i # q
    BY <1>2, <2>1
  <2> QED BY <1>3, <2>1, <2>2
<1> QED BY <1>2, <1>4, <1>5, <1>6, <1>7 DEF BellInv

LEMMA CreateBeginBells ==
  ASSUME IInv, BellsInv, NEW p \in Procs, NEW on \in BOOLEAN,
         NEW type \in {COMPUTE, DIQ} \cup SdmaTypes, create_begin(p, type, on),
         type = DIQ => qpd[p].diq = NONE
  PROVE  BellsInv'
<1>1. PICK q \in Qids \ pqm[p].slots :
         /\ op'[p].at = "create" /\ op'[p].qid = q
         /\ queue'[p][q].type = type
         /\ \A i \in Qids \ {q} : queue'[p][i] = queue[p][i]
  BY CreateBeginEffect
<1>2. /\ Only(p) /\ qpd'[p] = qpd[p] /\ phase'[p] = phase[p]
      /\ phase[p] = "live" /\ op[p].at = "none"
  BY CreateBeginEffect
<1>3. /\ LocalInv(qpd[p], queue[p], op[p], phase[p]) /\ BellInv(qpd[p], queue[p], op[p], phase[p])
  BY DEF BellsInv
<1>4. /\ Held(qpd'[p], op'[p]) = qpd[p].queues_list /\ Held(qpd[p], op[p]) = qpd[p].queues_list
  BY <1>1, <1>2 DEF Held
<1>5. /\ q \notin qpd[p].queues_list /\ q # qpd[p].diq
      /\ \A i \in qpd[p].queues_list : queue'[p][i] = queue[p][i]
      /\ qpd[p].diq # NONE => queue'[p][qpd[p].diq] = queue[p][qpd[p].diq]
  BY <1>1, SlotFacts
<1>6. LocalInv(qpd'[p], queue'[p], op'[p], phase'[p])
  BY <1>1, <1>2, <1>3, <1>4, <1>5 DEF LocalInv
<1>7. /\ Rings(qpd'[p], queue'[p], op'[p]) = Rings(qpd[p], queue[p], op[p])
      /\ \A i \in Rings(qpd[p], queue[p], op[p]) : queue'[p][i].doorbell_id = queue[p][i].doorbell_id
  BY <1>4, <1>5 DEF Rings
<1>8. BellInv(qpd'[p], queue'[p], op'[p], phase'[p])
  BY <1>2, <1>3, <1>7, BellsKept
<1> QED BY <1>2, <1>6, <1>8, BellsAt

\* A step of one process after which the same queues have the same doorbells.
LEMMA BellsKeptAt ==
  ASSUME BellsInv, NEW p \in Procs, Only(p),
         LocalInv(qpd'[p], queue'[p], op'[p], phase'[p]),
         phase'[p] = "live" => phase[p] = "live",
         Held(qpd'[p], op'[p]) = Held(qpd[p], op[p]),
         \A i \in Held(qpd[p], op[p]) : /\ queue'[p][i].type = queue[p][i].type
                                        /\ queue'[p][i].doorbell_id = queue[p][i].doorbell_id,
         qpd'[p].doorbell_bitmap = qpd[p].doorbell_bitmap
  PROVE  BellsInv'
<1>1. BellInv(qpd[p], queue[p], op[p], phase[p])
  BY DEF BellsInv
<1>2. /\ Rings(qpd'[p], queue'[p], op'[p]) = Rings(qpd[p], queue[p], op[p])
      /\ \A i \in Rings(qpd[p], queue[p], op[p]) : queue'[p][i].doorbell_id = queue[p][i].doorbell_id
  BY DEF Rings
<1>3. BellInv(qpd'[p], queue'[p], op'[p], phase'[p])
  BY <1>1, <1>2, BellsKept
<1> QED BY <1>3, BellsAt

\* The end of a creation that failed and of a destruction.
LEMMA UndoneLocal ==
  ASSUME IInv, BellsInv, NEW p \in Procs, NEW d, Undone(p, d),
         op[p].at \in {"create", "reserved", "destroyed"}
  PROVE  /\ LocalInv(qpd'[p], queue'[p], op'[p], phase'[p]) /\ Only(p)
         /\ Held(qpd'[p], op'[p]) = qpd[p].queues_list
         /\ \A i \in qpd[p].queues_list : queue'[p][i] = queue[p][i]
<1>1. LocalInv(qpd[p], queue[p], op[p], phase[p])
  BY DEF BellsInv
<1>2. /\ \A i \in Qids \ {op[p].qid} : queue'[p][i] = queue[p][i]
      /\ qpd'[p].queues_list = qpd[p].queues_list /\ qpd'[p].diq = qpd[p].diq
      /\ op'[p].at = "none" /\ phase'[p] = phase[p] /\ Only(p)
  BY DEF Undone
<1>3. Held(qpd'[p], op'[p]) = qpd[p].queues_list
  BY <1>2 DEF Held
<1>4. /\ \A i \in qpd[p].queues_list : queue'[p][i] = queue[p][i] /\ i \in Held(qpd[p], op[p])
      /\ qpd[p].diq # NONE => queue'[p][qpd[p].diq] = queue[p][qpd[p].diq]
  BY <1>2, SlotFacts DEF Held
<1>5. phase[p] = "live"
  <2>1. op[p].at \notin {"none", "terminating"}
    OBVIOUS
  <2> QED BY <1>1, <2>1 DEF LocalInv
<1>6. LocalInv(qpd'[p], queue'[p], op'[p], phase'[p])
  BY <1>1, <1>2, <1>3, <1>4, <1>5 DEF LocalInv
<1> QED BY <1>2, <1>3, <1>4, <1>6

LEMMA UndoneBells ==
  ASSUME IInv, BellsInv, NEW p \in Procs,
         create_refused(p) \/ create_kernel_queue_refused(p) \/ destroy_finish(p)
  PROVE  BellsInv'
<1>1. /\ op[p].at \in {"create", "destroyed"} /\ Undone(p, dqm)
      /\ qpd'[p].doorbell_bitmap = qpd[p].doorbell_bitmap
  BY CreateRefusedEffect, DestroyFinishEffect
<1>2. /\ LocalInv(qpd'[p], queue'[p], op'[p], phase'[p]) /\ Only(p)
      /\ Held(qpd'[p], op'[p]) = qpd[p].queues_list
      /\ \A i \in qpd[p].queues_list : queue'[p][i] = queue[p][i]
  BY <1>1, UndoneLocal
<1>3. Held(qpd[p], op[p]) = qpd[p].queues_list
  BY <1>1 DEF Held
<1>4. phase'[p] = phase[p]
  BY <1>1 DEF Undone
<1> QED BY <1>1, <1>2, <1>3, <1>4, BellsKeptAt

LEMMA CreateNoMqdBells ==
  ASSUME IInv, BellsInv, NEW p \in Procs, create_no_mqd(p)
  PROVE  BellsInv'
<1> DEFINE qid == op[p].qid
           q   == queue[p][qid]
<1>1. /\ op[p].at = "reserved" /\ Undone(p, deallocate_sdma_queue(dqm, q))
      /\ qpd'[p].doorbell_bitmap = deallocate_doorbell(qpd[p].doorbell_bitmap, q)
  BY CreateNoMqdEffect
<1>2. /\ LocalInv(qpd'[p], queue'[p], op'[p], phase'[p]) /\ Only(p)
      /\ Held(qpd'[p], op'[p]) = qpd[p].queues_list
      /\ \A i \in qpd[p].queues_list : queue'[p][i] = queue[p][i]
  BY <1>1, UndoneLocal
<1>3. /\ LocalInv(qpd[p], queue[p], op[p], phase[p]) /\ BellInv(qpd[p], queue[p], op[p], phase[p])
  BY DEF BellsInv
<1>4. Held(qpd[p], op[p]) = qpd[p].queues_list \cup {qid}
  BY <1>1 DEF Held
<1>5. qid \in Qids /\ qid \notin qpd[p].queues_list /\ q \in Queue /\ q.type # DIQ
  BY <1>1, <1>3, <1>4, SlotFacts, At DEF LocalInv
<1>6. phase'[p] = phase[p]
  BY <1>1 DEF Undone
<1>7. CASE q.type \in SdmaTypes
  <2>1. /\ Rings(qpd'[p], queue'[p], op'[p]) = Rings(qpd[p], queue[p], op[p])
        /\ \A i \in Rings(qpd[p], queue[p], op[p]) : queue'[p][i].doorbell_id = queue[p][i].doorbell_id
    BY <1>2, <1>4, <1>5, <1>7 DEF Rings, SdmaTypes, COMPUTE, SDMA, SDMA_XGMI
  <2>2. qpd'[p].doorbell_bitmap = qpd[p].doorbell_bitmap
    BY <1>1, <1>7 DEF deallocate_doorbell
  <2>3. BellInv(qpd'[p], queue'[p], op'[p], phase'[p])
    BY <1>3, <1>6, <2>1, <2>2, BellsKept
  <2> QED BY <1>2, <2>3, BellsAt
<1>8. CASE q.type \notin SdmaTypes
  <2>1. q.type = COMPUTE
    BY <1>5, <1>8 DEF Queue
  <2>2. /\ Rings(qpd'[p], queue'[p], op'[p]) = Rings(qpd[p], queue[p], op[p]) \ {qid}
        /\ qid \in Rings(qpd[p], queue[p], op[p])
        /\ \A i \in Rings(qpd'[p], queue'[p], op'[p]) : queue'[p][i].doorbell_id = queue[p][i].doorbell_id
    BY <1>2, <1>4, <1>5, <2>1 DEF Rings
  <2>3. qpd'[p].doorbell_bitmap = qpd[p].doorbell_bitmap \ {queue[p][qid].doorbell_id}
    BY <1>1, <1>8 DEF deallocate_doorbell
  <2>4. BellInv(qpd'[p], queue'[p], op'[p], phase'[p])
    BY <1>3, <1>6, <2>2, <2>3, BellDropped
  <2> QED BY <1>2, <2>4, BellsAt
<1> QED BY <1>7, <1>8

LEMMA CreateReserveBells ==
  ASSUME IInv, BellsInv, NEW p \in Procs, create_reserve(p)
  PROVE  BellsInv'
<1> DEFINE q == op[p].qid
<1>1. /\ Only(p) /\ phase'[p] = phase[p] /\ op[p].at = "create" /\ q \in Qids
      /\ op'[p].at = "reserved" /\ op'[p].qid = q
      /\ \A i \in Qids \ {q} : queue'[p][i] = queue[p][i]
      /\ queue'[p][q].type = queue[p][q].type /\ queue[p][q].type # DIQ
      /\ qpd'[p].queues_list = qpd[p].queues_list /\ qpd'[p].diq = qpd[p].diq
      /\ \/ queue[p][q].type \in SdmaTypes /\ qpd'[p].doorbell_bitmap = qpd[p].doorbell_bitmap
         \/ /\ queue[p][q].type = COMPUTE
            /\ queue'[p][q].doorbell_id \in Doorbells \ qpd[p].doorbell_bitmap
            /\ qpd'[p].doorbell_bitmap = qpd[p].doorbell_bitmap \cup {queue'[p][q].doorbell_id}
  BY CreateReserveEffect
<1>2. /\ LocalInv(qpd[p], queue[p], op[p], phase[p]) /\ BellInv(qpd[p], queue[p], op[p], phase[p])
  BY DEF BellsInv
<1>3. /\ Held(qpd[p], op[p]) = qpd[p].queues_list
      /\ Held(qpd'[p], op'[p]) = qpd[p].queues_list \cup {q}
  BY <1>1 DEF Held
<1>4. /\ q \notin qpd[p].queues_list
      /\ \A i \in qpd[p].queues_list : queue'[p][i] = queue[p][i]
      /\ qpd[p].diq # NONE => queue'[p][qpd[p].diq] = queue[p][qpd[p].diq]
  BY <1>1, SlotFacts
<1>5. phase[p] = "live"
  BY <1>1, <1>2 DEF LocalInv
<1>6. LocalInv(qpd'[p], queue'[p], op'[p], phase'[p])
  BY <1>1, <1>2, <1>3, <1>4, <1>5 DEF LocalInv
<1>7. CASE queue[p][q].type \in SdmaTypes /\ qpd'[p].doorbell_bitmap = qpd[p].doorbell_bitmap
  <2>1. /\ Rings(qpd'[p], queue'[p], op'[p]) = Rings(qpd[p], queue[p], op[p])
        /\ \A i \in Rings(qpd[p], queue[p], op[p]) : queue'[p][i].doorbell_id = queue[p][i].doorbell_id
    BY <1>1, <1>3, <1>4, <1>7 DEF Rings, SdmaTypes, COMPUTE, SDMA, SDMA_XGMI
  <2>2. BellInv(qpd'[p], queue'[p], op'[p], phase'[p])
    BY <1>1, <1>2, <1>7, <2>1, BellsKept
  <2> QED BY <1>1, <1>6, <2>2, BellsAt
<1>8. CASE /\ queue[p][q].type = COMPUTE
           /\ queue'[p][q].doorbell_id \in Doorbells \ qpd[p].doorbell_bitmap
           /\ qpd'[p].doorbell_bitmap = qpd[p].doorbell_bitmap \cup {queue'[p][q].doorbell_id}
  <2>1. /\ Rings(qpd'[p], queue'[p], op'[p]) = Rings(qpd[p], queue[p], op[p]) \cup {q}
        /\ q \notin Rings(qpd[p], queue[p], op[p])
        /\ \A i \in Rings(qpd[p], queue[p], op[p]) : queue'[p][i].doorbell_id = queue[p][i].doorbell_id
    BY <1>1, <1>3, <1>4, <1>8 DEF Rings
  <2>2. BellInv(qpd'[p], queue'[p], op'[p], phase'[p])
    BY <1>1, <1>2, <1>8, <2>1, BellAdded
  <2> QED BY <1>1, <1>6, <2>2, BellsAt
<1> QED BY <1>1, <1>7, <1>8

LEMMA CreateQueueBells ==
  ASSUME IInv, BellsInv, NEW p \in Procs, create_queue_cpsch(p)
  PROVE  BellsInv'
<1> DEFINE q == op[p].qid
<1>1. /\ Only(p) /\ phase'[p] = phase[p]
      /\ op[p].at = "reserved" /\ q \in Qids /\ q \notin qpd[p].queues_list /\ q # qpd[p].diq
      /\ op'[p].at = "none"
      /\ \A i \in Qids \ {q} : queue'[p][i] = queue[p][i]
      /\ queue'[p][q].type = queue[p][q].type
      /\ queue'[p][q].doorbell_id = queue[p][q].doorbell_id
      /\ qpd'[p].queues_list = qpd[p].queues_list \cup {q} /\ qpd'[p].diq = qpd[p].diq
      /\ qpd'[p].doorbell_bitmap = qpd[p].doorbell_bitmap
  BY CreateQueueEffect
<1>2. LocalInv(qpd[p], queue[p], op[p], phase[p])
  BY DEF BellsInv
<1>3. /\ Held(qpd[p], op[p]) = qpd[p].queues_list \cup {q}
      /\ Held(qpd'[p], op'[p]) = qpd[p].queues_list \cup {q}
  BY <1>1 DEF Held
<1>4. /\ \A i \in qpd[p].queues_list \cup {q} : /\ queue'[p][i].type = queue[p][i].type
                                                /\ queue'[p][i].doorbell_id = queue[p][i].doorbell_id
      /\ qpd[p].diq # NONE => queue'[p][qpd[p].diq] = queue[p][qpd[p].diq]
  BY <1>1, SlotFacts
<1>5. phase[p] = "live"
  BY <1>1, <1>2 DEF LocalInv
<1>6. LocalInv(qpd'[p], queue'[p], op'[p], phase'[p])
  BY <1>1, <1>2, <1>3, <1>4, <1>5 DEF LocalInv
<1> QED BY <1>1, <1>3, <1>4, <1>6, BellsKeptAt

LEMMA CreateKernelQueueBells ==
  ASSUME IInv, BellsInv, NEW p \in Procs, create_kernel_queue_cpsch(p)
  PROVE  BellsInv'
<1> DEFINE q == op[p].qid
<1>1. /\ Only(p) /\ phase'[p] = phase[p] /\ queue'[p] = queue[p]
      /\ op[p].at = "create" /\ q \in Qids /\ queue[p][q].type = DIQ
      /\ op'[p].at = "none"
      /\ qpd'[p].queues_list = qpd[p].queues_list /\ qpd'[p].diq = q
      /\ qpd'[p].doorbell_bitmap = qpd[p].doorbell_bitmap
  BY CreateKernelQueueEffect
<1>2. LocalInv(qpd[p], queue[p], op[p], phase[p])
  BY DEF BellsInv
<1>3. /\ Held(qpd[p], op[p]) = qpd[p].queues_list
      /\ Held(qpd'[p], op'[p]) = qpd[p].queues_list
  BY <1>1 DEF Held
<1>4. phase[p] = "live"
  BY <1>1, <1>2 DEF LocalInv
<1>5. LocalInv(qpd'[p], queue'[p], op'[p], phase'[p])
  BY <1>1, <1>2, <1>3, <1>4 DEF LocalInv
<1> QED BY <1>1, <1>3, <1>5, BellsKeptAt

LEMMA DestroyQueueBells ==
  ASSUME ~CarriesOn, IInv, BellsInv, NEW p \in Procs, NEW qid \in Qids, destroy_queue_cpsch(p, qid)
  PROVE  BellsInv'
<1> DEFINE q == queue[p][qid]
<1>1. /\ Only(p) /\ phase'[p] = phase[p] /\ queue'[p] = queue[p]
      /\ phase[p] = "live" /\ op[p].at = "none" /\ qid \in qpd[p].queues_list
      /\ op'[p].at \in {"destroyed", "none"}
      /\ qpd'[p].queues_list = qpd[p].queues_list \ {qid} /\ qpd'[p].diq = qpd[p].diq
      /\ qpd'[p].doorbell_bitmap = deallocate_doorbell(qpd[p].doorbell_bitmap, q)
  BY DestroyQueueEffect
<1>2. /\ LocalInv(qpd[p], queue[p], op[p], phase[p]) /\ BellInv(qpd[p], queue[p], op[p], phase[p])
  BY DEF BellsInv
<1>3. /\ Held(qpd[p], op[p]) = qpd[p].queues_list
      /\ Held(qpd'[p], op'[p]) = qpd[p].queues_list \ {qid}
  BY <1>1 DEF Held
<1>4. LocalInv(qpd'[p], queue'[p], op'[p], phase'[p])
  BY <1>1, <1>2, <1>3 DEF LocalInv
<1>5. q \in Queue /\ q.type # DIQ
  BY <1>1, <1>2, <1>3, At DEF LocalInv
<1>6. CASE q.type \in SdmaTypes
  <2>1. Rings(qpd'[p], queue'[p], op'[p]) = Rings(qpd[p], queue[p], op[p])
    BY <1>1, <1>3, <1>6 DEF Rings, SdmaTypes, COMPUTE, SDMA, SDMA_XGMI
  <2>2. qpd'[p].doorbell_bitmap = qpd[p].doorbell_bitmap
    BY <1>1, <1>6 DEF deallocate_doorbell
  <2>3. BellInv(qpd'[p], queue'[p], op'[p], phase'[p])
    BY <1>1, <1>2, <2>1, <2>2, BellsKept
  <2> QED BY <1>1, <1>4, <2>3, BellsAt
<1>7. CASE q.type \notin SdmaTypes
  <2>1. q.type = COMPUTE
    BY <1>5, <1>7 DEF Queue
  <2>2. /\ Rings(qpd'[p], queue'[p], op'[p]) = Rings(qpd[p], queue[p], op[p]) \ {qid}
        /\ qid \in Rings(qpd[p], queue[p], op[p])
    BY <1>1, <1>3, <2>1 DEF Rings
  <2>3. qpd'[p].doorbell_bitmap = qpd[p].doorbell_bitmap \ {queue[p][qid].doorbell_id}
    BY <1>1, <1>7 DEF deallocate_doorbell
  <2>4. BellInv(qpd'[p], queue'[p], op'[p], phase'[p])
    BY <1>1, <1>2, <2>2, <2>3, BellDropped
  <2> QED BY <1>1, <1>4, <2>4, BellsAt
<1> QED BY <1>6, <1>7

LEMMA DestroyKernelQueueBells ==
  ASSUME IInv, BellsInv, NEW p \in Procs, destroy_kernel_queue_cpsch(p)
  PROVE  BellsInv'
<1>1. /\ Only(p) /\ phase'[p] = phase[p] /\ queue'[p] = queue[p]
      /\ phase[p] = "live" /\ op[p].at = "none" /\ op'[p].at = "destroyed"
      /\ qpd'[p].queues_list = qpd[p].queues_list /\ qpd'[p].diq = NONE
      /\ qpd'[p].doorbell_bitmap = qpd[p].doorbell_bitmap
  BY DestroyKernelQueueEffect
<1>2. LocalInv(qpd[p], queue[p], op[p], phase[p])
  BY DEF BellsInv
<1>3. /\ Held(qpd[p], op[p]) = qpd[p].queues_list
      /\ Held(qpd'[p], op'[p]) = qpd[p].queues_list
  BY <1>1 DEF Held
<1>4. LocalInv(qpd'[p], queue'[p], op'[p], phase'[p])
  BY <1>1, <1>2, <1>3 DEF LocalInv
<1> QED BY <1>1, <1>3, <1>4, BellsKeptAt

LEMMA UpdateBeginBells ==
  ASSUME ~CarriesOn, IInv, BellsInv, NEW p \in Procs, NEW qid \in Qids, NEW b \in BOOLEAN,
         pqm_update_queue(p, qid, b) \/ pqm_set_gws(p, qid, b)
  PROVE  BellsInv'
<1>1. /\ Only(p) /\ phase'[p] = phase[p]
      /\ phase[p] = "live" /\ op[p].at = "none"
      /\ qid \in qpd[p].queues_list /\ op'[p].at = "update" /\ op'[p].qid = qid
      /\ \A i \in Qids : /\ queue'[p][i].type = queue[p][i].type
                         /\ queue'[p][i].doorbell_id = queue[p][i].doorbell_id
      /\ qpd'[p].queues_list = qpd[p].queues_list /\ qpd'[p].diq = qpd[p].diq
      /\ qpd'[p].doorbell_bitmap = qpd[p].doorbell_bitmap
  BY UpdateBeginEffect
<1>2. LocalInv(qpd[p], queue[p], op[p], phase[p])
  BY DEF BellsInv
<1>3. /\ Held(qpd[p], op[p]) = qpd[p].queues_list
      /\ Held(qpd'[p], op'[p]) = qpd[p].queues_list
  BY <1>1 DEF Held
<1>4. /\ qpd[p].queues_list \subseteq Qids
      /\ qpd[p].diq # NONE => queue'[p][qpd[p].diq].type = queue[p][qpd[p].diq].type
  BY <1>1, SlotFacts
<1>5. LocalInv(qpd'[p], queue'[p], op'[p], phase'[p])
  BY <1>1, <1>2, <1>3, <1>4 DEF LocalInv
<1> QED BY <1>1, <1>3, <1>4, <1>5, BellsKeptAt

LEMMA UpdateQueueBells ==
  ASSUME IInv, BellsInv, NEW p \in Procs, update_queue(p)
  PROVE  BellsInv'
<1> DEFINE q == op[p].qid
<1>1. /\ Only(p) /\ phase'[p] = phase[p] /\ qpd'[p] = qpd[p]
      /\ op[p].at = "update" /\ q \in Qids /\ op'[p].at = "none"
      /\ \A i \in Qids \ {q} : queue'[p][i] = queue[p][i]
      /\ queue'[p][q].type = queue[p][q].type
      /\ queue'[p][q].doorbell_id = queue[p][q].doorbell_id
  BY UpdateQueueEffect
<1>2. LocalInv(qpd[p], queue[p], op[p], phase[p])
  BY DEF BellsInv
<1>3. /\ Held(qpd[p], op[p]) = qpd[p].queues_list
      /\ Held(qpd'[p], op'[p]) = qpd[p].queues_list
  BY <1>1 DEF Held
<1>4. \A i \in Qids : /\ queue'[p][i].type = queue[p][i].type
                      /\ queue'[p][i].doorbell_id = queue[p][i].doorbell_id
  BY <1>1
<1>5. /\ qpd[p].queues_list \subseteq Qids /\ phase[p] = "live"
      /\ qpd[p].diq # NONE => queue'[p][qpd[p].diq].type = queue[p][qpd[p].diq].type
  BY <1>1, <1>2, <1>4, SlotFacts DEF LocalInv
<1>6. LocalInv(qpd'[p], queue'[p], op'[p], phase'[p])
  BY <1>1, <1>2, <1>3, <1>4, <1>5 DEF LocalInv
<1> QED BY <1>1, <1>3, <1>4, <1>5, <1>6, BellsKeptAt

\* Eviction and restoration.
LEMMA KeptListsBells ==
  ASSUME IInv, BellsInv, NEW p \in Procs, KeptLists(p)
  PROVE  BellsInv'
<1>1. /\ Only(p) /\ phase'[p] = phase[p] /\ op'[p] = op[p]
      /\ \A i \in Qids : /\ queue'[p][i].type = queue[p][i].type
                         /\ queue'[p][i].doorbell_id = queue[p][i].doorbell_id
      /\ qpd'[p].queues_list = qpd[p].queues_list /\ qpd'[p].diq = qpd[p].diq
      /\ qpd'[p].doorbell_bitmap = qpd[p].doorbell_bitmap
  BY DEF KeptLists
<1>2. LocalInv(qpd[p], queue[p], op[p], phase[p])
  BY DEF BellsInv
<1>3. Held(qpd'[p], op'[p]) = Held(qpd[p], op[p]) /\ Held(qpd[p], op[p]) \subseteq Qids
  BY <1>1, SlotFacts DEF Held
<1>4. /\ qpd[p].diq # NONE => queue'[p][qpd[p].diq].type = queue[p][qpd[p].diq].type
      /\ op[p].at = "create" => queue'[p][op[p].qid].type = queue[p][op[p].qid].type
  BY <1>1, SlotFacts
<1>5. LocalInv(qpd'[p], queue'[p], op'[p], phase'[p])
  BY <1>1, <1>2, <1>3, <1>4 DEF LocalInv
<1> QED BY <1>1, <1>3, <1>5, BellsKeptAt

LEMMA ReleaseBells ==
  ASSUME IInv, BellsInv, NEW p \in Procs, release_begin(p) \/ new_process(p)
  PROVE  BellsInv'
<1>1. /\ Only(p) /\ qpd'[p] = qpd[p] /\ queue'[p] = queue[p] /\ op'[p] = op[p]
      /\ \/ /\ phase[p] = "live" /\ op[p].at = "none" /\ qpd[p].diq = NONE
            /\ phase'[p] = "releasing"
         \/ phase[p] = "gone" /\ phase'[p] = "live"
  BY ReleaseEffect
<1>2. LocalInv(qpd[p], queue[p], op[p], phase[p])
  BY DEF BellsInv
<1>3. LocalInv(qpd'[p], queue'[p], op'[p], phase'[p])
  BY <1>1, <1>2 DEF LocalInv
<1>4. BellInv(qpd'[p], queue'[p], op'[p], phase'[p])
  <2>1. CASE phase'[p] = "releasing"
    BY <2>1 DEF BellInv
  <2>2. CASE phase[p] = "gone" /\ phase'[p] = "live"
    <3>1. /\ op[p].at = "none" /\ qpd[p].queues_list = {}
          /\ qpd[p].doorbell_bitmap = ReservedDoorbells
      BY <1>2, <2>2 DEF LocalInv
    <3>2. Rings(qpd'[p], queue'[p], op'[p]) = {}
      BY <1>1, <3>1 DEF Rings, Held
    <3> QED BY <1>1, <3>1, <3>2 DEF BellInv
  <2> QED BY <1>1, <2>1, <2>2
<1> QED BY <1>1, <1>3, <1>4, BellsAt

\* The three steps of the termination: none is of a process that lives.
LEMMA TerminateBells ==
  ASSUME IInv, BellsInv, NEW p \in Procs,
         process_termination_cpsch(p) \/ terminate_free_mqd(p) \/ pqm_uninit(p)
  PROVE  BellsInv'
<1>1. LocalInv(qpd[p], queue[p], op[p], phase[p])
  BY DEF BellsInv
<1>2. CASE process_termination_cpsch(p) \/ terminate_free_mqd(p)
  <2>1. /\ Only(p) /\ phase'[p] = phase[p] /\ queue'[p] = queue[p] /\ qpd'[p].diq = qpd[p].diq
        /\ op'[p].at = "terminating" /\ phase[p] = "releasing"
    BY <1>1, <1>2, TerminateEffect, FreeMqdEffect DEF LocalInv
  <2>2. Held(qpd'[p], op'[p]) = {}
    BY <2>1 DEF Held
  <2>3. LocalInv(qpd'[p], queue'[p], op'[p], phase'[p])
    BY <1>1, <2>1, <2>2 DEF LocalInv
  <2>4. BellInv(qpd'[p], queue'[p], op'[p], phase'[p])
    BY <2>1 DEF BellInv
  <2> QED BY <2>1, <2>3, <2>4, BellsAt
<1>3. CASE pqm_uninit(p)
  <2>1. /\ Only(p) /\ phase'[p] = "gone" /\ op'[p].at = "none"
        /\ qpd'[p].queues_list = {} /\ qpd'[p].diq = NONE
        /\ qpd'[p].doorbell_bitmap = ReservedDoorbells
    BY <1>3, UninitEffect
  <2>2. Held(qpd'[p], op'[p]) = {}
    BY <2>1 DEF Held
  <2>3. LocalInv(qpd'[p], queue'[p], op'[p], phase'[p])
    BY <2>1, <2>2 DEF LocalInv
  <2>4. BellInv(qpd'[p], queue'[p], op'[p], phase'[p])
    BY <2>1 DEF BellInv
  <2> QED BY <2>1, <2>3, <2>4, BellsAt
<1> QED BY <1>2, <1>3

LEMMA InitBells == Init => BellsInv
<1> SUFFICES ASSUME Init, NEW p \in Procs
             PROVE  /\ LocalInv(qpd[p], queue[p], op[p], phase[p])
                    /\ BellInv(qpd[p], queue[p], op[p], phase[p])
  BY DEF BellsInv
<1>1. /\ qpd[p].queues_list = {} /\ qpd[p].diq = NONE
      /\ qpd[p].doorbell_bitmap = ReservedDoorbells
      /\ op[p].at = "none" /\ phase[p] = "live"
  BY DEF Init, FreshQpd, NoOp
<1>2. Held(qpd[p], op[p]) = {}
  BY <1>1 DEF Held
<1> QED BY <1>1, <1>2 DEF LocalInv, BellInv, Rings

LEMMA NextBells ==
  ASSUME ~CarriesOn, IInv, BellsInv, [Next]_vars
  PROVE  BellsInv'
<1>1. CASE UNCHANGED vars
  BY <1>1 DEF vars, BellsInv
<1>2. ASSUME NEW p \in Procs, Call(p) PROVE BellsInv'
  <2>1. CASE create_call(p)
    <3>1. ASSUME NEW type \in Types, NEW on \in BOOLEAN,
                 create_begin(p, type, on)
          PROVE  BellsInv'
      <4>1. type \in {COMPUTE, DIQ} \cup SdmaTypes /\ type # DIQ
        BY OpuQueuesAssumption DEF SdmaTypes, COMPUTE, SDMA, SDMA_XGMI, DIQ
      <4> QED
        BY <3>1, <4>1, CreateBeginBells
    <3>2. CASE DebuggerFree /\ create_begin(p, DIQ, TRUE)
      <4>1. qpd[p].diq = NONE
        BY <3>2 DEF DebuggerFree
      <4> QED BY <3>2, <4>1, CreateBeginBells
    <3> QED
      BY <2>1, <3>1, <3>2 DEF create_call
  <2>2. CASE \E qid \in Qids :
                \/ destroy_queue_cpsch(p, qid)
                \/ \E on \in BOOLEAN : pqm_update_queue(p, qid, on)
                \/ \E gws \in BOOLEAN : pqm_set_gws(p, qid, gws)
    BY <2>2, DestroyQueueBells, UpdateBeginBells
  <2> QED
    BY <1>2, <2>1, <2>2, DestroyKernelQueueBells, ReleaseBells DEF Call
<1>3. ASSUME NEW p \in Procs, Proceed(p) PROVE BellsInv'
  BY <1>3, UndoneBells, CreateReserveBells, CreateNoMqdBells, CreateQueueBells,
     CreateKernelQueueBells, UpdateQueueBells, TerminateBells DEF Proceed
<1>4. ASSUME NEW p \in Procs,
             evict_process_queues_cpsch(p) \/ restore_process_queues_cpsch(p)
      PROVE  BellsInv'
  BY <1>4, EvictEffect, RestoreEffect, KeptListsBells
<1>5. CASE pre_reset \/ stop_cpsch \/ start_cpsch
  BY <1>5, DeviceEffect DEF BellsInv
<1> QED
  BY <1>1, <1>2, <1>3, <1>4, <1>5 DEF Next

\* Two CP queues of a process that lives never ring the same doorbell, a
\* reserved one is not handed out and none is lost: for any number of processes,
\* queues and doorbells, through failing creations and destroys, terminations and
\* the process that follows in the same place, as long as user mode does not
\* destroy a queue again whose destroy failed (its doorbell may be another's by
\* then).
THEOREM DoorbellsAreExclusive ==
  ASSUME ~CarriesOn
  PROVE  Spec => []DoorbellsExclusive
<1>1. IInv /\ BellsInv /\ [Next]_vars => BellsInv'
  BY NextBells
<1>2. BellsInv => DoorbellsExclusive
  <2> SUFFICES ASSUME BellsInv, NEW p \in Procs, phase[p] = "live"
               PROVE  LET cp == {i \in Holding(p) : queue[p][i].type = COMPUTE}
                      IN  /\ \A i, j \in cp :
                                queue[p][i].doorbell_id = queue[p][j].doorbell_id => i = j
                          /\ {queue[p][i].doorbell_id : i \in cp}
                                = qpd[p].doorbell_bitmap \ ReservedDoorbells
    BY DEF DoorbellsExclusive
  <2> DEFINE cp == {i \in Holding(p) : queue[p][i].type = COMPUTE}
  <2>1. cp = Rings(qpd[p], queue[p], op[p])
    BY DEF Rings, Holding, Held
  <2> HIDE DEF cp
  <2>2. /\ \A i \in cp : queue[p][i].doorbell_id \in qpd[p].doorbell_bitmap \ ReservedDoorbells
        /\ \A i, j \in cp : queue[p][i].doorbell_id = queue[p][j].doorbell_id => i = j
        /\ \A k \in qpd[p].doorbell_bitmap \ ReservedDoorbells :
              \E i \in cp : queue[p][i].doorbell_id = k
    BY <2>1 DEF BellsInv, BellInv
  <2>3. {queue[p][i].doorbell_id : i \in cp} = qpd[p].doorbell_bitmap \ ReservedDoorbells
    BY <2>2
  <2> QED BY <2>2, <2>3 DEF cp
<1> QED
  BY <1>1, <1>2, InitBells, Invariance, PTL DEF Spec

-----------------------------------------------------------------------------
(* The list of processes and the run list.                                 *)

\* How often a process is in the list of the dqm, which the run list is built
\* from: at most once, and not when it is being terminated or gone, or lives
\* without queues.  After a failed destroy the process goes on only to its end.
RegInv(n, qp, o, ph, f) ==
  /\ n <= 1
  /\ o.at = "terminating" \/ ph = "gone" => n = 0
  /\ qp.queues_list = {} /\ qp.diq = NONE /\ o.at = "none" /\ ~f => n = 0
  /\ f => o.at \in {"none", "terminating"}

RegsInv == \A p \in Procs : RegInv(dqm.registered[p], qpd[p], op[p], phase[p], failed[p])

\* The firmware has no run list where the dqm knows of none.
Idle(d, h) == d.sched_running /\ ~d.is_hws_hang /\ ~d.active_runlist => h = {}

\* The firmware has the run list run, or none, as active_runlist says.
Faithful(d, h, run) ==
  d.sched_running /\ ~d.is_hws_hang => h = IF d.active_runlist THEN run ELSE {}

\* unmap_queues_cpsch when the firmware obeys or hangs.
LEMMA UnmapIdle ==
  ASSUME UnmapOutcomes \subseteq {"ok", "timeout"},
         NEW d \in Dqm, NEW h, NEW x \in unmap_queues_cpsch(d, h), Idle(d, h)
  PROVE  /\ x.d \in Dqm
         /\ x.d.sched_running /\ ~x.d.is_hws_hang => ~x.d.active_runlist /\ x.h = {}
         /\ x.ret # "0" => x.d.is_hws_hang
<1>1. CASE ~d.sched_running
  BY <1>1 DEF unmap_queues_cpsch, Result
<1>2. CASE d.sched_running /\ d.is_hws_hang
  BY <1>2 DEF unmap_queues_cpsch, Result
<1>3. CASE d.sched_running /\ ~d.is_hws_hang /\ ~d.active_runlist
  BY <1>3 DEF unmap_queues_cpsch, Result, Idle
<1>4. CASE d.sched_running /\ ~d.is_hws_hang /\ d.active_runlist
  <2>1. PICK o \in UnmapOutcomes : x = unmap_result(d, h, o)
    BY <1>4 DEF unmap_queues_cpsch
  <2>2. CASE o = "ok"
    <3>1. x = Result([d EXCEPT !.active_runlist = FALSE], {}, "0")
      BY <2>1, <2>2 DEF unmap_result
    <3> QED BY <3>1 DEF Result, Dqm
  <2>3. CASE o = "timeout"
    <3>1. x = Result([d EXCEPT !.is_hws_hang = TRUE], h, "ETIME")
      BY <2>1, <2>3 DEF unmap_result
    <3> QED BY <3>1 DEF Result, Dqm
  <2> QED BY <2>2, <2>3
<1> QED BY <1>1, <1>2, <1>3, <1>4

LEMMA MapFaithful ==
  ASSUME NEW d \in Dqm, NEW h, NEW run, NEW x \in map_queues_cpsch(d, h, run),
         d.sched_running /\ ~d.is_hws_hang => ~d.active_runlist /\ h = {}
  PROVE  Faithful(x.d, x.h, run)
<1>1. CASE x = Result(d, h, "0")
  BY <1>1 DEF Result, Faithful
<1>2. CASE x = Result([d EXCEPT !.active_runlist = TRUE], run, "0")
  BY <1>2 DEF Result, Faithful, Dqm
<1>3. CASE x = Result(d, h, "ENOMEM")
  BY <1>3 DEF Result, Faithful
<1> QED BY <1>1, <1>2, <1>3 DEF map_queues_cpsch

LEMMA ExecuteFaithful ==
  ASSUME UnmapOutcomes \subseteq {"ok", "timeout"},
         NEW d \in Dqm, NEW h, NEW run, NEW x \in execute_queues_cpsch(d, h, run), Idle(d, h)
  PROVE  Faithful(x.d, x.h, run)
<1>1. CASE d.is_hws_hang
  <2>1. x = Result(d, h, "EIO")
    BY <1>1 DEF execute_queues_cpsch
  <2> QED BY <1>1, <2>1 DEF Result, Faithful
<1>2. CASE ~d.is_hws_hang
  <2>1. PICK u \in unmap_queues_cpsch(d, h) :
           x \in IF u.ret # "0" THEN {u} ELSE map_queues_cpsch(u.d, u.h, run)
    BY <1>2 DEF execute_queues_cpsch
  <2>2. /\ u.d \in Dqm
        /\ u.d.sched_running /\ ~u.d.is_hws_hang => ~u.d.active_runlist /\ u.h = {}
        /\ u.ret # "0" => u.d.is_hws_hang
    BY UnmapIdle
  <2>3. CASE u.ret # "0"
    BY <2>1, <2>2, <2>3 DEF Faithful
  <2>4. CASE u.ret = "0"
    BY <2>1, <2>2, <2>4, MapFaithful
  <2> QED BY <2>3, <2>4
<1> QED BY <1>1, <1>2

\* RunlistFaithful in these words, and what it gives for a dqm with other counts.
LEMMA FaithfulIdle ==
  ASSUME RunlistFaithful
  PROVE  Idle(dqm, hw) /\ \A d : SameSched(dqm, d) => Idle(d, hw)
BY DEF RunlistFaithful, Idle, SameSched

LEMMA FaithfulSettled ==
  ASSUME RunlistFaithful, NEW d, SameSched(dqm, d), Settled(d),
         \A r \in Procs, i \in Qids : Runs(d.registered[r], qpd'[r], queue'[r], i)
                                         <=> Runs(dqm.registered[r], qpd[r], queue[r], i)
  PROVE  RunlistFaithful'
<1>1. Runnable(d, queue', qpd') = Runnable(dqm, queue, qpd)
  BY RunnableEqual
<1>2. dqm' = d /\ hw' = hw
  BY DEF Settled
<1> QED BY <1>1, <1>2 DEF RunlistFaithful, SameSched

\* A new run list, whatever it is made from.
LEMMA SentIsFaithful ==
  ASSUME NEW d \in Dqm, NEW x, dqm' = x.d, hw' = x.h, x.d.registered = d.registered,
         Faithful(x.d, x.h, Runnable(d, queue', qpd'))
  PROVE  RunlistFaithful'
<1>1. Runnable(x.d, queue', qpd') = Runnable(d, queue', qpd')
  BY DEF Runnable
<1> QED BY <1>1 DEF RunlistFaithful, Faithful

LEMMA FaithfulExecuted ==
  ASSUME UnmapOutcomes \subseteq {"ok", "timeout"},
         IInv, RunlistFaithful, NEW d \in Dqm, SameSched(dqm, d), Executed(d)
  PROVE  RunlistFaithful'
<1> DEFINE run == Runnable(d, queue', qpd')
<1>1. PICK x \in execute_queues_cpsch(d, hw, run) : dqm' = x.d /\ hw' = x.h
  BY Zenon DEF Executed
<1>2. run \in SUBSET (Procs \X Qids) /\ hw \in SUBSET (Procs \X Qids)
  BY RunnableType DEF IInv, Base, TypeOK
<1>3. Idle(d, hw)
  BY FaithfulIdle
<1> HIDE DEF run
<1>4. x.d.registered = d.registered
  <2>1. \A e \in Dqm, g \in SUBSET (Procs \X Qids), r \in SUBSET (Procs \X Qids) :
           \A y \in execute_queues_cpsch(e, g, r) : y.d.registered = e.registered
    BY ExecuteFacts
  <2> QED BY <1>1, <1>2, <2>1
<1>5. Faithful(x.d, x.h, run)
  BY <1>3, ExecuteFaithful
<1> QED BY <1>1, <1>4, <1>5, SentIsFaithful DEF run

\* A step of one process.
LEMMA RegsAt ==
  ASSUME RegsInv, NEW p \in Procs, Only(p),
         \A r \in Procs \ {p} : dqm'.registered[r] = dqm.registered[r],
         RegInv(dqm'.registered[p], qpd'[p], op'[p], phase'[p], failed'[p])
  PROVE  RegsInv'
<1>1. \A r \in Procs \ {p} : RegInv(dqm'.registered[r], qpd'[r], op'[r], phase'[r], failed'[r])
  BY DEF RegsInv, Only
<1> QED BY <1>1 DEF RegsInv

LEMMA RegNumbers ==
  ASSUME IInv, NEW p \in Procs
  PROVE  dqm \in Dqm /\ dqm.registered[p] \in Nat
BY DEF IInv, Base, TypeOK, Dqm

\* User mode stops at a failed destroy, and the firmware obeys or hangs.
Careful == ~CarriesOn /\ UnmapOutcomes \subseteq {"ok", "timeout"}

LEMMA CreateBeginRegs ==
  ASSUME Careful, IInv, RegsInv, NEW p \in Procs, NEW on \in BOOLEAN,
         NEW type \in {COMPUTE, DIQ} \cup SdmaTypes, create_begin(p, type, on)
  PROVE  RegsInv' /\ (RunlistFaithful => RunlistFaithful')
<1>1. /\ Only(p) /\ qpd'[p] = qpd[p] /\ phase'[p] = phase[p] /\ failed'[p] = failed[p]
      /\ phase[p] = "live" /\ op[p].at = "none" /\ ~failed[p] /\ op'[p].at = "create"
  BY CreateBeginEffect DEF Careful
<1>2. PICK q \in Qids \ pqm[p].slots : \A i \in Qids \ {q} : queue'[p][i] = queue[p][i]
  BY CreateBeginEffect
<1>3. RegInv(dqm.registered[p], qpd[p], op[p], phase[p], failed[p])
  BY DEF RegsInv
<1>4. q \notin qpd[p].queues_list /\ qpd[p].queues_list \subseteq Qids
  BY SlotFacts
<1>5. dqm \in Dqm /\ dqm.registered[p] \in Nat
  BY RegNumbers
<1>6. CASE NoQueues(p) /\ Settled(register_process(dqm, p))
  <2> DEFINE d == register_process(dqm, p)
  <2>1. /\ d.registered[p] = dqm.registered[p] + 1 /\ SameSched(dqm, d)
        /\ \A r \in Procs \ {p} : d.registered[r] = dqm.registered[r]
    BY <1>5, RegisterFacts
  <2>2. dqm' = d /\ Settled(d)
    BY <1>6 DEF Settled
  <2> HIDE DEF d
  <2>3. dqm.registered[p] = 0
    BY <1>1, <1>3, <1>6 DEF RegInv, NoQueues
  <2>4. RegInv(dqm'.registered[p], qpd'[p], op'[p], phase'[p], failed'[p])
    BY <1>1, <2>1, <2>2, <2>3 DEF RegInv
  <2>5. RegsInv'
    BY <1>1, <2>1, <2>2, <2>4, RegsAt
  <2>6. \A r \in Procs, i \in Qids : Runs(d.registered[r], qpd'[r], queue'[r], i)
                                        <=> Runs(dqm.registered[r], qpd[r], queue[r], i)
    <3>1. qpd[p].queues_list = {} /\ qpd[p].diq = NONE /\ NONE \notin Qids
      BY <1>6, SlotFacts DEF NoQueues
    <3> QED BY <1>1, <2>1, <3>1 DEF Runs, Only
  <2> QED BY <2>1, <2>2, <2>5, <2>6, FaithfulSettled
<1>7. CASE Settled(dqm)
  <2>1. dqm' = dqm
    BY <1>7 DEF Settled
  <2>2. RegInv(dqm'.registered[p], qpd'[p], op'[p], phase'[p], failed'[p])
    BY <1>1, <1>3, <2>1 DEF RegInv
  <2>3. RegsInv'
    BY <1>1, <2>1, <2>2, RegsAt
  <2>4. \A r \in Procs, i \in Qids : Runs(dqm.registered[r], qpd'[r], queue'[r], i)
                                        <=> Runs(dqm.registered[r], qpd[r], queue[r], i)
    BY <1>1, <1>2, <1>4 DEF Runs, Only
  <2>5. SameSched(dqm, dqm)
    BY DEF SameSched
  <2> QED BY <1>7, <2>3, <2>4, <2>5, FaithfulSettled
<1> QED BY <1>6, <1>7, CreateBeginEffect

LEMMA UndoneRegs ==
  ASSUME IInv, RegsInv, NEW p \in Procs, NEW d \in Dqm, Undone(p, d),
         op[p].at \in {"create", "reserved", "destroyed"},
         SameSched(dqm, d), d.registered = dqm.registered
  PROVE  RegsInv' /\ (RunlistFaithful => RunlistFaithful')
<1> DEFINE q == op[p].qid
<1>1. /\ Only(p) /\ phase'[p] = phase[p] /\ failed'[p] = failed[p]
      /\ op'[p].at = "none" /\ q \in Qids
      /\ \A i \in Qids \ {q} : queue'[p][i] = queue[p][i]
      /\ qpd'[p].queues_list = qpd[p].queues_list /\ qpd'[p].diq = qpd[p].diq
  BY DEF Undone
<1>2. RegInv(dqm.registered[p], qpd[p], op[p], phase[p], failed[p])
  BY DEF RegsInv
<1>3. /\ q \notin qpd[p].queues_list /\ qpd[p].queues_list \subseteq Qids
      /\ NONE \notin Qids
  BY SlotFacts
<1>4. dqm \in Dqm /\ dqm.registered[p] \in Nat /\ ~failed[p]
  BY <1>2, RegNumbers DEF RegInv
<1>5. CASE NoQueues(p)
  <2> DEFINE e == unregister_process(d, p)
  <2>1. /\ e.registered[p] = IF d.registered[p] = 0 THEN 0 ELSE d.registered[p] - 1
        /\ SameSched(d, e)
        /\ \A r \in Procs \ {p} : e.registered[r] = d.registered[r]
    BY RegisterFacts
  <2>2. dqm' = e /\ Settled(e)
    BY <1>5 DEF Settled, Undone
  <2> HIDE DEF e
  <2>3. e.registered[p] = 0
    BY <1>2, <1>4, <2>1 DEF RegInv
  <2>4. RegInv(dqm'.registered[p], qpd'[p], op'[p], phase'[p], failed'[p])
    BY <1>1, <1>4, <2>2, <2>3 DEF RegInv
  <2>5. RegsInv'
    BY <1>1, <2>1, <2>2, <2>4, RegsAt
  <2>6. \A r \in Procs, i \in Qids : Runs(e.registered[r], qpd'[r], queue'[r], i)
                                        <=> Runs(dqm.registered[r], qpd[r], queue[r], i)
    <3>1. qpd[p].queues_list = {} /\ qpd[p].diq = NONE
      BY <1>5 DEF NoQueues
    <3> QED BY <1>1, <1>3, <2>1, <3>1 DEF Runs, Only
  <2>7. SameSched(dqm, e)
    BY <2>1 DEF SameSched
  <2> QED BY <2>2, <2>5, <2>6, <2>7, FaithfulSettled
<1>6. CASE ~NoQueues(p)
  <2>1. dqm' = d /\ Settled(d)
    BY <1>6 DEF Settled, Undone
  <2>2. RegInv(dqm'.registered[p], qpd'[p], op'[p], phase'[p], failed'[p])
    BY <1>1, <1>2, <1>6, <2>1 DEF RegInv, NoQueues
  <2>3. RegsInv'
    BY <1>1, <2>1, <2>2, RegsAt
  <2>4. \A r \in Procs, i \in Qids : Runs(d.registered[r], qpd'[r], queue'[r], i)
                                        <=> Runs(dqm.registered[r], qpd[r], queue[r], i)
    BY <1>1, <1>3 DEF Runs, Only
  <2> QED BY <2>1, <2>3, <2>4, FaithfulSettled
<1> QED BY <1>5, <1>6

\* A step that keeps the list of processes and gives the dqm new counters.
LEMMA KeptRegs ==
  ASSUME IInv, RegsInv, NEW p \in Procs, Only(p), NEW d \in Dqm,
         Settled(d) \/ Executed(d), d.registered = dqm.registered,
         RegInv(dqm.registered[p], qpd'[p], op'[p], phase'[p], failed'[p])
  PROVE  RegsInv'
<1>1. dqm'.registered = dqm.registered
  BY AfterCall
<1> QED BY <1>1, RegsAt

LEMMA CreateUndoneRegs ==
  ASSUME IInv, RegsInv, NEW p \in Procs,
         \/ create_refused(p) \/ create_kernel_queue_refused(p)
         \/ destroy_finish(p) \/ create_no_mqd(p)
  PROVE  RegsInv' /\ (RunlistFaithful => RunlistFaithful')
<1>1. dqm \in Dqm /\ SameSched(dqm, dqm)
  BY RegNumbers DEF SameSched
<1>2. CASE create_refused(p) \/ create_kernel_queue_refused(p) \/ destroy_finish(p)
  <2>1. op[p].at \in {"create", "destroyed"} /\ Undone(p, dqm)
    BY <1>2, CreateRefusedEffect, DestroyFinishEffect
  <2> QED BY <1>1, <2>1, UndoneRegs
<1>3. CASE create_no_mqd(p)
  <2> DEFINE q == queue[p][op[p].qid]
             d == deallocate_sdma_queue(dqm, q)
  <2>1. op[p].at = "reserved" /\ op[p].qid \in Qids /\ Undone(p, d)
    BY <1>3, CreateNoMqdEffect
  <2>2. q \in Queue /\ (q.type \in SdmaTypes => q.sdma_id \in SdmaIds)
    BY <2>1, At DEF OpSlot, HasSdmaId
  <2>3. d \in Dqm /\ SameSched(dqm, d) /\ d.registered = dqm.registered
    BY <1>1, <2>2, DeallocateFacts
  <2> HIDE DEF d
  <2> QED BY <2>1, <2>3, UndoneRegs
<1> QED BY <1>2, <1>3

LEMMA CreateReserveRegs ==
  ASSUME IInv, RegsInv, NEW p \in Procs, create_reserve(p)
  PROVE  RegsInv' /\ (RunlistFaithful => RunlistFaithful')
<1> DEFINE q == op[p].qid
<1>1. /\ Only(p) /\ phase'[p] = phase[p] /\ failed'[p] = failed[p]
      /\ op[p].at = "create" /\ op'[p].at = "reserved"
      /\ \A i \in Qids \ {q} : queue'[p][i] = queue[p][i]
      /\ qpd'[p].queues_list = qpd[p].queues_list /\ qpd'[p].diq = qpd[p].diq
  BY CreateReserveEffect
<1>2. PICK d \in Dqm : SameSched(dqm, d) /\ d.registered = dqm.registered /\ Settled(d)
  BY CreateReserveEffect
<1>3. RegInv(dqm.registered[p], qpd[p], op[p], phase[p], failed[p])
  BY DEF RegsInv
<1>4. RegInv(dqm.registered[p], qpd'[p], op'[p], phase'[p], failed'[p])
  BY <1>1, <1>3 DEF RegInv
<1>5. q \notin qpd[p].queues_list /\ qpd[p].queues_list \subseteq Qids
  BY <1>1, SlotFacts
<1>6. \A r \in Procs, i \in Qids : Runs(d.registered[r], qpd'[r], queue'[r], i)
                                      <=> Runs(dqm.registered[r], qpd[r], queue[r], i)
  BY <1>1, <1>2, <1>5 DEF Runs, Only
<1> QED BY <1>1, <1>2, <1>4, <1>6, KeptRegs, FaithfulSettled

LEMMA CreateQueueRegs ==
  ASSUME Careful, IInv, RegsInv, NEW p \in Procs, create_queue_cpsch(p)
  PROVE  RegsInv' /\ (RunlistFaithful => RunlistFaithful')
<1> DEFINE q == op[p].qid
<1>1. /\ Only(p) /\ phase'[p] = phase[p] /\ failed'[p] = failed[p]
      /\ op[p].at = "reserved" /\ op'[p].at = "none" /\ q \notin qpd[p].queues_list
      /\ \A i \in Qids \ {q} : queue'[p][i] = queue[p][i]
      /\ qpd'[p].queues_list = qpd[p].queues_list \cup {q} /\ qpd'[p].diq = qpd[p].diq
  BY CreateQueueEffect
<1>2. PICK d \in Dqm : /\ SameSched(dqm, d) /\ d.registered = dqm.registered
                       /\ IF queue'[p][q].is_active THEN Executed(d) ELSE Settled(d)
  BY CreateQueueEffect
<1>3. RegInv(dqm.registered[p], qpd[p], op[p], phase[p], failed[p])
  BY DEF RegsInv
<1>4. RegInv(dqm.registered[p], qpd'[p], op'[p], phase'[p], failed'[p])
  BY <1>1, <1>3 DEF RegInv
<1>5. qpd[p].queues_list \subseteq Qids
  BY SlotFacts
<1>6. RegsInv'
  BY <1>1, <1>2, <1>4, KeptRegs
<1>7. CASE queue'[p][q].is_active
  BY <1>2, <1>6, <1>7, FaithfulExecuted DEF Careful
<1>8. CASE ~queue'[p][q].is_active
  <2>1. \A r \in Procs, i \in Qids : Runs(d.registered[r], qpd'[r], queue'[r], i)
                                        <=> Runs(dqm.registered[r], qpd[r], queue[r], i)
    BY <1>1, <1>2, <1>5, <1>8 DEF Runs, Only
  <2> QED BY <1>2, <1>6, <1>8, <2>1, FaithfulSettled
<1> QED BY <1>7, <1>8

LEMMA KernelQueueRegs ==
  ASSUME Careful, IInv, RegsInv, NEW p \in Procs,
         create_kernel_queue_cpsch(p) \/ destroy_kernel_queue_cpsch(p)
  PROVE  RegsInv' /\ (RunlistFaithful => RunlistFaithful')
<1>1. RegInv(dqm.registered[p], qpd[p], op[p], phase[p], failed[p])
  BY DEF RegsInv
<1>2. /\ Only(p) /\ phase'[p] = phase[p] /\ failed'[p] = failed[p]
      /\ RegInv(dqm.registered[p], qpd'[p], op'[p], phase'[p], failed'[p])
  <2>1. CASE create_kernel_queue_cpsch(p)
    <3>1. /\ Only(p) /\ phase'[p] = phase[p] /\ failed'[p] = failed[p]
          /\ op[p].at = "create" /\ op'[p].at = "none" /\ qpd'[p].diq \in Qids
      BY <2>1, CreateKernelQueueEffect
    <3> QED BY <1>1, <3>1, IdsAreNumbers DEF RegInv
  <2>2. CASE destroy_kernel_queue_cpsch(p)
    <3>1. /\ Only(p) /\ phase'[p] = phase[p] /\ failed'[p] = failed[p] /\ ~failed[p]
          /\ op[p].at = "none" /\ op'[p].at = "destroyed"
      BY <2>2, DestroyKernelQueueEffect DEF Careful
    <3> QED BY <1>1, <3>1 DEF RegInv
  <2> QED BY <2>1, <2>2
<1>3. PICK d \in Dqm : SameSched(dqm, d) /\ d.registered = dqm.registered /\ Executed(d)
  BY CreateKernelQueueEffect, DestroyKernelQueueEffect
<1> QED BY <1>2, <1>3, KeptRegs, FaithfulExecuted DEF Careful

LEMMA DestroyQueueRegs ==
  ASSUME Careful, IInv, RegsInv, NEW p \in Procs, NEW qid \in Qids, destroy_queue_cpsch(p, qid)
  PROVE  RegsInv' /\ (RunlistFaithful => RunlistFaithful')
<1> DEFINE q == queue[p][qid]
<1>1. /\ Only(p) /\ phase'[p] = phase[p] /\ queue'[p] = queue[p]
      /\ phase[p] = "live" /\ op[p].at = "none" /\ (failed[p] => CarriesOn)
      /\ qpd'[p].queues_list = qpd[p].queues_list \ {qid} /\ qpd'[p].diq = qpd[p].diq
  BY DestroyQueueEffect
<1>2. PICK d \in Dqm : /\ SameSched(dqm, d) /\ d.registered = dqm.registered
                       /\ IF q.is_active THEN Executed(d) ELSE Settled(d)
                       /\ \/ op'[p].at = "destroyed" /\ failed'[p] = failed[p]
                          \/ op'[p].at = "none" /\ failed'[p] = TRUE
  BY DestroyQueueEffect
<1>3. RegInv(dqm.registered[p], qpd[p], op[p], phase[p], failed[p])
  BY DEF RegsInv
<1>4. RegInv(dqm.registered[p], qpd'[p], op'[p], phase'[p], failed'[p])
  BY <1>1, <1>2, <1>3 DEF RegInv, Careful
<1>5. RegsInv'
  BY <1>1, <1>2, <1>4, KeptRegs
<1>6. CASE q.is_active
  BY <1>2, <1>5, <1>6, FaithfulExecuted DEF Careful
<1>7. CASE ~q.is_active
  <2>1. \A r \in Procs, i \in Qids : Runs(d.registered[r], qpd'[r], queue'[r], i)
                                        <=> Runs(dqm.registered[r], qpd[r], queue[r], i)
    BY <1>1, <1>2, <1>7 DEF Runs, Only
  <2> QED BY <1>2, <1>5, <1>7, <2>1, FaithfulSettled
<1> QED BY <1>6, <1>7

LEMMA UpdateBeginRegs ==
  ASSUME Careful, IInv, RegsInv, NEW p \in Procs, NEW qid \in Qids, NEW b \in BOOLEAN,
         pqm_update_queue(p, qid, b) \/ pqm_set_gws(p, qid, b)
  PROVE  RegsInv' /\ (RunlistFaithful => RunlistFaithful')
<1>1. /\ Only(p) /\ phase'[p] = phase[p] /\ failed'[p] = failed[p] /\ ~failed[p]
      /\ op[p].at = "none" /\ op'[p].at = "update"
      /\ \A i \in Qids : queue'[p][i].is_active = queue[p][i].is_active
      /\ qpd'[p].queues_list = qpd[p].queues_list /\ qpd'[p].diq = qpd[p].diq
      /\ Settled(dqm)
  BY UpdateBeginEffect DEF Careful
<1>2. RegInv(dqm.registered[p], qpd[p], op[p], phase[p], failed[p])
  BY DEF RegsInv
<1>3. RegInv(dqm.registered[p], qpd'[p], op'[p], phase'[p], failed'[p])
  BY <1>1, <1>2 DEF RegInv
<1>4. dqm \in Dqm /\ SameSched(dqm, dqm)
  BY RegNumbers DEF SameSched
<1>5. \A r \in Procs, i \in Qids : Runs(dqm.registered[r], qpd'[r], queue'[r], i)
                                      <=> Runs(dqm.registered[r], qpd[r], queue[r], i)
  BY <1>1 DEF Runs, Only
<1> QED BY <1>1, <1>3, <1>4, <1>5, KeptRegs, FaithfulSettled

\* update_queue unmaps, and maps again only what it unmapped.
LEMMA UpdateQueueRegs ==
  ASSUME Careful, IInv, BellsInv, RegsInv, NEW p \in Procs, update_queue(p)
  PROVE  RegsInv' /\ (RunlistFaithful => RunlistFaithful')
<1> DEFINE qid == op[p].qid
           old == queue[p][qid]
           new == queue'[p][qid]
<1>1. /\ Only(p) /\ phase'[p] = phase[p] /\ failed'[p] = failed[p] /\ qpd'[p] = qpd[p]
      /\ op[p].at = "update" /\ op'[p].at = "none"
      /\ \A i \in Qids \ {qid} : queue'[p][i] = queue[p][i]
  BY UpdateQueueEffect
<1>2. PICK u \in unmap_queues_cpsch(dqm, hw) :
         /\ u.d \in Dqm /\ u.d.registered = dqm.registered
         /\ \/ u.ret # "0" /\ dqm' = u.d /\ hw' = u.h /\ new = old
            \/ u.ret = "0" /\ \E d \in Dqm : Recounted(u.d, d, old, new) /\ Mapped(d, u.h)
  BY UpdateQueueEffect
<1>3. dqm'.registered = dqm.registered
  <2>1. CASE \E d \in Dqm : Recounted(u.d, d, old, new) /\ Mapped(d, u.h)
    <3>1. PICK d \in Dqm : Recounted(u.d, d, old, new) /\ Mapped(d, u.h)
      BY <2>1
    <3> DEFINE run == Runnable(d, queue', qpd')
    <3>2. PICK x \in map_queues_cpsch(d, u.h, run) : dqm' = x.d
      BY <3>1, Zenon DEF Mapped
    <3>3. x.d.registered = d.registered
      <4> HIDE DEF run
      <4>1. CASE x = Result(d, u.h, "0")
        BY <4>1 DEF Result
      <4>2. CASE x = Result([d EXCEPT !.active_runlist = TRUE], run, "0")
        BY <4>2 DEF Result, Dqm
      <4>3. CASE x = Result(d, u.h, "ENOMEM")
        BY <4>3 DEF Result
      <4> QED BY <4>1, <4>2, <4>3 DEF map_queues_cpsch
    <3>4. d.registered = u.d.registered
      BY <3>1 DEF Recounted
    <3> QED BY <1>2, <3>2, <3>3, <3>4
  <2> QED BY <1>2, <2>1
<1>4. /\ RegInv(dqm.registered[p], qpd[p], op[p], phase[p], failed[p])
      /\ LocalInv(qpd[p], queue[p], op[p], phase[p])
  BY DEF RegsInv, BellsInv
<1>5. RegInv(dqm.registered[p], qpd'[p], op'[p], phase'[p], failed'[p])
  BY <1>1, <1>4 DEF RegInv, LocalInv
<1>6. RegsInv'
  BY <1>1, <1>3, <1>5, RegsAt
<1>7. ASSUME RunlistFaithful PROVE RunlistFaithful'
  <2>1. /\ u.d.sched_running /\ ~u.d.is_hws_hang => ~u.d.active_runlist /\ u.h = {}
        /\ u.ret # "0" => u.d.is_hws_hang
    BY <1>7, FaithfulIdle, UnmapIdle, RegNumbers DEF Careful
  <2>2. CASE u.ret # "0"
    BY <1>2, <2>1, <2>2 DEF RunlistFaithful
  <2>3. CASE u.ret = "0"
    <3>1. PICK d \in Dqm : Recounted(u.d, d, old, new) /\ Mapped(d, u.h)
      BY <1>2, <2>3
    <3> DEFINE run == Runnable(d, queue', qpd')
    <3>2. PICK x \in map_queues_cpsch(d, u.h, run) : dqm' = x.d /\ hw' = x.h
      BY <3>1, Zenon DEF Mapped
    <3>3. d.sched_running /\ ~d.is_hws_hang => ~d.active_runlist /\ u.h = {}
      BY <2>1, <3>1 DEF Recounted, SameSched
    <3>4. x.d.registered = d.registered
      BY <1>2, <1>3, <3>1, <3>2 DEF Recounted
    <3>5. Faithful(x.d, x.h, run)
      <4> HIDE DEF run
      <4> QED BY <3>2, <3>3, MapFaithful
    <3> QED BY <3>2, <3>4, <3>5, SentIsFaithful
  <2> QED BY <2>2, <2>3
<1> QED BY <1>6, <1>7

\* Eviction and restoration.
LEMMA KeptListsRegs ==
  ASSUME Careful, IInv, RegsInv, NEW p \in Procs, KeptLists(p),
         \/ Settled(dqm) /\ queue'[p] = queue[p]
         \/ \E d \in Dqm : SameSched(dqm, d) /\ d.registered = dqm.registered /\ Executed(d)
  PROVE  RegsInv' /\ (RunlistFaithful => RunlistFaithful')
<1>1. /\ Only(p) /\ phase'[p] = phase[p] /\ failed'[p] = failed[p] /\ op'[p] = op[p]
      /\ qpd'[p].queues_list = qpd[p].queues_list /\ qpd'[p].diq = qpd[p].diq
  BY DEF KeptLists
<1>2. RegInv(dqm.registered[p], qpd[p], op[p], phase[p], failed[p])
  BY DEF RegsInv
<1>3. RegInv(dqm.registered[p], qpd'[p], op'[p], phase'[p], failed'[p])
  BY <1>1, <1>2 DEF RegInv
<1>4. CASE Settled(dqm) /\ queue'[p] = queue[p]
  <2>1. dqm \in Dqm /\ SameSched(dqm, dqm)
    BY RegNumbers DEF SameSched
  <2>2. \A r \in Procs, i \in Qids : Runs(dqm.registered[r], qpd'[r], queue'[r], i)
                                        <=> Runs(dqm.registered[r], qpd[r], queue[r], i)
    BY <1>1, <1>4 DEF Runs, Only
  <2> QED BY <1>1, <1>3, <1>4, <2>1, <2>2, KeptRegs, FaithfulSettled
<1>5. CASE \E d \in Dqm : SameSched(dqm, d) /\ d.registered = dqm.registered /\ Executed(d)
  BY <1>1, <1>3, <1>5, KeptRegs, FaithfulExecuted DEF Careful
<1> QED BY <1>4, <1>5

LEMMA EvictRegs ==
  ASSUME Careful, IInv, RegsInv, NEW p \in Procs,
         evict_process_queues_cpsch(p) \/ restore_process_queues_cpsch(p)
  PROVE  RegsInv' /\ (RunlistFaithful => RunlistFaithful')
<1>1. KeptLists(p)
  BY EvictEffect, RestoreEffect
<1>2. \/ Settled(dqm) /\ queue'[p] = queue[p]
      \/ \E d \in Dqm : SameSched(dqm, d) /\ d.registered = dqm.registered /\ Executed(d)
  BY EvictEffect, RestoreEffect
<1> QED BY <1>1, <1>2, KeptListsRegs

LEMMA ReleaseRegs ==
  ASSUME IInv, BellsInv, RegsInv, NEW p \in Procs, release_begin(p) \/ new_process(p)
  PROVE  RegsInv' /\ (RunlistFaithful => RunlistFaithful')
<1>1. /\ Only(p) /\ qpd'[p] = qpd[p] /\ queue'[p] = queue[p] /\ op'[p] = op[p] /\ Settled(dqm)
      /\ \/ phase[p] = "live" /\ phase'[p] = "releasing" /\ failed'[p] = failed[p]
         \/ phase[p] = "gone" /\ phase'[p] = "live" /\ failed'[p] = FALSE
  BY ReleaseEffect
<1>2. /\ RegInv(dqm.registered[p], qpd[p], op[p], phase[p], failed[p])
      /\ LocalInv(qpd[p], queue[p], op[p], phase[p])
  BY DEF RegsInv, BellsInv
<1>3. RegInv(dqm.registered[p], qpd'[p], op'[p], phase'[p], failed'[p])
  BY <1>1, <1>2 DEF RegInv, LocalInv
<1>4. dqm \in Dqm /\ SameSched(dqm, dqm)
  BY RegNumbers DEF SameSched
<1>5. \A r \in Procs, i \in Qids : Runs(dqm.registered[r], qpd'[r], queue'[r], i)
                                      <=> Runs(dqm.registered[r], qpd[r], queue[r], i)
  BY <1>1 DEF Runs, Only
<1> QED BY <1>1, <1>3, <1>4, <1>5, KeptRegs, FaithfulSettled

LEMMA TerminateRegs ==
  ASSUME Careful, IInv, RegsInv, NEW p \in Procs, process_termination_cpsch(p)
  PROVE  RegsInv' /\ (RunlistFaithful => RunlistFaithful')
<1> DEFINE d == terminate_clear(p)
<1>1. /\ Only(p) /\ phase'[p] = phase[p] /\ failed'[p] = failed[p]
      /\ phase[p] = "releasing" /\ op'[p].at = "terminating"
      /\ dqm'.registered = d.registered /\ (d.registered[p] = 0 => Executed(d))
  BY TerminateEffect
<1>2. /\ d \in Dqm /\ SameSched(dqm, d)
      /\ \A r \in Procs \ {p} : d.registered[r] = dqm.registered[r]
      /\ d.registered[p] = IF dqm.registered[p] = 0 THEN 0 ELSE dqm.registered[p] - 1
  BY TerminateClearFacts
<1>3. RegInv(dqm.registered[p], qpd[p], op[p], phase[p], failed[p]) /\ dqm.registered[p] \in Nat
  BY RegNumbers DEF RegsInv
<1> HIDE DEF d
<1>4. d.registered[p] = 0
  BY <1>2, <1>3 DEF RegInv
<1>5. RegInv(dqm'.registered[p], qpd'[p], op'[p], phase'[p], failed'[p])
  BY <1>1, <1>4 DEF RegInv
<1> QED BY <1>1, <1>2, <1>4, <1>5, RegsAt, FaithfulExecuted DEF Careful

LEMMA TerminatedRegs ==
  ASSUME IInv, RegsInv, NEW p \in Procs, terminate_free_mqd(p) \/ pqm_uninit(p)
  PROVE  RegsInv' /\ (RunlistFaithful => RunlistFaithful')
<1>1. /\ Only(p) /\ failed'[p] = failed[p] /\ op[p].at = "terminating" /\ Settled(dqm)
      /\ op'[p].at \in {"none", "terminating"}
  BY FreeMqdEffect, UninitEffect
<1>2. dqm.registered[p] = 0
  <2>1. RegInv(dqm.registered[p], qpd[p], op[p], phase[p], failed[p])
    BY DEF RegsInv
  <2> QED BY <1>1, <2>1 DEF RegInv
<1>3. RegInv(dqm.registered[p], qpd'[p], op'[p], phase'[p], failed'[p])
  BY <1>1, <1>2 DEF RegInv
<1>4. dqm \in Dqm /\ SameSched(dqm, dqm)
  BY RegNumbers DEF SameSched
<1>5. \A r \in Procs, i \in Qids : Runs(dqm.registered[r], qpd'[r], queue'[r], i)
                                      <=> Runs(dqm.registered[r], qpd[r], queue[r], i)
  BY <1>1, <1>2 DEF Runs, Only
<1> QED BY <1>1, <1>3, <1>4, <1>5, KeptRegs, FaithfulSettled

LEMMA DeviceFaithful ==
  ASSUME Careful, IInv, RunlistFaithful, pre_reset \/ stop_cpsch \/ start_cpsch
  PROVE  RunlistFaithful'
<1>1. dqm \in Dqm /\ dqm' \in Dqm /\ dqm'.registered = dqm.registered
      /\ queue' = queue /\ qpd' = qpd
  BY DeviceEffect
<1>2. CASE pre_reset
  <2>1. SameSched(dqm, dqm') /\ hw' = hw
    BY <1>1, <1>2 DEF pre_reset, SameSched, Dqm
  <2>2. Runnable(dqm', queue', qpd') = Runnable(dqm, queue, qpd)
    BY <1>1 DEF Runnable
  <2> QED BY <2>1, <2>2 DEF RunlistFaithful, SameSched
<1>3. CASE stop_cpsch
  <2>1. PICK u \in IF dqm.is_hws_hang THEN {Result(dqm, hw, "EIO")}
                   ELSE unmap_queues_cpsch(dqm, hw) :
           dqm' = [u.d EXCEPT !.sched_running = FALSE]
    BY <1>3 DEF stop_cpsch
  <2>2. u.d \in Dqm
    <3>1. Result(dqm, hw, "EIO").d = dqm /\ hw \in SUBSET (Procs \X Qids)
      BY DEF Result, IInv, Base, TypeOK
    <3> QED BY <1>1, <2>1, <3>1, UnmapFacts
  <2>3. ~dqm'.sched_running
    BY <2>1, <2>2 DEF Dqm
  <2> QED BY <2>3 DEF RunlistFaithful
<1>4. CASE start_cpsch
  <2> DEFINE d == [dqm EXCEPT !.is_hws_hang = FALSE, !.is_resetting = FALSE,
                              !.sched_running = TRUE]
             run == Runnable(d, queue, qpd)
             none == {}
  <2>1. d \in Dqm /\ d.registered = dqm.registered
    BY <1>1 DEF Dqm
  <2>2. PICK x \in execute_queues_cpsch(d, none, run) : dqm' = x.d /\ hw' = x.h
    BY <1>4 DEF start_cpsch
  <2>3. Idle(d, none)
    BY DEF Idle
  <2>4. run = Runnable(d, queue', qpd')
    BY <1>1
  <2>5. x.d.registered = d.registered
    BY <1>1, <2>1, <2>2
  <2> HIDE DEF d, run, none
  <2>6. Faithful(x.d, x.h, run)
    BY <2>1, <2>2, <2>3, ExecuteFaithful DEF Careful
  <2> QED BY <2>1, <2>2, <2>4, <2>5, <2>6, SentIsFaithful
<1> QED BY <1>2, <1>3, <1>4

LEMMA DeviceRegs ==
  ASSUME IInv, RegsInv, pre_reset \/ stop_cpsch \/ start_cpsch
  PROVE  RegsInv'
BY DeviceEffect DEF RegsInv

LEMMA NextRegs ==
  ASSUME Careful, IInv, BellsInv, RegsInv, [Next]_vars
  PROVE  RegsInv' /\ (RunlistFaithful => RunlistFaithful')
<1>1. CASE UNCHANGED vars
  BY <1>1 DEF vars, RegsInv, RunlistFaithful, Runnable
<1> DEFINE G == RegsInv' /\ (RunlistFaithful => RunlistFaithful')
<1>2. ASSUME NEW p \in Procs, Call(p) PROVE G
  <2>1. CASE create_call(p)
    <3>1. ASSUME NEW type \in Types, NEW on \in BOOLEAN,
                 create_begin(p, type, on)
          PROVE  G
      <4>1. type \in {COMPUTE, DIQ} \cup SdmaTypes
        BY OpuQueuesAssumption
      <4> QED
        BY <3>1, <4>1, CreateBeginRegs
    <3>2. CASE create_begin(p, DIQ, TRUE)
      BY <3>2, CreateBeginRegs
    <3> HIDE DEF G
    <3> QED
      BY <2>1, <3>1, <3>2 DEF create_call
  <2>2. CASE \E qid \in Qids :
                \/ destroy_queue_cpsch(p, qid)
                \/ \E on \in BOOLEAN : pqm_update_queue(p, qid, on)
                \/ \E gws \in BOOLEAN : pqm_set_gws(p, qid, gws)
    BY <2>2, DestroyQueueRegs, UpdateBeginRegs
  <2>3. destroy_kernel_queue_cpsch(p) \/ release_begin(p) \/ new_process(p) => G
    BY KernelQueueRegs, ReleaseRegs
  <2> HIDE DEF G
  <2> QED
    BY <1>2, <2>1, <2>2, <2>3 DEF Call
<1>3. ASSUME NEW p \in Procs, Proceed(p) PROVE G
  BY <1>3, CreateUndoneRegs, CreateReserveRegs, CreateQueueRegs,
     KernelQueueRegs, UpdateQueueRegs, TerminateRegs, TerminatedRegs DEF Proceed
<1>4. ASSUME NEW p \in Procs,
             evict_process_queues_cpsch(p) \/ restore_process_queues_cpsch(p)
      PROVE  G
  BY <1>4, EvictRegs
<1>5. CASE pre_reset \/ stop_cpsch \/ start_cpsch
  BY <1>5, DeviceRegs, DeviceFaithful
<1> QED
  BY <1>1, <1>2, <1>3, <1>4, <1>5 DEF Next

\* While the scheduler runs and does not hang, the firmware executes the active
\* queues of the registered processes or nothing, as active_runlist says: for any
\* number of processes and queues, with allocations and run lists that fail,
\* nested evictions, late ones included, hangs, suspends and resets.  The
\* hypothesis is that an unmap request is obeyed or times out, and that user mode
\* gives up after a failed destroy: an unmap that cannot be sent leaves the old
\* run list, with queues that are gone, and a process that carries on can be
\* registered twice.
THEOREM FirmwareRunsTheList ==
  ASSUME ~CarriesOn, UnmapOutcomes \subseteq {"ok", "timeout"}
  PROVE  Spec => []RunlistFaithful
<1>1. IInv /\ BellsInv /\ [Next]_vars => BellsInv'
  BY NextBells
<1>2. Careful
  BY DEF Careful
<1>3. IInv /\ BellsInv /\ RegsInv /\ RunlistFaithful /\ [Next]_vars => RegsInv' /\ RunlistFaithful'
  BY <1>2, NextRegs
<1>4. Init => RegsInv /\ RunlistFaithful
  <2> SUFFICES ASSUME Init PROVE RegsInv /\ RunlistFaithful
    OBVIOUS
  <2>1. ~dqm.active_runlist /\ hw = {}
    BY DEF Init
  <2>2. \A p \in Procs : /\ dqm.registered[p] = 0 /\ op[p].at = "none"
                         /\ failed[p] = FALSE /\ phase[p] = "live"
    BY DEF Init, NoOp
  <2> QED BY <2>1, <2>2 DEF RegsInv, RegInv, RunlistFaithful
<1> QED
  BY <1>1, <1>3, <1>4, InitBells, Invariance, PTL DEF Spec

-----------------------------------------------------------------------------
(* The counters.                                                           *)

\* Arithmetic of unsigned counters that do not wrap.
LEMMA ModTimes ==
  ASSUME NEW u \in Nat \ {0}, NEW a \in 0..(u - 1), NEW k \in Nat
  PROVE  (a + k * u) % u = a
<1> DEFINE z == a + k * u
           m == z % u
           q == z \div u
<1>1. z \in Nat
  OBVIOUS
<1>2. m \in 0..(u - 1) /\ q \in Int /\ z = u * q + m
  BY <1>1
<1> HIDE DEF m, q
<1>3. u * (q - k) = a - m
  BY <1>2
<1>4. q - k = 0
  <2> DEFINE t == q - k
  <2>1. t \in Int /\ u * t = a - m
    BY <1>2, <1>3
  <2> HIDE DEF t
  <2>2. t < 1
    <3>1. t >= 1 => u * t >= u
      BY <2>1
    <3> QED BY <1>2, <2>1, <3>1
  <2>3. t > -1
    <3>1. t <= -1 => u * t <= -u
      BY <2>1
    <3> QED BY <1>2, <2>1, <3>1
  <2> QED BY <2>1, <2>2, <2>3 DEF t
<1> QED BY <1>2, <1>3, <1>4

LEMMA CounterArithmetic ==
  ASSUME NEW n \in Counter, NEW k \in Nat
  PROVE  /\ n + k < UINT => (n + k) % UINT = n + k
         /\ k <= n => Sub(n, k) = n - k
         /\ Inc(n) = (n + 1) % UINT /\ Dec(n) = Sub(n, 1)
<1>1. UINT \in Nat \ {0} /\ n \in 0..(UINT - 1)
  BY OpuQueuesAssumption DEF Counter
<1>2. ASSUME k <= n PROVE Sub(n, k) = n - k
  <2>1. n - k \in 0..(UINT - 1)
    BY <1>1, <1>2
  <2>2. n + k * (UINT - 1) = (n - k) + k * UINT
    BY <1>1
  <2> QED BY <1>1, <2>1, <2>2, ModTimes DEF Sub
<1>3. ASSUME n + k < UINT PROVE (n + k) % UINT = n + k
  BY <1>1, <1>3
<1>4. Dec(n) = Sub(n, 1)
  BY <1>1 DEF Dec, Sub
<1> QED BY <1>2, <1>3, <1>4 DEF Inc

\* The queues a family of sets of slots stands for.
Pairs(F) == {x \in Procs \X Qids : x[2] \in F[x[1]]}

LEMMA PairsFinite ==
  ASSUME NEW F
  PROVE  /\ IsFiniteSet(Pairs(F)) /\ Cardinality(Pairs(F)) \in Nat
         /\ IsFiniteSet(Procs \X Qids) /\ Cardinality(Procs \X Qids) \in Nat
         /\ Cardinality(Pairs(F)) <= Cardinality(Procs \X Qids)
<1>1. IsFiniteSet(Procs \X Qids)
  BY OpuQueuesAssumption, FiniteSlots, FS_Product
<1>2. Pairs(F) \subseteq Procs \X Qids
  BY DEF Pairs
<1> QED BY <1>1, <1>2, FS_Subset, FS_CardinalityType

\* One process gets more slots.
LEMMA PairsAdded ==
  ASSUME NEW F, NEW G, NEW p \in Procs, NEW T \in SUBSET Qids,
         \A r \in Procs \ {p} : G[r] = F[r],
         T \cap F[p] = {}, G[p] = F[p] \cup T
  PROVE  Cardinality(Pairs(G)) = Cardinality(Pairs(F)) + Cardinality(T)
<1> DEFINE N == {<<p, i>> : i \in T}
           A == Pairs(F)
           B == Pairs(G)
<1>1. B = A \cup N
  <2>1. \A x \in Procs \X Qids : x[1] \in Procs /\ x[2] \in Qids /\ x = <<x[1], x[2]>>
    OBVIOUS
  <2>2. \A x : x \in B => x \in A \cup N
    <3> SUFFICES ASSUME NEW x \in B PROVE x \in A \cup N
      OBVIOUS
    <3>1. x \in Procs \X Qids /\ x[2] \in G[x[1]]
      BY DEF Pairs
    <3>2. CASE x[1] = p
      BY <2>1, <3>1, <3>2 DEF Pairs
    <3>3. CASE x[1] # p
      BY <2>1, <3>1, <3>3 DEF Pairs
    <3> QED BY <3>2, <3>3
  <2>3. A \subseteq B
    BY <2>1 DEF Pairs
  <2>4. N \subseteq B
    BY DEF Pairs
  <2> QED BY <2>2, <2>3, <2>4
<1>2. A \cap N = {}
  BY DEF Pairs
<1>3. IsFiniteSet(T) /\ IsFiniteSet(A) /\ Cardinality(T) \in Nat
  BY PairsFinite, FiniteSlots, FS_Subset, FS_CardinalityType
<1>4. IsFiniteSet(N) /\ Cardinality(N) = Cardinality(T)
  <2> DEFINE f == [i \in T |-> <<p, i>>]
  <2>1. f \in Bijection(T, N)
    <3>1. f \in [T -> N] /\ \A i \in T : f[i] = <<p, i>>
      OBVIOUS
    <3>2. \A i, j \in T : f[i] = f[j] => i = j
      BY <3>1
    <3>3. \A x \in N : \E i \in T : f[i] = x
      BY <3>1
    <3> HIDE DEF f, N
    <3> QED BY <3>1, <3>2, <3>3 DEF Bijection, Injection, Surjection, IsInjective
  <2>2. ExistsBijection(T, N)
    BY <2>1 DEF ExistsBijection
  <2> HIDE DEF N
  <2> QED BY <1>3, <2>2, FS_Bijection
<1> HIDE DEF A, B, N
<1>5. Cardinality(A \cup N) = Cardinality(A) + Cardinality(N) - Cardinality(A \cap N)
  BY <1>3, <1>4, FS_Union
<1>6. Cardinality(A \cap N) = 0 /\ Cardinality(A) \in Nat
  BY <1>2, <1>3, FS_EmptySet, FS_CardinalityType
<1> QED BY <1>1, <1>3, <1>4, <1>5, <1>6 DEF A, B

\* One process loses slots.
LEMMA PairsDropped ==
  ASSUME NEW F, NEW G, NEW p \in Procs, NEW T \in SUBSET Qids,
         \A r \in Procs \ {p} : G[r] = F[r],
         T \subseteq F[p], G[p] = F[p] \ T
  PROVE  /\ Cardinality(T) \in Nat /\ Cardinality(T) <= Cardinality(Pairs(F))
         /\ Cardinality(Pairs(G)) = Cardinality(Pairs(F)) - Cardinality(T)
<1>1. Cardinality(Pairs(F)) = Cardinality(Pairs(G)) + Cardinality(T)
  <2>1. \A r \in Procs \ {p} : F[r] = G[r]
    OBVIOUS
  <2>2. T \cap G[p] = {}
    OBVIOUS
  <2>3. F[p] = G[p] \cup T
    OBVIOUS
  <2>4. \A A, B : /\ \A r \in Procs \ {p} : B[r] = A[r]
                  /\ T \cap A[p] = {}
                  /\ B[p] = A[p] \cup T
                  => Cardinality(Pairs(B)) = Cardinality(Pairs(A)) + Cardinality(T)
    BY PairsAdded
  <2> QED BY <2>1, <2>2, <2>3, <2>4
<1>2. Cardinality(T) \in Nat
  BY FiniteSlots, FS_Subset, FS_CardinalityType
<1> QED BY <1>1, <1>2, PairsFinite

\* A counter goes from n to m as a set of slots goes from S to R: nothing
\* happens, or slots come, or slots go.
Moves(n, m, S, R) ==
  \/ R = S /\ m = n
  \/ \E T \in SUBSET Qids : T \cap S = {} /\ R = S \cup T /\ m = (n + Cardinality(T)) % UINT
  \/ \E T \in SUBSET Qids : T \subseteq S /\ R = S \ T /\ m = Sub(n, Cardinality(T))

\* unsigned int is wide enough to count all queues there can be.
Wide == Cardinality(Procs \X Qids) < UINT

\* A counter of the device that follows the slots of one process stays exact.
LEMMA MovesExact ==
  ASSUME Wide, NEW F, NEW G, NEW p \in Procs, \A r \in Procs \ {p} : G[r] = F[r],
         NEW n, NEW m, n = Cardinality(Pairs(F)), Moves(n, m, F[p], G[p])
  PROVE  m = Cardinality(Pairs(G))
<1> DEFINE a == Cardinality(Pairs(F))
           b == Cardinality(Pairs(G))
<1>1. a \in Counter /\ b \in Counter /\ b < UINT /\ UINT \in Nat
  <2>1. /\ a \in Nat /\ a <= Cardinality(Procs \X Qids)
        /\ b \in Nat /\ b <= Cardinality(Procs \X Qids)
        /\ Cardinality(Procs \X Qids) \in Nat
    BY PairsFinite
  <2> HIDE DEF a, b
  <2> QED BY <2>1, OpuQueuesAssumption DEF Counter, Wide
<1>2. CASE G[p] = F[p] /\ m = n
  <2>1. Pairs(G) = Pairs(F)
    <3>1. \A x \in Procs \X Qids : G[x[1]] = F[x[1]]
      BY <1>2
    <3> QED BY <3>1 DEF Pairs
  <2> QED BY <1>2, <2>1
<1>3. ASSUME NEW T \in SUBSET Qids, T \cap F[p] = {}, G[p] = F[p] \cup T,
             m = (n + Cardinality(T)) % UINT
      PROVE  m = b
  <2>1. b = a + Cardinality(T) /\ Cardinality(T) \in Nat
    BY <1>3, PairsAdded, FiniteSlots
  <2> HIDE DEF a, b
  <2>2. n = a
    BY DEF a
  <2> QED BY <1>1, <1>3, <2>1, <2>2, CounterArithmetic
<1>4. ASSUME NEW T \in SUBSET Qids, T \subseteq F[p], G[p] = F[p] \ T,
             m = Sub(n, Cardinality(T))
      PROVE  m = b
  <2>1. b = a - Cardinality(T) /\ Cardinality(T) \in Nat /\ Cardinality(T) <= a
    <3>1. /\ Cardinality(T) \in Nat /\ Cardinality(T) <= Cardinality(Pairs(F))
          /\ Cardinality(Pairs(G)) = Cardinality(Pairs(F)) - Cardinality(T)
      BY <1>4, PairsDropped
    <3> QED BY <3>1
  <2> HIDE DEF a, b
  <2>2. n = a
    BY DEF a
  <2> QED BY <1>1, <1>4, <2>1, <2>2, CounterArithmetic
<1> QED BY <1>2, <1>3, <1>4 DEF Moves

\* A counter of one process stays exact.
LEMMA MovesCard ==
  ASSUME Wide, NEW p \in Procs, NEW S \in SUBSET Qids, NEW R \in SUBSET Qids,
         NEW n, NEW m, n = Cardinality(S), Moves(n, m, S, R)
  PROVE  m = Cardinality(R)
<1>1. \A U \in SUBSET Qids : /\ IsFiniteSet(U) /\ Cardinality(U) \in Nat
                             /\ Cardinality(U) < UINT /\ Cardinality(U) \in Counter
  <2>1. /\ IsFiniteSet(Procs) /\ IsFiniteSet(Qids) /\ UINT \in Nat
        /\ Cardinality(Procs) \in Nat /\ Cardinality(Qids) \in Nat
    BY OpuQueuesAssumption, FiniteSlots, FS_CardinalityType
  <2>2. Cardinality(Procs) # 0
    BY <2>1, FS_EmptySet
  <2>3. Cardinality(Procs \X Qids) = Cardinality(Procs) * Cardinality(Qids)
    BY <2>1, FS_Product
  <2>4. \A x, y \in Nat : x # 0 => y <= x * y
    OBVIOUS
  <2>5. Cardinality(Qids) < UINT
    BY <2>1, <2>2, <2>3, <2>4 DEF Wide
  <2> SUFFICES ASSUME NEW U \in SUBSET Qids
               PROVE  /\ IsFiniteSet(U) /\ Cardinality(U) \in Nat
                      /\ Cardinality(U) < UINT /\ Cardinality(U) \in Counter
    OBVIOUS
  <2>6. IsFiniteSet(U) /\ Cardinality(U) \in Nat /\ Cardinality(U) <= Cardinality(Qids)
    BY <2>1, FiniteSlots, FS_Subset
  <2> QED BY <2>1, <2>5, <2>6 DEF Counter
<1>2. ASSUME NEW T \in SUBSET Qids, T \cap S = {}, R = S \cup T,
             m = (n + Cardinality(T)) % UINT
      PROVE  m = Cardinality(R)
  <2>1. Cardinality(S \cup T) = Cardinality(S) + Cardinality(T) - Cardinality(S \cap T)
    BY <1>1, FS_Union
  <2>2. Cardinality(S \cap T) = 0
    BY <1>2, FS_EmptySet
  <2>3. Cardinality(R) = n + Cardinality(T)
    BY <1>1, <1>2, <2>1, <2>2
  <2> QED BY <1>1, <1>2, <2>3, CounterArithmetic
<1>3. ASSUME NEW T \in SUBSET Qids, T \subseteq S, R = S \ T,
             m = Sub(n, Cardinality(T))
      PROVE  m = Cardinality(R)
  <2>1. Cardinality(S \ T) = Cardinality(S) - Cardinality(S \cap T)
    BY <1>1, FS_Difference
  <2>2. S \cap T = T
    BY <1>3
  <2>3. Cardinality(R) = n - Cardinality(T) /\ Cardinality(T) <= n
    BY <1>1, <1>3, <2>1, <2>2, FS_Subset
  <2> QED BY <1>1, <1>3, <2>3, CounterArithmetic
<1> QED BY <1>2, <1>3 DEF Moves

\* One queue comes, one queue goes.
LEMMA MovesUp ==
  ASSUME NEW n, NEW m, NEW S, NEW R, NEW q,
         n \in Counter, q \in Qids, q \notin S, m = Inc(n), R = S \cup {q}
  PROVE  Moves(n, m, S, R)
<1>1. Cardinality({q}) = 1 /\ {q} \in SUBSET Qids
  BY FS_Singleton
<1>2. m = (n + Cardinality({q})) % UINT
  BY <1>1, CounterArithmetic
<1>3. {q} \cap S = {}
  OBVIOUS
<1> QED BY <1>1, <1>2, <1>3 DEF Moves

LEMMA MovesDown ==
  ASSUME NEW n, NEW m, NEW S, NEW R, NEW q,
         n \in Counter, q \in Qids, q \in S, m = Dec(n), R = S \ {q}
  PROVE  Moves(n, m, S, R)
<1>1. Cardinality({q}) = 1 /\ {q} \in SUBSET Qids
  BY FS_Singleton
<1>2. m = Sub(n, Cardinality({q}))
  BY <1>1, CounterArithmetic
<1>3. {q} \subseteq S
  OBVIOUS
<1> QED BY <1>1, <1>2, <1>3 DEF Moves

LEMMA MovesKept ==
  ASSUME NEW n, NEW m, NEW S, NEW R, m = n, R = S
  PROVE  Moves(n, m, S, R)
BY DEF Moves

\* The slots of a process that each counter stands for.
Acct(qp, o) ==
  {i \in Qids : o.at # "terminating" /\ (i \in qp.queues_list \/ i = qp.diq)}
Act(qp, qs, o) == {i \in Acct(qp, o) : i = qp.diq \/ qs[i].is_active}
ActCp(qp, qs, o) == {i \in Act(qp, qs, o) : is_cp(qs[i].type)}

AcctOf == [p \in Procs |-> Acct(qpd[p], op[p])]
ActOf == [p \in Procs |-> Act(qpd[p], queue[p], op[p])]
ActCpOf == [p \in Procs |-> ActCp(qpd[p], queue[p], op[p])]

\* CountersExact, over these.
CountInv ==
  /\ dqm.active_queue_count = Cardinality(Pairs(ActOf))
  /\ dqm.active_cp_queue_count = Cardinality(Pairs(ActCpOf))
  /\ dqm.total_queue_count = Cardinality(Pairs(AcctOf))
  /\ \A p \in Procs : qpd[p].queue_count = Cardinality(qpd[p].queues_list)

LEMMA CountersMeaning == CountInv <=> CountersExact
<1>1. \A x \in Procs \X Qids : x[1] \in Procs /\ x[2] \in Qids
  OBVIOUS
<1>2. Pairs(AcctOf) = Accounted
  BY <1>1 DEF Pairs, AcctOf, Acct, Accounted
<1>3. Pairs(ActOf) = Active
  BY <1>1 DEF Pairs, ActOf, Act, Acct, Active, Accounted
<1>4. Pairs(ActCpOf) = {x \in Active : queue[x[1]][x[2]].type \in {COMPUTE, DIQ}}
  BY <1>1 DEF Pairs, ActCpOf, ActCp, Act, Acct, Active, Accounted, is_cp
<1> QED BY <1>2, <1>3, <1>4 DEF CountInv, CountersExact

\* A step that changes one process and moves the counters accordingly.
CountStep(p) ==
  /\ Only(p)
  /\ Moves(dqm.active_queue_count, dqm'.active_queue_count,
           Act(qpd[p], queue[p], op[p]), Act(qpd'[p], queue'[p], op'[p]))
  /\ Moves(dqm.active_cp_queue_count, dqm'.active_cp_queue_count,
           ActCp(qpd[p], queue[p], op[p]), ActCp(qpd'[p], queue'[p], op'[p]))
  /\ Moves(dqm.total_queue_count, dqm'.total_queue_count,
           Acct(qpd[p], op[p]), Acct(qpd'[p], op'[p]))
  /\ Moves(qpd[p].queue_count, qpd'[p].queue_count, qpd[p].queues_list, qpd'[p].queues_list)

LEMMA CountsAt ==
  ASSUME Wide, IInv, IInv', CountInv, NEW p \in Procs, CountStep(p)
  PROVE  CountInv'
<1>1. dqm'.active_queue_count = Cardinality(Pairs(ActOf'))
  <2>1. /\ ActOf'[p] = Act(qpd'[p], queue'[p], op'[p]) /\ ActOf[p] = Act(qpd[p], queue[p], op[p])
        /\ \A r \in Procs \ {p} : ActOf'[r] = ActOf[r]
    BY DEF ActOf, CountStep, Only
  <2>2. dqm.active_queue_count = Cardinality(Pairs(ActOf))
    BY DEF CountInv
  <2>3. Moves(dqm.active_queue_count, dqm'.active_queue_count, ActOf[p], ActOf'[p])
    BY <2>1 DEF CountStep
  <2> QED BY <2>1, <2>2, <2>3, MovesExact
<1>2. dqm'.active_cp_queue_count = Cardinality(Pairs(ActCpOf'))
  <2>1. /\ ActCpOf'[p] = ActCp(qpd'[p], queue'[p], op'[p])
        /\ ActCpOf[p] = ActCp(qpd[p], queue[p], op[p])
        /\ \A r \in Procs \ {p} : ActCpOf'[r] = ActCpOf[r]
    BY DEF ActCpOf, CountStep, Only
  <2>2. dqm.active_cp_queue_count = Cardinality(Pairs(ActCpOf))
    BY DEF CountInv
  <2>3. Moves(dqm.active_cp_queue_count, dqm'.active_cp_queue_count, ActCpOf[p], ActCpOf'[p])
    BY <2>1 DEF CountStep
  <2> QED BY <2>1, <2>2, <2>3, MovesExact
<1>3. dqm'.total_queue_count = Cardinality(Pairs(AcctOf'))
  <2>1. /\ AcctOf'[p] = Acct(qpd'[p], op'[p]) /\ AcctOf[p] = Acct(qpd[p], op[p])
        /\ \A r \in Procs \ {p} : AcctOf'[r] = AcctOf[r]
    BY DEF AcctOf, CountStep, Only
  <2>2. dqm.total_queue_count = Cardinality(Pairs(AcctOf))
    BY DEF CountInv
  <2>3. Moves(dqm.total_queue_count, dqm'.total_queue_count, AcctOf[p], AcctOf'[p])
    BY <2>1 DEF CountStep
  <2> QED BY <2>1, <2>2, <2>3, MovesExact
<1>4. \A r \in Procs : qpd'[r].queue_count = Cardinality(qpd'[r].queues_list)
  <2>1. /\ qpd[p].queue_count = Cardinality(qpd[p].queues_list)
        /\ \A r \in Procs : qpd[r].queue_count = Cardinality(qpd[r].queues_list)
    BY DEF CountInv
  <2>2. qpd[p].queues_list \in SUBSET Qids /\ qpd'[p].queues_list \in SUBSET Qids
    BY DEF IInv, Base, TypeOK, Qpd
  <2>3. Moves(qpd[p].queue_count, qpd'[p].queue_count, qpd[p].queues_list, qpd'[p].queues_list)
    BY DEF CountStep
  <2>4. qpd'[p].queue_count = Cardinality(qpd'[p].queues_list)
    BY <2>1, <2>2, <2>3, MovesCard
  <2> QED BY <2>1, <2>4 DEF CountStep, Only
<1> QED BY <1>1, <1>2, <1>3, <1>4 DEF CountInv

LEMMA CounterTypes ==
  ASSUME IInv, NEW p \in Procs
  PROVE  /\ dqm \in Dqm /\ dqm.active_queue_count \in Counter
         /\ dqm.active_cp_queue_count \in Counter /\ dqm.total_queue_count \in Counter
         /\ qpd[p].queue_count \in Counter
BY DEF IInv, Base, TypeOK, Dqm, Qpd

\* A step that leaves the lists of a process, or what they count for, alone.
LEMMA QuietStep ==
  ASSUME IInv, NEW p \in Procs, Only(p), SameCounts(dqm, dqm'),
         qpd'[p].queue_count = qpd[p].queue_count,
         qpd'[p].queues_list = qpd[p].queues_list, qpd'[p].diq = qpd[p].diq,
         (op'[p].at = "terminating") <=> (op[p].at = "terminating"),
         \A i \in Qids : i \in qpd[p].queues_list \/ i = qpd[p].diq =>
            queue'[p][i].is_active = queue[p][i].is_active /\ queue'[p][i].type = queue[p][i].type
  PROVE  CountStep(p)
<1>1. Acct(qpd'[p], op'[p]) = Acct(qpd[p], op[p])
  BY DEF Acct
<1>2. /\ Act(qpd'[p], queue'[p], op'[p]) = Act(qpd[p], queue[p], op[p])
      /\ ActCp(qpd'[p], queue'[p], op'[p]) = ActCp(qpd[p], queue[p], op[p])
  BY DEF Act, ActCp, Acct
<1> QED BY <1>1, <1>2 DEF CountStep, Moves, SameCounts

LEMMA CreateBeginCounts ==
  ASSUME IInv, NEW p \in Procs, NEW on \in BOOLEAN,
         NEW type \in {COMPUTE, DIQ} \cup SdmaTypes, create_begin(p, type, on)
  PROVE  CountStep(p)
<1>1. /\ Only(p) /\ qpd'[p] = qpd[p] /\ op[p].at = "none" /\ op'[p].at = "create"
      /\ \/ Settled(register_process(dqm, p))
         \/ Settled(dqm)
  BY CreateBeginEffect
<1>2. PICK q \in Qids \ pqm[p].slots : \A i \in Qids \ {q} : queue'[p][i] = queue[p][i]
  BY CreateBeginEffect
<1>3. q \notin qpd[p].queues_list /\ q # qpd[p].diq
  BY SlotFacts
<1>4. SameCounts(dqm, dqm')
  <2>1. dqm \in Dqm /\ SameCounts(dqm, dqm)
    BY RegNumbers DEF SameCounts
  <2> QED BY <1>1, <2>1, RegisterFacts DEF Settled
<1> QED BY <1>1, <1>2, <1>3, <1>4, QuietStep

LEMMA UndoneCounts ==
  ASSUME IInv, NEW p \in Procs, NEW d \in Dqm, Undone(p, d),
         op[p].at \in {"create", "reserved", "destroyed"}, SameCounts(dqm, d)
  PROVE  CountStep(p)
<1> DEFINE q == op[p].qid
<1>1. /\ Only(p) /\ op'[p].at = "none"
      /\ \A i \in Qids \ {q} : queue'[p][i] = queue[p][i]
      /\ qpd'[p].queues_list = qpd[p].queues_list /\ qpd'[p].diq = qpd[p].diq
      /\ qpd'[p].queue_count = qpd[p].queue_count
      /\ Settled(IF NoQueues(p) THEN unregister_process(d, p) ELSE d)
  BY DEF Undone
<1>2. q \notin qpd[p].queues_list /\ q # qpd[p].diq
  BY SlotFacts
<1>3. SameCounts(dqm, dqm')
  <2>1. SameCounts(d, unregister_process(d, p)) /\ SameCounts(d, d)
    BY RegisterFacts DEF SameCounts
  <2>2. SameCounts(d, dqm')
    BY <1>1, <2>1 DEF Settled
  <2> QED BY <2>2 DEF SameCounts
<1> QED BY <1>1, <1>2, <1>3, QuietStep

LEMMA CreateUndoneCounts ==
  ASSUME IInv, NEW p \in Procs,
         \/ create_refused(p) \/ create_kernel_queue_refused(p)
         \/ destroy_finish(p) \/ create_no_mqd(p)
  PROVE  CountStep(p)
<1>1. dqm \in Dqm /\ SameCounts(dqm, dqm)
  BY RegNumbers DEF SameCounts
<1>2. CASE create_refused(p) \/ create_kernel_queue_refused(p) \/ destroy_finish(p)
  <2>1. op[p].at \in {"create", "destroyed"} /\ Undone(p, dqm)
    BY <1>2, CreateRefusedEffect, DestroyFinishEffect
  <2> QED BY <1>1, <2>1, UndoneCounts
<1>3. CASE create_no_mqd(p)
  <2> DEFINE q == queue[p][op[p].qid]
             d == deallocate_sdma_queue(dqm, q)
  <2>1. op[p].at = "reserved" /\ op[p].qid \in Qids /\ Undone(p, d)
    BY <1>3, CreateNoMqdEffect
  <2>2. q \in Queue /\ (q.type \in SdmaTypes => q.sdma_id \in SdmaIds)
    BY <2>1, At DEF OpSlot, HasSdmaId
  <2>3. d \in Dqm /\ SameCounts(dqm, d)
    BY <1>1, <2>2, DeallocateFacts
  <2> HIDE DEF d
  <2> QED BY <2>1, <2>3, UndoneCounts
<1> QED BY <1>2, <1>3

LEMMA CreateReserveCounts ==
  ASSUME IInv, NEW p \in Procs, create_reserve(p)
  PROVE  CountStep(p)
<1> DEFINE q == op[p].qid
<1>1. /\ Only(p) /\ op[p].at = "create" /\ op'[p].at = "reserved"
      /\ \A i \in Qids \ {q} : queue'[p][i] = queue[p][i]
      /\ qpd'[p].queues_list = qpd[p].queues_list /\ qpd'[p].diq = qpd[p].diq
      /\ qpd'[p].queue_count = qpd[p].queue_count
  BY CreateReserveEffect
<1>2. SameCounts(dqm, dqm')
  BY CreateReserveEffect DEF Settled
<1>3. q \notin qpd[p].queues_list /\ q # qpd[p].diq
  BY <1>1, SlotFacts
<1> QED BY <1>1, <1>2, <1>3, QuietStep

LEMMA CreateQueueCounts ==
  ASSUME IInv, NEW p \in Procs, create_queue_cpsch(p)
  PROVE  CountStep(p)
<1> DEFINE q == op[p].qid
           S == Acct(qpd[p], op[p])
           A == Act(qpd[p], queue[p], op[p])
           C == ActCp(qpd[p], queue[p], op[p])
<1>1. /\ Only(p) /\ op[p].at = "reserved" /\ op'[p].at = "none"
      /\ q \in Qids /\ q \notin qpd[p].queues_list /\ q # qpd[p].diq
      /\ \A i \in Qids \ {q} : queue'[p][i] = queue[p][i]
      /\ queue'[p][q].type = queue[p][q].type
      /\ qpd'[p].queues_list = qpd[p].queues_list \cup {q} /\ qpd'[p].diq = qpd[p].diq
      /\ qpd'[p].queue_count = Inc(qpd[p].queue_count)
  BY CreateQueueEffect
<1>2. PICK d \in Dqm :
         /\ d.total_queue_count = Inc(dqm.total_queue_count)
         /\ d.active_queue_count = IF queue'[p][q].is_active THEN Inc(dqm.active_queue_count)
                                   ELSE dqm.active_queue_count
         /\ d.active_cp_queue_count =
              IF queue'[p][q].is_active /\ is_cp(queue[p][q].type)
              THEN Inc(dqm.active_cp_queue_count) ELSE dqm.active_cp_queue_count
         /\ Settled(d) \/ Executed(d)
  BY CreateQueueEffect
<1>3. SameCounts(d, dqm')
  BY <1>2, AfterCall
<1>4. q \notin S /\ q \notin A /\ q \notin C
  BY <1>1 DEF Acct, Act, ActCp
<1>5. Acct(qpd'[p], op'[p]) = S \cup {q}
  BY <1>1 DEF Acct
<1>6. Act(qpd'[p], queue'[p], op'[p]) = IF queue'[p][q].is_active THEN A \cup {q} ELSE A
  BY <1>1, <1>5 DEF Act, Acct
<1>7. ActCp(qpd'[p], queue'[p], op'[p]) =
        IF queue'[p][q].is_active /\ is_cp(queue[p][q].type) THEN C \cup {q} ELSE C
  BY <1>1, <1>6 DEF ActCp, Act, Acct
<1> HIDE DEF S, A, C
<1>8. /\ dqm.active_queue_count \in Counter /\ dqm.active_cp_queue_count \in Counter
      /\ dqm.total_queue_count \in Counter /\ qpd[p].queue_count \in Counter
  BY CounterTypes
<1>9. Moves(dqm.total_queue_count, d.total_queue_count, S, Acct(qpd'[p], op'[p]))
  BY <1>1, <1>2, <1>4, <1>5, <1>8, MovesUp, MovesKept
<1>10. Moves(dqm.active_queue_count, d.active_queue_count, A, Act(qpd'[p], queue'[p], op'[p]))
  BY <1>1, <1>2, <1>4, <1>6, <1>8, MovesUp, MovesKept
<1>11. Moves(dqm.active_cp_queue_count, d.active_cp_queue_count, C,
             ActCp(qpd'[p], queue'[p], op'[p]))
  BY <1>1, <1>2, <1>4, <1>7, <1>8, MovesUp, MovesKept
<1>12. Moves(qpd[p].queue_count, qpd'[p].queue_count, qpd[p].queues_list, qpd'[p].queues_list)
  BY <1>1, <1>8, MovesUp, MovesKept
<1> QED BY <1>1, <1>3, <1>9, <1>10, <1>11, <1>12 DEF CountStep, SameCounts, S, A, C

LEMMA CreateKernelQueueCounts ==
  ASSUME IInv, BellsInv, NEW p \in Procs, create_kernel_queue_cpsch(p)
  PROVE  CountStep(p)
<1> DEFINE q == op[p].qid
           S == Acct(qpd[p], op[p])
           A == Act(qpd[p], queue[p], op[p])
           C == ActCp(qpd[p], queue[p], op[p])
<1>1. /\ Only(p) /\ op[p].at = "create" /\ op'[p].at = "none"
      /\ q \in Qids /\ q \notin qpd[p].queues_list
      /\ queue'[p] = queue[p] /\ queue[p][q].type = DIQ
      /\ qpd'[p].queues_list = qpd[p].queues_list /\ qpd'[p].diq = q
      /\ qpd'[p].queue_count = qpd[p].queue_count
  BY CreateKernelQueueEffect
<1>2. PICK d \in Dqm :
         /\ d.total_queue_count = Inc(dqm.total_queue_count)
         /\ d.active_queue_count = Inc(dqm.active_queue_count)
         /\ d.active_cp_queue_count = Inc(dqm.active_cp_queue_count)
         /\ Executed(d)
  BY CreateKernelQueueEffect
<1>3. SameCounts(d, dqm')
  BY <1>2, AfterCall
<1>4. qpd[p].diq = NONE /\ NONE \notin Qids
  <2>1. LocalInv(qpd[p], queue[p], op[p], phase[p])
    BY DEF BellsInv
  <2> QED BY <1>1, <2>1, SlotFacts DEF LocalInv
<1>5. q \notin S /\ q \notin A /\ q \notin C
  BY <1>1, <1>4 DEF Acct, Act, ActCp
<1>6. Acct(qpd'[p], op'[p]) = S \cup {q}
  BY <1>1, <1>4 DEF Acct
<1>7. Act(qpd'[p], queue'[p], op'[p]) = A \cup {q}
  BY <1>1, <1>4, <1>6 DEF Act, Acct
<1>8. ActCp(qpd'[p], queue'[p], op'[p]) = C \cup {q}
  BY <1>1, <1>4, <1>7 DEF ActCp, Act, Acct, is_cp
<1> HIDE DEF S, A, C
<1>9. /\ dqm.active_queue_count \in Counter /\ dqm.active_cp_queue_count \in Counter
      /\ dqm.total_queue_count \in Counter /\ qpd[p].queue_count \in Counter
  BY CounterTypes
<1>10. Moves(dqm.total_queue_count, d.total_queue_count, S, Acct(qpd'[p], op'[p]))
  BY <1>1, <1>2, <1>5, <1>6, <1>9, MovesUp
<1>11. Moves(dqm.active_queue_count, d.active_queue_count, A, Act(qpd'[p], queue'[p], op'[p]))
  BY <1>1, <1>2, <1>5, <1>7, <1>9, MovesUp
<1>12. Moves(dqm.active_cp_queue_count, d.active_cp_queue_count, C,
             ActCp(qpd'[p], queue'[p], op'[p]))
  BY <1>1, <1>2, <1>5, <1>8, <1>9, MovesUp
<1>13. Moves(qpd[p].queue_count, qpd'[p].queue_count, qpd[p].queues_list, qpd'[p].queues_list)
  BY <1>1, MovesKept
<1> QED BY <1>1, <1>3, <1>10, <1>11, <1>12, <1>13 DEF CountStep, SameCounts, S, A, C

LEMMA DestroyQueueCounts ==
  ASSUME ~CarriesOn, IInv, NEW p \in Procs, NEW qid \in Qids, destroy_queue_cpsch(p, qid)
  PROVE  CountStep(p)
<1> DEFINE q == queue[p][qid]
           S == Acct(qpd[p], op[p])
           A == Act(qpd[p], queue[p], op[p])
           C == ActCp(qpd[p], queue[p], op[p])
<1>1. /\ Only(p) /\ op[p].at = "none" /\ queue'[p] = queue[p]
      /\ qid \in qpd[p].queues_list
      /\ qpd'[p].queues_list = qpd[p].queues_list \ {qid} /\ qpd'[p].diq = qpd[p].diq
      /\ qpd'[p].queue_count = Dec(qpd[p].queue_count)
  BY DestroyQueueEffect
<1>2. PICK d \in Dqm :
         /\ d.total_queue_count = Dec(dqm.total_queue_count)
         /\ d.active_queue_count = IF q.is_active THEN Dec(dqm.active_queue_count)
                                   ELSE dqm.active_queue_count
         /\ d.active_cp_queue_count = IF q.is_active /\ is_cp(q.type)
                                      THEN Dec(dqm.active_cp_queue_count)
                                      ELSE dqm.active_cp_queue_count
         /\ Settled(d) \/ Executed(d)
         /\ op'[p].at \in {"destroyed", "none"}
  BY DestroyQueueEffect
<1>3. SameCounts(d, dqm')
  BY <1>2, AfterCall
<1>4. qid # qpd[p].diq
  BY <1>1, SlotFacts
<1>5. /\ qid \in S
      /\ q.is_active <=> qid \in A
      /\ q.is_active /\ is_cp(q.type) <=> qid \in C
  BY <1>1, <1>4 DEF Acct, Act, ActCp
<1>6. Acct(qpd'[p], op'[p]) = S \ {qid}
  BY <1>1, <1>2, <1>4 DEF Acct
<1>7. Act(qpd'[p], queue'[p], op'[p]) = A \ {qid}
  BY <1>1, <1>6 DEF Act
<1>8. ActCp(qpd'[p], queue'[p], op'[p]) = C \ {qid}
  BY <1>1, <1>7 DEF ActCp
<1> HIDE DEF S, A, C
<1>9. /\ dqm.active_queue_count \in Counter /\ dqm.active_cp_queue_count \in Counter
      /\ dqm.total_queue_count \in Counter /\ qpd[p].queue_count \in Counter
  BY CounterTypes
<1>10. Moves(dqm.total_queue_count, d.total_queue_count, S, Acct(qpd'[p], op'[p]))
  BY <1>2, <1>5, <1>6, <1>9, MovesDown
<1>11. Moves(dqm.active_queue_count, d.active_queue_count, A, Act(qpd'[p], queue'[p], op'[p]))
  <2>1. CASE q.is_active
    BY <1>2, <1>5, <1>7, <1>9, <2>1, MovesDown
  <2>2. CASE ~q.is_active
    <3>1. A \ {qid} = A
      BY <1>5, <2>2
    <3> QED BY <1>2, <1>7, <2>2, <3>1, MovesKept
  <2> QED BY <2>1, <2>2
<1>12. Moves(dqm.active_cp_queue_count, d.active_cp_queue_count, C,
             ActCp(qpd'[p], queue'[p], op'[p]))
  <2>1. CASE q.is_active /\ is_cp(q.type)
    BY <1>2, <1>5, <1>8, <1>9, <2>1, MovesDown
  <2>2. CASE ~(q.is_active /\ is_cp(q.type))
    <3>1. C \ {qid} = C
      BY <1>5, <2>2
    <3> QED BY <1>2, <1>8, <2>2, <3>1, MovesKept
  <2> QED BY <2>1, <2>2
<1>13. Moves(qpd[p].queue_count, qpd'[p].queue_count, qpd[p].queues_list, qpd'[p].queues_list)
  BY <1>1, <1>9, MovesDown
<1> QED BY <1>1, <1>3, <1>10, <1>11, <1>12, <1>13 DEF CountStep, SameCounts, S, A, C

LEMMA DestroyKernelQueueCounts ==
  ASSUME IInv, BellsInv, NEW p \in Procs, destroy_kernel_queue_cpsch(p)
  PROVE  CountStep(p)
<1> DEFINE q == qpd[p].diq
           S == Acct(qpd[p], op[p])
           A == Act(qpd[p], queue[p], op[p])
           C == ActCp(qpd[p], queue[p], op[p])
<1>1. /\ Only(p) /\ op[p].at = "none" /\ op'[p].at = "destroyed"
      /\ q \in Qids /\ queue'[p] = queue[p]
      /\ qpd'[p].queues_list = qpd[p].queues_list /\ qpd'[p].diq = NONE
      /\ qpd'[p].queue_count = qpd[p].queue_count
  BY DestroyKernelQueueEffect
<1>2. PICK d \in Dqm :
         /\ d.total_queue_count = Dec(dqm.total_queue_count)
         /\ d.active_queue_count = Dec(dqm.active_queue_count)
         /\ d.active_cp_queue_count = Dec(dqm.active_cp_queue_count)
         /\ Executed(d)
  BY DestroyKernelQueueEffect
<1>3. SameCounts(d, dqm')
  BY <1>2, AfterCall
<1>4. q \notin qpd[p].queues_list /\ NONE \notin Qids /\ queue[p][q].type = DIQ
  <2>1. LocalInv(qpd[p], queue[p], op[p], phase[p])
    BY DEF BellsInv
  <2> QED BY <1>1, <2>1, SlotFacts DEF LocalInv
<1>5. q \in S /\ q \in A /\ q \in C
  BY <1>1, <1>4 DEF Acct, Act, ActCp, is_cp
<1>6. Acct(qpd'[p], op'[p]) = S \ {q}
  BY <1>1, <1>4 DEF Acct
<1>7. Act(qpd'[p], queue'[p], op'[p]) = A \ {q}
  BY <1>1, <1>4, <1>6 DEF Act, Acct
<1>8. ActCp(qpd'[p], queue'[p], op'[p]) = C \ {q}
  BY <1>1, <1>7 DEF ActCp
<1> HIDE DEF S, A, C
<1>9. /\ dqm.active_queue_count \in Counter /\ dqm.active_cp_queue_count \in Counter
      /\ dqm.total_queue_count \in Counter /\ qpd[p].queue_count \in Counter
  BY CounterTypes
<1>10. Moves(dqm.total_queue_count, d.total_queue_count, S, Acct(qpd'[p], op'[p]))
  BY <1>1, <1>2, <1>5, <1>6, <1>9, MovesDown
<1>11. Moves(dqm.active_queue_count, d.active_queue_count, A, Act(qpd'[p], queue'[p], op'[p]))
  BY <1>1, <1>2, <1>5, <1>7, <1>9, MovesDown
<1>12. Moves(dqm.active_cp_queue_count, d.active_cp_queue_count, C,
             ActCp(qpd'[p], queue'[p], op'[p]))
  BY <1>1, <1>2, <1>5, <1>8, <1>9, MovesDown
<1>13. Moves(qpd[p].queue_count, qpd'[p].queue_count, qpd[p].queues_list, qpd'[p].queues_list)
  BY <1>1, MovesKept
<1> QED BY <1>1, <1>3, <1>10, <1>11, <1>12, <1>13 DEF CountStep, SameCounts, S, A, C

LEMMA UpdateBeginCounts ==
  ASSUME IInv, NEW p \in Procs, NEW qid \in Qids, NEW b \in BOOLEAN,
         pqm_update_queue(p, qid, b) \/ pqm_set_gws(p, qid, b)
  PROVE  CountStep(p)
<1>1. /\ Only(p) /\ op[p].at = "none" /\ op'[p].at = "update"
      /\ \A i \in Qids : /\ queue'[p][i].type = queue[p][i].type
                         /\ queue'[p][i].is_active = queue[p][i].is_active
      /\ qpd'[p].queues_list = qpd[p].queues_list /\ qpd'[p].diq = qpd[p].diq
      /\ qpd'[p].queue_count = qpd[p].queue_count
      /\ Settled(dqm)
  BY UpdateBeginEffect
<1>2. SameCounts(dqm, dqm')
  BY <1>1 DEF SameCounts, Settled
<1> QED BY <1>1, <1>2, QuietStep

LEMMA UpdateQueueCounts ==
  ASSUME IInv, BellsInv, NEW p \in Procs, update_queue(p)
  PROVE  CountStep(p)
<1> DEFINE q == op[p].qid
           old == queue[p][q]
           new == queue'[p][q]
           S == Acct(qpd[p], op[p])
           A == Act(qpd[p], queue[p], op[p])
           C == ActCp(qpd[p], queue[p], op[p])
<1>1. /\ Only(p) /\ qpd'[p] = qpd[p] /\ q \in Qids
      /\ op[p].at = "update" /\ op'[p].at = "none"
      /\ \A i \in Qids \ {q} : queue'[p][i] = queue[p][i]
      /\ new.type = old.type
  BY UpdateQueueEffect
<1>2. q \in qpd[p].queues_list /\ q # qpd[p].diq /\ old \in Queue
  <2>1. LocalInv(qpd[p], queue[p], op[p], phase[p])
    BY DEF BellsInv
  <2> QED BY <1>1, <2>1, SlotFacts, At DEF LocalInv
<1>3. new.is_active \in BOOLEAN /\ old.is_active \in BOOLEAN
  <2>1. Base'
    BY UpdateQueue
  <2> QED BY <1>1, <2>1, At DEF Base, TypeOK, Queue
<1>4. PICK d \in Dqm :
         SameCounts(d, dqm') /\ \E e \in Dqm : SameCounts(dqm, e) /\ Recounted(e, d, old, new)
  <2>1. PICK u \in unmap_queues_cpsch(dqm, hw) :
           /\ u.d \in Dqm /\ SameCounts(dqm, u.d)
           /\ \/ u.ret # "0" /\ dqm' = u.d /\ new = old
              \/ u.ret = "0" /\ \E d \in Dqm : Recounted(u.d, d, old, new) /\ Mapped(d, u.h)
    BY UpdateQueueEffect
  <2>2. CASE dqm' = u.d /\ new = old
    <3>1. SameCounts(u.d, dqm') /\ Recounted(u.d, u.d, old, new)
      BY <2>2 DEF SameCounts, Recounted, SameSched
    <3> QED BY <2>1, <3>1
  <2>3. CASE \E d \in Dqm : Recounted(u.d, d, old, new) /\ Mapped(d, u.h)
    <3>1. PICK d \in Dqm : Recounted(u.d, d, old, new) /\ Mapped(d, u.h)
      BY <2>3
    <3> DEFINE run == Runnable(d, queue', qpd')
    <3>2. PICK x \in map_queues_cpsch(d, u.h, run) : dqm' = x.d
      BY <3>1, Zenon DEF Mapped
    <3> HIDE DEF run
    <3>3. SameCounts(d, x.d)
      <4>1. CASE x = Result(d, u.h, "0")
        BY <4>1 DEF Result, SameCounts
      <4>2. CASE x = Result([d EXCEPT !.active_runlist = TRUE], run, "0")
        BY <4>2 DEF Result, Dqm, SameCounts
      <4>3. CASE x = Result(d, u.h, "ENOMEM")
        BY <4>3 DEF Result, SameCounts
      <4> QED BY <4>1, <4>2, <4>3 DEF map_queues_cpsch
    <3> QED BY <2>1, <3>1, <3>2, <3>3
  <2> QED BY <2>1, <2>2, <2>3
<1>5. /\ d.total_queue_count = dqm.total_queue_count
      /\ new.is_active = old.is_active => SameCounts(dqm, d)
      /\ new.is_active /\ ~old.is_active =>
           /\ d.active_queue_count = Inc(dqm.active_queue_count)
           /\ d.active_cp_queue_count = IF is_cp(old.type) THEN Inc(dqm.active_cp_queue_count)
                                        ELSE dqm.active_cp_queue_count
      /\ ~new.is_active /\ old.is_active =>
           /\ d.active_queue_count = Dec(dqm.active_queue_count)
           /\ d.active_cp_queue_count = IF is_cp(old.type) THEN Dec(dqm.active_cp_queue_count)
                                        ELSE dqm.active_cp_queue_count
  <2>1. PICK e \in Dqm : SameCounts(dqm, e) /\ Recounted(e, d, old, new)
    BY <1>4
  <2> QED BY <1>1, <2>1 DEF Recounted, SameCounts
<1>6. Acct(qpd'[p], op'[p]) = S
  BY <1>1 DEF Acct
<1>7. /\ q \in A <=> old.is_active
      /\ q \in C <=> old.is_active /\ is_cp(old.type)
  BY <1>1, <1>2 DEF ActCp, Act, Acct
<1>8. Act(qpd'[p], queue'[p], op'[p]) = IF new.is_active THEN A \cup {q} ELSE A \ {q}
  BY <1>1, <1>2, <1>6 DEF Act, Acct
<1>9. ActCp(qpd'[p], queue'[p], op'[p]) =
        IF new.is_active /\ is_cp(old.type) THEN C \cup {q} ELSE C \ {q}
  BY <1>1, <1>2, <1>8 DEF ActCp, Act, Acct
<1> HIDE DEF S, A, C, old, new
<1>10. /\ dqm.active_queue_count \in Counter /\ dqm.active_cp_queue_count \in Counter
       /\ dqm.total_queue_count \in Counter /\ qpd[p].queue_count \in Counter
  BY CounterTypes
<1>11. Moves(dqm.total_queue_count, d.total_queue_count, S, Acct(qpd'[p], op'[p]))
  BY <1>5, <1>6, MovesKept
<1>12. Moves(dqm.active_queue_count, d.active_queue_count, A, Act(qpd'[p], queue'[p], op'[p]))
  <2>1. CASE new.is_active = old.is_active
    <3>1. Act(qpd'[p], queue'[p], op'[p]) = A
      BY <1>3, <1>7, <1>8, <2>1
    <3> QED BY <1>5, <2>1, <3>1, MovesKept DEF SameCounts
  <2>2. CASE new.is_active /\ ~old.is_active
    BY <1>1, <1>5, <1>7, <1>8, <1>10, <2>2, MovesUp
  <2>3. CASE ~new.is_active /\ old.is_active
    BY <1>1, <1>5, <1>7, <1>8, <1>10, <2>3, MovesDown
  <2> QED BY <1>3, <2>1, <2>2, <2>3
<1>13. Moves(dqm.active_cp_queue_count, d.active_cp_queue_count, C,
             ActCp(qpd'[p], queue'[p], op'[p]))
  <2>1. CASE new.is_active = old.is_active \/ ~is_cp(old.type)
    <3>1. ActCp(qpd'[p], queue'[p], op'[p]) = C
      BY <1>3, <1>7, <1>9, <2>1
    <3>2. d.active_cp_queue_count = dqm.active_cp_queue_count
      BY <1>3, <1>5, <2>1 DEF SameCounts
    <3> QED BY <3>1, <3>2, MovesKept
  <2>2. CASE new.is_active /\ ~old.is_active /\ is_cp(old.type)
    BY <1>1, <1>5, <1>7, <1>9, <1>10, <2>2, MovesUp
  <2>3. CASE ~new.is_active /\ old.is_active /\ is_cp(old.type)
    BY <1>1, <1>5, <1>7, <1>9, <1>10, <2>3, MovesDown
  <2> QED BY <1>3, <2>1, <2>2, <2>3
<1>14. Moves(qpd[p].queue_count, qpd'[p].queue_count, qpd[p].queues_list, qpd'[p].queues_list)
  BY <1>1, MovesKept
<1> QED BY <1>1, <1>4, <1>11, <1>12, <1>13, <1>14 DEF CountStep, SameCounts, S, A, C

LEMMA EvictCounts ==
  ASSUME ~LateEvict, IInv, BellsInv, NEW p \in Procs, evict_process_queues_cpsch(p)
  PROVE  CountStep(p)
<1> DEFINE T == ActiveQueues(p)
           S == Acct(qpd[p], op[p])
           A == Act(qpd[p], queue[p], op[p])
           C == ActCp(qpd[p], queue[p], op[p])
<1>1. KeptLists(p) /\ MayEvict(p)
  BY EvictEffect
<1>2. /\ Only(p) /\ op'[p] = op[p]
      /\ \A i \in Qids : queue'[p][i].type = queue[p][i].type
      /\ qpd'[p].queues_list = qpd[p].queues_list /\ qpd'[p].diq = qpd[p].diq
      /\ qpd'[p].queue_count = qpd[p].queue_count
  BY <1>1 DEF KeptLists
<1>3. op[p].at # "terminating"
  <2>1. LocalInv(qpd[p], queue[p], op[p], phase[p])
    BY DEF BellsInv
  <2> QED BY <1>1, <2>1 DEF LocalInv, MayEvict
<1>4. CASE Settled(dqm) /\ queue'[p] = queue[p]
  <2>1. SameCounts(dqm, dqm')
    BY <1>4 DEF Settled, SameCounts
  <2> QED BY <1>2, <1>4, <2>1, QuietStep
<1>5. ASSUME NEW d \in Dqm,
             \A i \in qpd[p].queues_list : queue'[p][i].is_active = FALSE,
             d.total_queue_count = dqm.total_queue_count,
             d.active_queue_count = Sub(dqm.active_queue_count, Cardinality(T)),
             d.active_cp_queue_count = Sub(dqm.active_cp_queue_count,
                                           Cardinality(CpOf(T, queue[p]))),
             Executed(d)
      PROVE  CountStep(p)
  <2>1. SameCounts(d, dqm')
    BY <1>5, AfterCall
  <2>2. /\ qpd[p].queues_list \subseteq Qids /\ qpd[p].diq \notin qpd[p].queues_list
    BY SlotFacts
  <2>3. /\ T \in SUBSET Qids /\ T \subseteq A
        /\ CpOf(T, queue[p]) \in SUBSET Qids /\ CpOf(T, queue[p]) \subseteq C
    BY <1>3, <2>2 DEF ActiveQueues, ActCp, Act, Acct, CpOf
  <2>4. Acct(qpd'[p], op'[p]) = S
    BY <1>2 DEF Acct
  <2>5. Act(qpd'[p], queue'[p], op'[p]) = A \ T
    BY <1>2, <1>3, <1>5, <2>2, <2>4 DEF ActiveQueues, Act, Acct
  <2>6. ActCp(qpd'[p], queue'[p], op'[p]) = C \ CpOf(T, queue[p])
    BY <1>2, <2>5 DEF ActCp, Act, Acct, CpOf
  <2> DEFINE K == CpOf(T, queue[p])
  <2>7. /\ K \in SUBSET Qids /\ K \subseteq C
        /\ ActCp(qpd'[p], queue'[p], op'[p]) = C \ K
        /\ d.active_cp_queue_count = Sub(dqm.active_cp_queue_count, Cardinality(K))
    BY <1>5, <2>3, <2>6
  <2> HIDE DEF S, A, C, T, K
  <2>8. Moves(dqm.active_queue_count, d.active_queue_count, A, Act(qpd'[p], queue'[p], op'[p]))
    BY <1>5, <2>3, <2>5 DEF Moves
  <2>9. Moves(dqm.active_cp_queue_count, d.active_cp_queue_count, C,
              ActCp(qpd'[p], queue'[p], op'[p]))
    BY <2>7 DEF Moves
  <2>10. Moves(dqm.total_queue_count, d.total_queue_count, S, Acct(qpd'[p], op'[p]))
    BY <1>5, <2>4, MovesKept
  <2>11. Moves(qpd[p].queue_count, qpd'[p].queue_count, qpd[p].queues_list, qpd'[p].queues_list)
    BY <1>2, MovesKept
  <2> QED BY <1>2, <2>1, <2>8, <2>9, <2>10, <2>11 DEF CountStep, SameCounts, S, A, C
<1> QED BY <1>4, <1>5, EvictEffect

LEMMA RestoreCounts ==
  ASSUME ~LateEvict, IInv, BellsInv, NEW p \in Procs, restore_process_queues_cpsch(p)
  PROVE  CountStep(p)
<1> DEFINE T == {i \in qpd[p].queues_list : queue'[p][i].is_active}
           S == Acct(qpd[p], op[p])
           A == Act(qpd[p], queue[p], op[p])
           C == ActCp(qpd[p], queue[p], op[p])
<1>1. KeptLists(p) /\ MayEvict(p)
  BY RestoreEffect
<1>2. /\ Only(p) /\ op'[p] = op[p]
      /\ \A i \in Qids : queue'[p][i].type = queue[p][i].type
      /\ qpd'[p].queues_list = qpd[p].queues_list /\ qpd'[p].diq = qpd[p].diq
      /\ qpd'[p].queue_count = qpd[p].queue_count
  BY <1>1 DEF KeptLists
<1>3. op[p].at # "terminating"
  <2>1. LocalInv(qpd[p], queue[p], op[p], phase[p])
    BY DEF BellsInv
  <2> QED BY <1>1, <2>1 DEF LocalInv, MayEvict
<1>4. CASE Settled(dqm) /\ queue'[p] = queue[p]
  <2>1. SameCounts(dqm, dqm')
    BY <1>4 DEF Settled, SameCounts
  <2> QED BY <1>2, <1>4, <2>1, QuietStep
<1>5. ASSUME NEW d \in Dqm,
             \A i \in qpd[p].queues_list : ~queue[p][i].is_active,
             d.total_queue_count = dqm.total_queue_count,
             d.active_queue_count = (dqm.active_queue_count + Cardinality(T)) % UINT,
             d.active_cp_queue_count =
               (dqm.active_cp_queue_count + Cardinality(CpOf(T, queue[p]))) % UINT,
             Executed(d)
      PROVE  CountStep(p)
  <2>1. SameCounts(d, dqm')
    BY <1>5, AfterCall
  <2>2. /\ qpd[p].queues_list \subseteq Qids /\ qpd[p].diq \notin qpd[p].queues_list
    BY SlotFacts
  <2> DEFINE K == CpOf(T, queue[p])
  <2>3. T \in SUBSET Qids /\ T \cap A = {} /\ K \in SUBSET Qids /\ K \cap C = {}
    BY <1>3, <1>5, <2>2 DEF ActCp, Act, Acct, CpOf
  <2>4. Acct(qpd'[p], op'[p]) = S
    BY <1>2 DEF Acct
  <2>5. Act(qpd'[p], queue'[p], op'[p]) = A \cup T
    BY <1>2, <1>3, <1>5, <2>2, <2>4 DEF Act, Acct
  <2>6. ActCp(qpd'[p], queue'[p], op'[p]) = C \cup K
    BY <1>2, <2>2, <2>5 DEF ActCp, Act, Acct, CpOf
  <2>7. d.active_cp_queue_count = (dqm.active_cp_queue_count + Cardinality(K)) % UINT
    BY <1>5
  <2> HIDE DEF S, A, C, T, K
  <2>8. Moves(dqm.active_queue_count, d.active_queue_count, A, Act(qpd'[p], queue'[p], op'[p]))
    BY <1>5, <2>3, <2>5 DEF Moves
  <2>9. Moves(dqm.active_cp_queue_count, d.active_cp_queue_count, C,
              ActCp(qpd'[p], queue'[p], op'[p]))
    BY <2>3, <2>6, <2>7 DEF Moves
  <2>10. Moves(dqm.total_queue_count, d.total_queue_count, S, Acct(qpd'[p], op'[p]))
    BY <1>5, <2>4, MovesKept
  <2>11. Moves(qpd[p].queue_count, qpd'[p].queue_count, qpd[p].queues_list, qpd'[p].queues_list)
    BY <1>2, MovesKept
  <2> QED BY <1>2, <2>1, <2>8, <2>9, <2>10, <2>11 DEF CountStep, SameCounts, S, A, C
<1> QED BY <1>4, <1>5, RestoreEffect

LEMMA ReleaseCounts ==
  ASSUME IInv, NEW p \in Procs, release_begin(p) \/ new_process(p)
  PROVE  CountStep(p)
<1>1. /\ Only(p) /\ qpd'[p] = qpd[p] /\ queue'[p] = queue[p] /\ op'[p] = op[p] /\ Settled(dqm)
  BY ReleaseEffect
<1>2. SameCounts(dqm, dqm')
  BY <1>1 DEF SameCounts, Settled
<1> QED BY <1>1, <1>2, QuietStep

LEMMA TerminateCounts ==
  ASSUME IInv, BellsInv, NEW p \in Procs, process_termination_cpsch(p)
  PROVE  CountStep(p)
<1> DEFINE d == terminate_clear(p)
           T == ActiveQueues(p)
           K == CpOf(T, queue[p])
           L == qpd[p].queues_list
           S == Acct(qpd[p], op[p])
           A == Act(qpd[p], queue[p], op[p])
           C == ActCp(qpd[p], queue[p], op[p])
<1>1. /\ Only(p) /\ phase[p] = "releasing" /\ op[p].at = "none" /\ op'[p].at = "terminating"
      /\ SameCounts(d, dqm')
  BY TerminateEffect
<1>2. PICK first \in SUBSET qpd[p].queues_list :
         /\ qpd'[p].queues_list = qpd[p].queues_list \ first
         /\ qpd'[p].queue_count = Sub(qpd[p].queue_count, Cardinality(first))
  BY TerminateEffect
<1>3. /\ d.total_queue_count = Sub(dqm.total_queue_count, Cardinality(L))
      /\ d.active_queue_count = Sub(dqm.active_queue_count, Cardinality(T))
      /\ d.active_cp_queue_count = Sub(dqm.active_cp_queue_count, Cardinality(K))
  BY TerminateClearFacts
<1>4. qpd[p].diq = NONE /\ NONE \notin Qids /\ L \subseteq Qids
  <2>1. LocalInv(qpd[p], queue[p], op[p], phase[p])
    BY DEF BellsInv
  <2> QED BY <1>1, <2>1, SlotFacts DEF LocalInv
<1>5. S = L
  BY <1>1, <1>4 DEF Acct
<1>6. A = T
  BY <1>4, <1>5 DEF Act, ActiveQueues
<1>7. C = K
  BY <1>6 DEF ActCp, CpOf
<1>8. Acct(qpd'[p], op'[p]) = {}
  BY <1>1 DEF Acct
<1>9. Act(qpd'[p], queue'[p], op'[p]) = {} /\ ActCp(qpd'[p], queue'[p], op'[p]) = {}
  BY <1>8 DEF Act, ActCp
<1>10. T \in SUBSET Qids /\ K \in SUBSET Qids /\ L \in SUBSET Qids /\ first \in SUBSET Qids
  BY <1>4 DEF ActiveQueues, CpOf
<1> HIDE DEF d, T, K, S, A, C
<1>11. Moves(dqm.total_queue_count, d.total_queue_count, S, Acct(qpd'[p], op'[p]))
  <2>1. L \subseteq S /\ {} = S \ L
    BY <1>5
  <2> HIDE DEF L
  <2> QED BY <1>3, <1>8, <1>10, <2>1 DEF Moves
<1>12. Moves(dqm.active_queue_count, d.active_queue_count, A, Act(qpd'[p], queue'[p], op'[p]))
  <2>1. T \subseteq A /\ {} = A \ T
    BY <1>6
  <2> QED BY <1>3, <1>9, <1>10, <2>1 DEF Moves
<1>13. Moves(dqm.active_cp_queue_count, d.active_cp_queue_count, C,
             ActCp(qpd'[p], queue'[p], op'[p]))
  <2>1. K \subseteq C /\ {} = C \ K
    BY <1>7
  <2> QED BY <1>3, <1>9, <1>10, <2>1 DEF Moves
<1>14. Moves(qpd[p].queue_count, qpd'[p].queue_count, qpd[p].queues_list, qpd'[p].queues_list)
  BY <1>2, <1>10 DEF Moves
<1> QED BY <1>1, <1>11, <1>12, <1>13, <1>14 DEF CountStep, SameCounts, S, A, C

\* The loop of the termination: the process is off the books, only its own count
\* follows its list.
LEMMA TerminatedCounts ==
  ASSUME IInv, CountInv, NEW p \in Procs, terminate_free_mqd(p) \/ pqm_uninit(p)
  PROVE  CountStep(p)
<1>1. /\ Only(p) /\ op[p].at = "terminating" /\ Settled(dqm)
      /\ \/ /\ op'[p] = op[p]
            /\ \E i \in qpd[p].queues_list :
                 /\ qpd'[p].queues_list = qpd[p].queues_list \ {i}
                 /\ qpd'[p].queue_count = Dec(qpd[p].queue_count)
         \/ /\ op'[p].at = "none" /\ qpd[p].queues_list = {}
            /\ qpd'[p].queues_list = {} /\ qpd'[p].diq = NONE /\ qpd'[p].queue_count = 0
  BY FreeMqdEffect, UninitEffect
<1>2. Acct(qpd[p], op[p]) = {} /\ Acct(qpd'[p], op'[p]) = {}
  BY <1>1, IdsAreNumbers DEF Acct
<1>3. /\ Act(qpd[p], queue[p], op[p]) = {} /\ Act(qpd'[p], queue'[p], op'[p]) = {}
      /\ ActCp(qpd[p], queue[p], op[p]) = {} /\ ActCp(qpd'[p], queue'[p], op'[p]) = {}
  BY <1>2 DEF Act, ActCp
<1>4. dqm' = dqm
  BY <1>1 DEF Settled
<1>5. Moves(qpd[p].queue_count, qpd'[p].queue_count, qpd[p].queues_list, qpd'[p].queues_list)
  <2>1. CASE \E i \in qpd[p].queues_list :
                /\ qpd'[p].queues_list = qpd[p].queues_list \ {i}
                /\ qpd'[p].queue_count = Dec(qpd[p].queue_count)
    BY <2>1, CounterTypes, SlotFacts, MovesDown
  <2>2. CASE /\ qpd[p].queues_list = {} /\ qpd'[p].queues_list = {}
             /\ qpd'[p].queue_count = 0
    <3>1. qpd[p].queue_count = 0
      BY <2>2, FS_EmptySet DEF CountInv
    <3> QED BY <2>2, <3>1, MovesKept
  <2> QED BY <1>1, <2>1, <2>2
<1> QED BY <1>1, <1>2, <1>3, <1>4, <1>5, MovesKept DEF CountStep

LEMMA DeviceCounts ==
  ASSUME IInv, CountInv, pre_reset \/ stop_cpsch \/ start_cpsch
  PROVE  CountInv'
<1>1. /\ qpd' = qpd /\ queue' = queue /\ op' = op /\ SameCounts(dqm, dqm')
  BY DeviceEffect
<1>2. ActOf' = ActOf /\ ActCpOf' = ActCpOf /\ AcctOf' = AcctOf
  BY <1>1 DEF ActOf, ActCpOf, AcctOf
<1> QED BY <1>1, <1>2 DEF CountInv, SameCounts

LEMMA NextCounts ==
  ASSUME Wide, ~LateEvict, ~CarriesOn, IInv, IInv', BellsInv, CountInv, [Next]_vars
  PROVE  CountInv'
<1>1. CASE UNCHANGED vars
  <2>1. /\ qpd' = qpd /\ queue' = queue /\ op' = op /\ dqm' = dqm
    BY <1>1 DEF vars
  <2>2. ActOf' = ActOf /\ ActCpOf' = ActCpOf /\ AcctOf' = AcctOf
    BY <2>1 DEF ActOf, ActCpOf, AcctOf
  <2> QED BY <2>1, <2>2 DEF CountInv
<1>2. ASSUME NEW p \in Procs, Call(p) PROVE CountStep(p)
  <2>1. CASE create_call(p)
    <3>1. ASSUME NEW type \in Types, NEW on \in BOOLEAN,
                 create_begin(p, type, on)
          PROVE  CountStep(p)
      <4>1. type \in {COMPUTE, DIQ} \cup SdmaTypes
        BY OpuQueuesAssumption
      <4> QED
        BY <3>1, <4>1, CreateBeginCounts
    <3>2. CASE create_begin(p, DIQ, TRUE)
      BY <3>2, CreateBeginCounts
    <3> QED
      BY <2>1, <3>1, <3>2 DEF create_call
  <2>2. CASE \E qid \in Qids :
                \/ destroy_queue_cpsch(p, qid)
                \/ \E on \in BOOLEAN : pqm_update_queue(p, qid, on)
                \/ \E gws \in BOOLEAN : pqm_set_gws(p, qid, gws)
    BY <2>2, DestroyQueueCounts, UpdateBeginCounts
  <2> QED
    BY <1>2, <2>1, <2>2, DestroyKernelQueueCounts, ReleaseCounts DEF Call
<1>3. ASSUME NEW p \in Procs, Proceed(p) PROVE CountStep(p)
  BY <1>3, CreateUndoneCounts, CreateReserveCounts, CreateQueueCounts,
     CreateKernelQueueCounts, UpdateQueueCounts, TerminateCounts, TerminatedCounts DEF Proceed
<1>4. ASSUME NEW p \in Procs,
             evict_process_queues_cpsch(p) \/ restore_process_queues_cpsch(p)
      PROVE  CountStep(p)
  BY <1>4, EvictCounts, RestoreCounts
<1>5. CASE pre_reset \/ stop_cpsch \/ start_cpsch
  BY <1>5, DeviceCounts
<1>6. ASSUME NEW p \in Procs, CountStep(p) PROVE CountInv'
  BY <1>6, CountsAt
<1> QED
  BY <1>1, <1>2, <1>3, <1>4, <1>5, <1>6 DEF Next

LEMMA InitCounts == Init => CountInv
<1> SUFFICES ASSUME Init PROVE CountInv
  OBVIOUS
<1>1. \A p \in Procs : /\ qpd[p].queues_list = {} /\ qpd[p].diq = NONE
                       /\ qpd[p].queue_count = 0
  BY DEF Init, FreshQpd
<1>2. /\ dqm.active_queue_count = 0 /\ dqm.active_cp_queue_count = 0
      /\ dqm.total_queue_count = 0
  BY DEF Init
<1>3. \A p \in Procs : Acct(qpd[p], op[p]) = {}
  BY <1>1, IdsAreNumbers DEF Acct
<1>4. \A p \in Procs : Act(qpd[p], queue[p], op[p]) = {} /\ ActCp(qpd[p], queue[p], op[p]) = {}
  BY <1>3 DEF Act, ActCp
<1>5. \A x \in Procs \X Qids : x[1] \in Procs
  OBVIOUS
<1>6. Pairs(ActOf) = {} /\ Pairs(ActCpOf) = {} /\ Pairs(AcctOf) = {}
  BY <1>3, <1>4, <1>5 DEF Pairs, ActOf, ActCpOf, AcctOf
<1> QED BY <1>1, <1>2, <1>6, FS_EmptySet DEF CountInv

\* The counters of the dqm and of each process count exactly the queues on the
\* lists, the active ones and the CP queues among these, in whatever order queues
\* come, change, are evicted and go, with allocations, registrations, run lists,
\* preemptions and destroys that fail: provided that unsigned int can count all
\* slots of all processes, that user mode gives up on the queues of a process of
\* which a destroy failed (destroying or updating the queue again moves the
\* counters again), and that no eviction reaches a process whose release has
\* begun (one that does discounts the queues which process_termination_cpsch has
\* discounted already).
THEOREM CountersAreExact ==
  ASSUME ~LateEvict, ~CarriesOn, Cardinality(Procs \X Qids) < UINT
  PROVE  Spec => []CountersExact
<1>1. Wide
  BY DEF Wide
<1>2. IInv /\ BellsInv /\ [Next]_vars => BellsInv'
  BY NextBells
<1>3. IInv /\ IInv' /\ BellsInv /\ CountInv /\ [Next]_vars => CountInv'
  BY <1>1, NextCounts
<1>4. CountInv => CountersExact
  BY CountersMeaning
<1> QED
  BY <1>2, <1>3, <1>4, InitBells, InitCounts, Invariance, PTL DEF Spec

-----------------------------------------------------------------------------
(* Registration, when nothing fails for good.                              *)

\* Allocations succeed, run lists are sent, and the firmware preempts or at worst
\* reports a queue that does not respond: no hang, and so no destroy that fails.
Obeyed == /\ ~NoMemory
          /\ UnmapOutcomes \subseteq {"ok", "unresponsive"}
          /\ MapOutcomes \subseteq {"ok"}

\* RegisteredWhileNeeded for one process.
Needed(qp, o) ==
  \/ o.at \in {"create", "reserved", "destroyed"}
  \/ o.at # "terminating" /\ (qp.queues_list # {} \/ qp.diq # NONE)

NeedInv(n, qp, o, f) == f = FALSE /\ n = IF Needed(qp, o) THEN 1 ELSE 0

NeedsInv ==
  /\ ~dqm.is_hws_hang
  /\ \A p \in Procs : NeedInv(dqm.registered[p], qpd[p], op[p], failed[p])

LEMMA UnmapObeyed ==
  ASSUME Obeyed, NEW d \in Dqm, ~d.is_hws_hang, NEW h, NEW x \in unmap_queues_cpsch(d, h)
  PROVE  x.d \in Dqm /\ ~x.d.is_hws_hang /\ x.ret \in {"0", "ETIME"}
<1>1. CASE x = Result(d, h, "0")
  BY <1>1 DEF Result
<1>2. CASE \E o \in UnmapOutcomes : x = unmap_result(d, h, o)
  <2>1. PICK o \in UnmapOutcomes : x = unmap_result(d, h, o)
    BY <1>2
  <2>2. CASE o = "ok"
    <3>1. x = Result([d EXCEPT !.active_runlist = FALSE], {}, "0")
      BY <2>1, <2>2 DEF unmap_result
    <3> QED BY <3>1 DEF Result, Dqm
  <2>3. CASE o = "unresponsive"
    <3>1. x = Result(d, h, "ETIME")
      BY <2>1, <2>3 DEF unmap_result
    <3> QED BY <3>1 DEF Result
  <2> QED BY <2>2, <2>3 DEF Obeyed
<1> QED BY <1>1, <1>2 DEF unmap_queues_cpsch

LEMMA MapObeyed ==
  ASSUME Obeyed, NEW d \in Dqm, ~d.is_hws_hang, NEW h, NEW run,
         NEW x \in map_queues_cpsch(d, h, run)
  PROVE  ~x.d.is_hws_hang /\ x.ret = "0"
<1>1. CASE x = Result(d, h, "0")
  BY <1>1 DEF Result
<1>2. CASE x = Result([d EXCEPT !.active_runlist = TRUE], run, "0")
  BY <1>2 DEF Result, Dqm
<1>3. x = Result(d, h, "0") \/ x = Result([d EXCEPT !.active_runlist = TRUE], run, "0")
  BY DEF map_queues_cpsch, Obeyed
<1> QED BY <1>1, <1>2, <1>3

LEMMA ExecuteObeyed ==
  ASSUME Obeyed, NEW d \in Dqm, ~d.is_hws_hang, NEW h, NEW run,
         NEW x \in execute_queues_cpsch(d, h, run)
  PROVE  ~x.d.is_hws_hang /\ x.ret \in {"0", "ETIME"}
<1>1. PICK u \in unmap_queues_cpsch(d, h) :
         x \in IF u.ret # "0" THEN {u} ELSE map_queues_cpsch(u.d, u.h, run)
  BY DEF execute_queues_cpsch
<1>2. u.d \in Dqm /\ ~u.d.is_hws_hang /\ u.ret \in {"0", "ETIME"}
  BY UnmapObeyed
<1>3. CASE u.ret # "0"
  BY <1>1, <1>2, <1>3
<1>4. CASE u.ret = "0"
  <2>1. x \in map_queues_cpsch(u.d, u.h, run)
    BY <1>1, <1>4
  <2> QED BY <1>2, <2>1, MapObeyed
<1> QED BY <1>3, <1>4

\* Neither a hang nor a failed destroy comes from a call into the dqm.
LEMMA CallObeyed ==
  ASSUME Obeyed, NeedsInv, NEW d \in Dqm, SameSched(dqm, d)
  PROVE  /\ Settled(d) \/ Executed(d) => ~dqm'.is_hws_hang
         /\ ~MayFail(d)
<1>1. ~d.is_hws_hang
  BY DEF NeedsInv, SameSched
<1>2. ~MayFail(d)
  BY <1>1, ExecuteObeyed DEF MayFail
<1>3. ASSUME Executed(d) PROVE ~dqm'.is_hws_hang
  <2> DEFINE run == Runnable(d, queue', qpd')
  <2>1. PICK x \in execute_queues_cpsch(d, hw, run) : dqm' = x.d
    BY <1>3, Zenon DEF Executed
  <2> HIDE DEF run
  <2> QED BY <1>1, <2>1, ExecuteObeyed
<1> QED BY <1>1, <1>2, <1>3 DEF Settled

\* A step of one process.
LEMMA NeedsAt ==
  ASSUME NeedsInv, NEW p \in Procs, Only(p), ~dqm'.is_hws_hang,
         \A r \in Procs \ {p} : dqm'.registered[r] = dqm.registered[r],
         NeedInv(dqm'.registered[p], qpd'[p], op'[p], failed'[p])
  PROVE  NeedsInv'
<1>1. \A r \in Procs \ {p} : NeedInv(dqm'.registered[r], qpd'[r], op'[r], failed'[r])
  BY DEF NeedsInv, Only
<1> QED BY <1>1 DEF NeedsInv

\* A step after which the process is needed in the list just as before.
LEMMA NeedsKept ==
  ASSUME Obeyed, IInv, NeedsInv, NEW p \in Procs, Only(p), NEW d \in Dqm, SameSched(dqm, d),
         Settled(d) \/ Executed(d), d.registered = dqm.registered,
         failed'[p] = FALSE, Needed(qpd'[p], op'[p]) <=> Needed(qpd[p], op[p])
  PROVE  NeedsInv'
<1>1. dqm'.registered = dqm.registered /\ ~dqm'.is_hws_hang
  BY AfterCall, CallObeyed
<1>2. NeedInv(dqm.registered[p], qpd[p], op[p], failed[p])
  BY DEF NeedsInv
<1>3. NeedInv(dqm'.registered[p], qpd'[p], op'[p], failed'[p])
  BY <1>1, <1>2 DEF NeedInv
<1> QED BY <1>1, <1>3, NeedsAt

LEMMA CreateBeginNeeds ==
  ASSUME Obeyed, IInv, NeedsInv, NEW p \in Procs, NEW on \in BOOLEAN,
         NEW type \in {COMPUTE, DIQ} \cup SdmaTypes, create_begin(p, type, on)
  PROVE  NeedsInv'
<1>1. /\ Only(p) /\ qpd'[p] = qpd[p] /\ failed'[p] = failed[p]
      /\ op[p].at = "none" /\ op'[p].at = "create"
  BY CreateBeginEffect
<1>2. NeedInv(dqm.registered[p], qpd[p], op[p], failed[p]) /\ ~dqm.is_hws_hang
  BY DEF NeedsInv
<1>3. dqm \in Dqm
  BY RegNumbers
<1>4. CASE NoQueues(p) /\ Settled(register_process(dqm, p))
  <2> DEFINE d == register_process(dqm, p)
  <2>1. /\ d.registered[p] = dqm.registered[p] + 1 /\ SameSched(dqm, d)
        /\ \A r \in Procs \ {p} : d.registered[r] = dqm.registered[r]
    BY <1>3, RegisterFacts
  <2>2. dqm' = d
    BY <1>4 DEF Settled
  <2> HIDE DEF d
  <2>3. dqm.registered[p] = 0
    BY <1>1, <1>2, <1>4 DEF NeedInv, Needed, NoQueues
  <2>4. NeedInv(dqm'.registered[p], qpd'[p], op'[p], failed'[p])
    BY <1>1, <1>2, <2>1, <2>2, <2>3 DEF NeedInv, Needed
  <2>5. ~dqm'.is_hws_hang
    BY <1>2, <2>1, <2>2 DEF SameSched
  <2> QED BY <1>1, <2>1, <2>2, <2>4, <2>5, NeedsAt
<1>5. CASE ~NoQueues(p) /\ Settled(dqm)
  <2>1. Needed(qpd'[p], op'[p]) /\ Needed(qpd[p], op[p])
    BY <1>1, <1>5 DEF Needed, NoQueues
  <2>2. SameSched(dqm, dqm) /\ failed'[p] = FALSE
    BY <1>1, <1>2 DEF SameSched, NeedInv
  <2> QED BY <1>1, <1>3, <1>5, <2>1, <2>2, NeedsKept
<1> QED BY <1>4, <1>5, CreateBeginEffect DEF Obeyed

LEMMA UndoneNeeds ==
  ASSUME Obeyed, IInv, NeedsInv, NEW p \in Procs, NEW d \in Dqm, Undone(p, d),
         op[p].at \in {"create", "reserved", "destroyed"},
         SameSched(dqm, d), d.registered = dqm.registered
  PROVE  NeedsInv'
<1>1. /\ Only(p) /\ failed'[p] = failed[p] /\ op'[p].at = "none"
      /\ qpd'[p].queues_list = qpd[p].queues_list /\ qpd'[p].diq = qpd[p].diq
  BY DEF Undone
<1>2. NeedInv(dqm.registered[p], qpd[p], op[p], failed[p]) /\ ~dqm.is_hws_hang
  BY DEF NeedsInv
<1>3. dqm.registered[p] = 1 /\ failed[p] = FALSE
  BY <1>2 DEF NeedInv, Needed
<1>4. CASE NoQueues(p)
  <2> DEFINE e == unregister_process(d, p)
  <2>1. /\ e.registered[p] = IF d.registered[p] = 0 THEN 0 ELSE d.registered[p] - 1
        /\ SameSched(d, e)
        /\ \A r \in Procs \ {p} : e.registered[r] = d.registered[r]
    BY RegisterFacts
  <2>2. dqm' = e
    BY <1>4 DEF Settled, Undone
  <2> HIDE DEF e
  <2>3. e.registered[p] = 0
    BY <1>3, <2>1
  <2>4. NeedInv(dqm'.registered[p], qpd'[p], op'[p], failed'[p])
    BY <1>1, <1>3, <1>4, <2>2, <2>3 DEF NeedInv, Needed, NoQueues
  <2>5. ~dqm'.is_hws_hang
    BY <1>2, <2>1, <2>2 DEF SameSched
  <2> QED BY <1>1, <2>1, <2>2, <2>4, <2>5, NeedsAt
<1>5. CASE ~NoQueues(p)
  <2>1. Settled(d)
    BY <1>5 DEF Undone
  <2>2. Needed(qpd'[p], op'[p]) /\ Needed(qpd[p], op[p])
    BY <1>1, <1>5 DEF Needed, NoQueues
  <2> QED BY <1>1, <1>3, <2>1, <2>2, NeedsKept
<1> QED BY <1>4, <1>5

LEMMA CreateUndoneNeeds ==
  ASSUME Obeyed, IInv, NeedsInv, NEW p \in Procs,
         create_refused(p) \/ create_kernel_queue_refused(p) \/ destroy_finish(p)
  PROVE  NeedsInv'
<1>1. dqm \in Dqm /\ SameSched(dqm, dqm)
  BY RegNumbers DEF SameSched
<1>2. op[p].at \in {"create", "destroyed"} /\ Undone(p, dqm)
  BY CreateRefusedEffect, DestroyFinishEffect
<1> QED BY <1>1, <1>2, UndoneNeeds

\* The steps of a creation or a destruction that keep the process where it is.
LEMMA CreateNeeds ==
  ASSUME Obeyed, IInv, NeedsInv, NEW p \in Procs,
         \/ create_reserve(p) \/ create_queue_cpsch(p) \/ create_kernel_queue_cpsch(p)
         \/ destroy_kernel_queue_cpsch(p)
  PROVE  NeedsInv'
<1>1. failed[p] = FALSE
  BY DEF NeedsInv, NeedInv
<1>2. CASE create_reserve(p)
  <2>1. Only(p) /\ failed'[p] = failed[p] /\ op[p].at = "create" /\ op'[p].at = "reserved"
    BY <1>2, CreateReserveEffect
  <2>2. PICK d \in Dqm : SameSched(dqm, d) /\ d.registered = dqm.registered /\ Settled(d)
    BY <1>2, CreateReserveEffect
  <2>3. Needed(qpd'[p], op'[p]) /\ Needed(qpd[p], op[p])
    BY <2>1 DEF Needed
  <2> QED BY <1>1, <2>1, <2>2, <2>3, NeedsKept
<1>3. CASE create_queue_cpsch(p)
  <2>1. /\ Only(p) /\ failed'[p] = failed[p] /\ op[p].at = "reserved" /\ op'[p].at = "none"
        /\ qpd'[p].queues_list = qpd[p].queues_list \cup {op[p].qid}
    BY <1>3, CreateQueueEffect
  <2>2. PICK d \in Dqm : /\ SameSched(dqm, d) /\ d.registered = dqm.registered
                         /\ Settled(d) \/ Executed(d)
    BY <1>3, CreateQueueEffect
  <2>3. Needed(qpd'[p], op'[p]) /\ Needed(qpd[p], op[p])
    BY <2>1 DEF Needed
  <2> QED BY <1>1, <2>1, <2>2, <2>3, NeedsKept
<1>4. CASE create_kernel_queue_cpsch(p) \/ destroy_kernel_queue_cpsch(p)
  <2>1. Only(p) /\ failed'[p] = failed[p]
    BY <1>4, CreateKernelQueueEffect, DestroyKernelQueueEffect
  <2>2. PICK d \in Dqm : SameSched(dqm, d) /\ d.registered = dqm.registered /\ Executed(d)
    BY <1>4, CreateKernelQueueEffect, DestroyKernelQueueEffect
  <2>3. \/ op[p].at = "create" /\ op'[p].at = "none" /\ qpd'[p].diq \in Qids
        \/ op[p].at = "none" /\ op'[p].at = "destroyed" /\ qpd[p].diq \in Qids
    BY <1>4, CreateKernelQueueEffect, DestroyKernelQueueEffect
  <2>4. Needed(qpd'[p], op'[p]) /\ Needed(qpd[p], op[p])
    BY <2>3, IdsAreNumbers DEF Needed
  <2> QED BY <1>1, <2>1, <2>2, <2>4, NeedsKept
<1> QED BY <1>2, <1>3, <1>4

LEMMA DestroyQueueNeeds ==
  ASSUME Obeyed, IInv, NeedsInv, NEW p \in Procs, NEW qid \in Qids, destroy_queue_cpsch(p, qid)
  PROVE  NeedsInv'
<1>1. failed[p] = FALSE
  BY DEF NeedsInv, NeedInv
<1>2. Only(p) /\ op[p].at = "none" /\ qid \in qpd[p].queues_list
  BY <1>1, DestroyQueueEffect
<1>3. PICK d \in Dqm : /\ SameSched(dqm, d) /\ d.registered = dqm.registered
                       /\ Settled(d) \/ Executed(d)
                       /\ \/ op'[p].at = "destroyed" /\ failed'[p] = failed[p]
                          \/ MayFail(d)
  BY DestroyQueueEffect
<1>4. op'[p].at = "destroyed" /\ failed'[p] = FALSE
  BY <1>3, <1>1, CallObeyed
<1>5. Needed(qpd'[p], op'[p]) /\ Needed(qpd[p], op[p])
  BY <1>2, <1>4 DEF Needed
<1> QED BY <1>2, <1>3, <1>4, <1>5, NeedsKept

LEMMA UpdateQueueNeeds ==
  ASSUME Obeyed, IInv, NeedsInv, NEW p \in Procs, update_queue(p)
  PROVE  NeedsInv'
<1> DEFINE old == queue[p][op[p].qid]
           new == queue'[p][op[p].qid]
<1>1. /\ Only(p) /\ failed'[p] = failed[p] /\ qpd'[p] = qpd[p]
      /\ op[p].at = "update" /\ op'[p].at = "none"
  BY UpdateQueueEffect
<1>2. PICK u \in unmap_queues_cpsch(dqm, hw) :
         /\ u.d \in Dqm /\ u.d.registered = dqm.registered
         /\ \/ dqm' = u.d
            \/ \E d \in Dqm : Recounted(u.d, d, old, new) /\ Mapped(d, u.h)
  BY UpdateQueueEffect
<1>3. ~u.d.is_hws_hang
  BY UnmapObeyed, RegNumbers DEF NeedsInv
<1>4. dqm'.registered = dqm.registered /\ ~dqm'.is_hws_hang
  <2>1. CASE \E d \in Dqm : Recounted(u.d, d, old, new) /\ Mapped(d, u.h)
    <3>1. PICK d \in Dqm : Recounted(u.d, d, old, new) /\ Mapped(d, u.h)
      BY <2>1
    <3> DEFINE run == Runnable(d, queue', qpd')
    <3>2. PICK x \in map_queues_cpsch(d, u.h, run) : dqm' = x.d
      BY <3>1, Zenon DEF Mapped
    <3>3. d.registered = u.d.registered /\ ~d.is_hws_hang
      BY <1>3, <3>1 DEF Recounted, SameSched
    <3> HIDE DEF run
    <3>4. x.d.registered = d.registered
      <4>1. CASE x = Result(d, u.h, "0")
        BY <4>1 DEF Result
      <4>2. CASE x = Result([d EXCEPT !.active_runlist = TRUE], run, "0")
        BY <4>2 DEF Result, Dqm
      <4>3. CASE x = Result(d, u.h, "ENOMEM")
        BY <4>3 DEF Result
      <4> QED BY <4>1, <4>2, <4>3 DEF map_queues_cpsch
    <3>5. ~x.d.is_hws_hang
      BY <3>3, MapObeyed
    <3> QED BY <1>2, <3>2, <3>3, <3>4, <3>5
  <2> QED BY <1>2, <1>3, <2>1
<1>5. NeedInv(dqm.registered[p], qpd[p], op[p], failed[p])
  BY DEF NeedsInv
<1>6. NeedInv(dqm'.registered[p], qpd'[p], op'[p], failed'[p])
  BY <1>1, <1>4, <1>5 DEF NeedInv, Needed
<1> QED BY <1>1, <1>4, <1>6, NeedsAt

\* The steps that leave the lists alone.
LEMMA KeptListsNeeds ==
  ASSUME Obeyed, IInv, NeedsInv, NEW p \in Procs,
         \/ evict_process_queues_cpsch(p) \/ restore_process_queues_cpsch(p)
         \/ release_begin(p) \/ new_process(p)
         \/ \E qid \in Qids, b \in BOOLEAN : pqm_update_queue(p, qid, b) \/ pqm_set_gws(p, qid, b)
  PROVE  NeedsInv'
<1>1. failed[p] = FALSE
  BY DEF NeedsInv, NeedInv
<1>2. dqm \in Dqm /\ SameSched(dqm, dqm)
  BY RegNumbers DEF SameSched
<1>3. CASE evict_process_queues_cpsch(p) \/ restore_process_queues_cpsch(p)
  <2>1. KeptLists(p)
    BY <1>3, EvictEffect, RestoreEffect
  <2>2. \/ Settled(dqm)
        \/ \E d \in Dqm : SameSched(dqm, d) /\ d.registered = dqm.registered /\ Executed(d)
    BY <1>3, EvictEffect, RestoreEffect
  <2>3. PICK d \in Dqm : /\ SameSched(dqm, d) /\ d.registered = dqm.registered
                         /\ Settled(d) \/ Executed(d)
    BY <1>2, <2>2
  <2>4. /\ Only(p) /\ failed'[p] = FALSE
        /\ Needed(qpd'[p], op'[p]) <=> Needed(qpd[p], op[p])
    BY <1>1, <2>1 DEF KeptLists, Needed
  <2> QED BY <2>3, <2>4, NeedsKept
<1>4. CASE release_begin(p) \/ new_process(p)
  <2>1. /\ Only(p) /\ Settled(dqm) /\ failed'[p] = FALSE
        /\ Needed(qpd'[p], op'[p]) <=> Needed(qpd[p], op[p])
    BY <1>1, <1>4, ReleaseEffect
  <2> QED BY <1>2, <2>1, NeedsKept
<1>5. CASE \E qid \in Qids, b \in BOOLEAN : pqm_update_queue(p, qid, b) \/ pqm_set_gws(p, qid, b)
  <2>1. /\ Only(p) /\ Settled(dqm) /\ failed'[p] = failed[p]
        /\ op[p].at = "none" /\ op'[p].at = "update"
        /\ qpd'[p].queues_list = qpd[p].queues_list /\ qpd'[p].diq = qpd[p].diq
    BY <1>5, UpdateBeginEffect
  <2>2. Needed(qpd'[p], op'[p]) <=> Needed(qpd[p], op[p])
    BY <2>1 DEF Needed
  <2> QED BY <1>1, <1>2, <2>1, <2>2, NeedsKept
<1> QED BY <1>3, <1>4, <1>5

LEMMA TerminateNeeds ==
  ASSUME Obeyed, IInv, NeedsInv, NEW p \in Procs, process_termination_cpsch(p)
  PROVE  NeedsInv'
<1> DEFINE d == terminate_clear(p)
<1>1. /\ Only(p) /\ failed'[p] = failed[p] /\ op'[p].at = "terminating"
      /\ dqm'.registered = d.registered /\ (d.registered[p] = 0 => Executed(d))
  BY TerminateEffect
<1>2. /\ d \in Dqm /\ SameSched(dqm, d)
      /\ \A r \in Procs \ {p} : d.registered[r] = dqm.registered[r]
      /\ d.registered[p] = IF dqm.registered[p] = 0 THEN 0 ELSE dqm.registered[p] - 1
  BY TerminateClearFacts
<1> HIDE DEF d
<1>3. NeedInv(dqm.registered[p], qpd[p], op[p], failed[p])
  BY DEF NeedsInv
<1>4. d.registered[p] = 0 /\ failed[p] = FALSE
  BY <1>2, <1>3 DEF NeedInv
<1>5. NeedInv(dqm'.registered[p], qpd'[p], op'[p], failed'[p])
  BY <1>1, <1>4 DEF NeedInv, Needed
<1>6. ~dqm'.is_hws_hang
  BY <1>1, <1>2, <1>4, CallObeyed
<1> QED BY <1>1, <1>2, <1>5, <1>6, NeedsAt

LEMMA TerminatedNeeds ==
  ASSUME Obeyed, IInv, NeedsInv, NEW p \in Procs, terminate_free_mqd(p) \/ pqm_uninit(p)
  PROVE  NeedsInv'
<1>1. Only(p) /\ failed'[p] = failed[p] /\ op[p].at = "terminating" /\ Settled(dqm)
  BY FreeMqdEffect, UninitEffect
<1>2. \/ op'[p].at = "terminating"
      \/ op'[p].at = "none" /\ qpd'[p].queues_list = {} /\ qpd'[p].diq = NONE
  BY <1>1, FreeMqdEffect, UninitEffect
<1>3. ~Needed(qpd'[p], op'[p]) /\ ~Needed(qpd[p], op[p])
  BY <1>1, <1>2 DEF Needed
<1>4. dqm \in Dqm /\ SameSched(dqm, dqm) /\ failed[p] = FALSE
  BY RegNumbers DEF SameSched, NeedsInv, NeedInv
<1> QED BY <1>1, <1>3, <1>4, NeedsKept

LEMMA DeviceNeeds ==
  ASSUME Obeyed, IInv, NeedsInv, pre_reset \/ stop_cpsch \/ start_cpsch
  PROVE  NeedsInv'
<1>1. /\ qpd' = qpd /\ op' = op /\ failed' = failed
      /\ dqm \in Dqm /\ dqm' \in Dqm /\ dqm'.registered = dqm.registered
  BY DeviceEffect
<1>2. ~dqm.is_hws_hang
  BY DEF NeedsInv
<1>3. CASE pre_reset
  <2>1. ~dqm'.is_hws_hang
    BY <1>1, <1>2, <1>3 DEF pre_reset, Dqm
  <2> QED BY <1>1, <2>1 DEF NeedsInv
<1>4. CASE stop_cpsch
  <2>1. PICK u \in unmap_queues_cpsch(dqm, hw) : dqm' = [u.d EXCEPT !.sched_running = FALSE]
    BY <1>2, <1>4 DEF stop_cpsch
  <2>2. u.d \in Dqm /\ ~u.d.is_hws_hang
    BY <1>1, <1>2, UnmapObeyed
  <2>3. ~dqm'.is_hws_hang
    BY <2>1, <2>2 DEF Dqm
  <2> QED BY <1>1, <2>3 DEF NeedsInv
<1>5. CASE start_cpsch
  <2> DEFINE d == [dqm EXCEPT !.is_hws_hang = FALSE, !.is_resetting = FALSE,
                              !.sched_running = TRUE]
             run == Runnable(d, queue, qpd)
             none == {}
  <2>1. d \in Dqm /\ ~d.is_hws_hang
    BY <1>1 DEF Dqm
  <2>2. PICK x \in execute_queues_cpsch(d, none, run) : dqm' = x.d /\ hw' = x.h
    BY <1>5 DEF start_cpsch
  <2> HIDE DEF d, run, none
  <2>3. ~dqm'.is_hws_hang
    BY <2>1, <2>2, ExecuteObeyed
  <2> QED BY <1>1, <2>3 DEF NeedsInv
<1> QED BY <1>3, <1>4, <1>5

LEMMA NextNeeds ==
  ASSUME Obeyed, IInv, NeedsInv, [Next]_vars
  PROVE  NeedsInv'
<1>1. CASE UNCHANGED vars
  BY <1>1 DEF vars, NeedsInv
<1>2. ASSUME NEW p \in Procs, Call(p) PROVE NeedsInv'
  <2>1. CASE create_call(p)
    <3>1. ASSUME NEW type \in Types, NEW on \in BOOLEAN,
                 create_begin(p, type, on)
          PROVE  NeedsInv'
      <4>1. type \in {COMPUTE, DIQ} \cup SdmaTypes
        BY OpuQueuesAssumption
      <4> QED
        BY <3>1, <4>1, CreateBeginNeeds
    <3>2. CASE create_begin(p, DIQ, TRUE)
      BY <3>2, CreateBeginNeeds
    <3> QED
      BY <2>1, <3>1, <3>2 DEF create_call
  <2>2. CASE \E qid \in Qids :
                \/ destroy_queue_cpsch(p, qid)
                \/ \E on \in BOOLEAN : pqm_update_queue(p, qid, on)
                \/ \E gws \in BOOLEAN : pqm_set_gws(p, qid, gws)
    BY <2>2, DestroyQueueNeeds, KeptListsNeeds
  <2>3. destroy_kernel_queue_cpsch(p) => NeedsInv'
    BY CreateNeeds
  <2>4. CASE release_begin(p) \/ new_process(p)
    BY <2>4, KeptListsNeeds
  <2> QED
    BY <1>2, <2>1, <2>2, <2>3, <2>4 DEF Call
<1>3. ASSUME NEW p \in Procs, Proceed(p) PROVE NeedsInv'
  <2>1. ~create_no_mqd(p)
    BY DEF create_no_mqd, Obeyed
  <2> QED
    BY <1>3, <2>1, CreateUndoneNeeds, CreateNeeds, UpdateQueueNeeds, TerminateNeeds,
       TerminatedNeeds DEF Proceed
<1>4. ASSUME NEW p \in Procs,
             evict_process_queues_cpsch(p) \/ restore_process_queues_cpsch(p)
      PROVE  NeedsInv'
  BY <1>4, KeptListsNeeds
<1>5. CASE pre_reset \/ stop_cpsch \/ start_cpsch
  BY <1>5, DeviceNeeds
<1> QED
  BY <1>1, <1>2, <1>3, <1>4, <1>5 DEF Next

LEMMA InitNeeds == Init => NeedsInv
<1> SUFFICES ASSUME Init PROVE NeedsInv
  OBVIOUS
<1>1. ~dqm.is_hws_hang
  BY DEF Init
<1>2. \A p \in Procs : /\ dqm.registered[p] = 0 /\ op[p].at = "none" /\ failed[p] = FALSE
                       /\ qpd[p].queues_list = {} /\ qpd[p].diq = NONE
  BY DEF Init, NoOp, FreshQpd
<1> QED BY <1>1, <1>2 DEF NeedsInv, NeedInv, Needed

LEMMA NeedsMeaning == NeedsInv => RegisteredWhileNeeded
BY DEF NeedsInv, NeedInv, Needed, RegisteredWhileNeeded, NoQueues

\* A process is in the list of the dqm once, from the call that creates its first
\* queue to the end of the one that destroys its last, and never when it is being
\* terminated: for any number of processes and queues, in every interleaving with
\* evictions, suspends and resets.  The hypothesis is that allocations succeed, a
\* run list is sent, and a preemption ends at worst with a queue that does not
\* respond: register_process may fail unnoticed, and a failed destroy returns
\* before the process is unregistered.
THEOREM RegisteredExactly ==
  ASSUME ~NoMemory, UnmapOutcomes \subseteq {"ok", "unresponsive"}, MapOutcomes \subseteq {"ok"}
  PROVE  Spec => []RegisteredWhileNeeded
<1>1. Obeyed
  BY DEF Obeyed
<1>2. IInv /\ NeedsInv /\ [Next]_vars => NeedsInv'
  BY <1>1, NextNeeds
<1> QED
  BY <1>2, InitNeeds, NeedsMeaning, Invariance, PTL DEF Spec

-----------------------------------------------------------------------------
(* The run list, when everything is obeyed.                                *)

SameActive(d, e) == e.active_queue_count = d.active_queue_count

\* A section that leaves the run list alone, and one that has it rebuilt.
Quiet == \E d \in Dqm : SameSched(dqm, d) /\ SameActive(dqm, d) /\ Settled(d)
Rebuilt == \E d \in Dqm : SameSched(dqm, d) /\ Executed(d)

LEMMA CreateForm ==
  ASSUME IInv, NEW p \in Procs, NEW on \in BOOLEAN,
         NEW type \in {COMPUTE, DIQ} \cup SdmaTypes, create_begin(p, type, on)
  PROVE  Quiet
<1>1. dqm \in Dqm /\ SameSched(dqm, dqm) /\ SameActive(dqm, dqm)
  BY RegNumbers DEF SameSched, SameActive
<1>2. /\ register_process(dqm, p) \in Dqm /\ SameSched(dqm, register_process(dqm, p))
      /\ SameActive(dqm, register_process(dqm, p))
  BY <1>1, RegisterFacts DEF SameCounts, SameActive
<1>3. Settled(register_process(dqm, p)) \/ Settled(dqm)
  BY CreateBeginEffect
<1> QED BY <1>1, <1>2, <1>3 DEF Quiet

LEMMA CallForm ==
  ASSUME IInv, NEW p \in Procs,
         \/ destroy_kernel_queue_cpsch(p) \/ release_begin(p) \/ new_process(p)
         \/ \E qid \in Qids : \/ destroy_queue_cpsch(p, qid)
                               \/ \E b \in BOOLEAN : \/ pqm_update_queue(p, qid, b)
                                                     \/ pqm_set_gws(p, qid, b)
         \/ evict_process_queues_cpsch(p) \/ restore_process_queues_cpsch(p)
  PROVE  Quiet \/ Rebuilt
<1>1. dqm \in Dqm /\ SameSched(dqm, dqm) /\ SameActive(dqm, dqm)
  BY RegNumbers DEF SameSched, SameActive
<1>2. CASE Settled(dqm)
  BY <1>1, <1>2 DEF Quiet
<1>3. CASE destroy_kernel_queue_cpsch(p)
  BY <1>3, DestroyKernelQueueEffect DEF Rebuilt
<1>4. ASSUME NEW qid \in Qids, destroy_queue_cpsch(p, qid) PROVE Quiet \/ Rebuilt
  <2>1. PICK d \in Dqm : /\ SameSched(dqm, d)
                         /\ d.active_queue_count = IF queue[p][qid].is_active
                                                   THEN Dec(dqm.active_queue_count)
                                                   ELSE dqm.active_queue_count
                         /\ IF queue[p][qid].is_active THEN Executed(d) ELSE Settled(d)
    BY <1>4, DestroyQueueEffect
  <2> QED BY <2>1 DEF Quiet, Rebuilt, SameActive
<1>5. CASE evict_process_queues_cpsch(p) \/ restore_process_queues_cpsch(p)
  <2>1. Settled(dqm) \/ \E d \in Dqm : SameSched(dqm, d) /\ Executed(d)
    BY <1>5, EvictEffect, RestoreEffect
  <2> QED BY <1>2, <2>1 DEF Rebuilt
<1>6. release_begin(p) \/ new_process(p) => Settled(dqm)
  BY ReleaseEffect
<1>7. (\E qid \in Qids, b \in BOOLEAN : pqm_update_queue(p, qid, b) \/ pqm_set_gws(p, qid, b))
        => Settled(dqm)
  BY UpdateBeginEffect
<1> QED BY <1>2, <1>3, <1>4, <1>5, <1>6, <1>7

LEMMA ProceedForm ==
  ASSUME Obeyed, IInv, NeedsInv, NEW p \in Procs, Proceed(p), ~update_queue(p)
  PROVE  Quiet \/ Rebuilt
<1>1. dqm \in Dqm /\ SameSched(dqm, dqm) /\ SameActive(dqm, dqm)
  BY RegNumbers DEF SameSched, SameActive
<1>2. CASE create_refused(p) \/ create_kernel_queue_refused(p) \/ destroy_finish(p)
  <2> DEFINE d == unregister_process(dqm, p)
  <2>1. Settled(IF NoQueues(p) THEN d ELSE dqm)
    BY <1>2, CreateRefusedEffect, DestroyFinishEffect DEF Undone
  <2>2. d \in Dqm /\ SameSched(dqm, d) /\ SameActive(dqm, d)
    BY <1>1, RegisterFacts DEF SameCounts, SameActive
  <2> HIDE DEF d
  <2> QED BY <1>1, <2>1, <2>2 DEF Quiet
<1>3. CASE create_reserve(p)
  BY <1>3, CreateReserveEffect DEF Quiet, SameCounts, SameActive
<1>4. CASE create_queue_cpsch(p)
  <2> DEFINE on == queue'[p][op[p].qid].is_active
  <2>1. PICK d \in Dqm : /\ SameSched(dqm, d)
                         /\ d.active_queue_count = IF on THEN Inc(dqm.active_queue_count)
                                                   ELSE dqm.active_queue_count
                         /\ IF on THEN Executed(d) ELSE Settled(d)
    BY <1>4, CreateQueueEffect
  <2> HIDE DEF on
  <2> QED BY <2>1 DEF Quiet, Rebuilt, SameActive
<1>5. CASE create_kernel_queue_cpsch(p)
  BY <1>5, CreateKernelQueueEffect DEF Rebuilt
<1>6. CASE process_termination_cpsch(p)
  <2> DEFINE d == terminate_clear(p)
  <2>1. d.registered[p] = 0 => Executed(d)
    BY <1>6, TerminateEffect
  <2>2. /\ d \in Dqm /\ SameSched(dqm, d)
        /\ d.registered[p] = IF dqm.registered[p] = 0 THEN 0 ELSE dqm.registered[p] - 1
    BY TerminateClearFacts
  <2> HIDE DEF d
  <2>3. dqm.registered[p] \in {0, 1}
    BY DEF NeedsInv, NeedInv
  <2> QED BY <2>1, <2>2, <2>3 DEF Rebuilt
<1>7. CASE terminate_free_mqd(p) \/ pqm_uninit(p)
  <2>1. Settled(dqm)
    BY <1>7, FreeMqdEffect, UninitEffect
  <2> QED BY <1>1, <2>1 DEF Quiet
<1>8. ~create_no_mqd(p)
  BY DEF create_no_mqd, Obeyed
<1> QED BY <1>2, <1>3, <1>4, <1>5, <1>6, <1>7, <1>8 DEF Proceed

\* Every step is of one of these forms.
LEMMA NextForm ==
  ASSUME Obeyed, IInv, NeedsInv, Next
  PROVE  \/ Quiet \/ Rebuilt \/ \E p \in Procs : update_queue(p)
         \/ pre_reset \/ stop_cpsch \/ start_cpsch
<1>1. ASSUME NEW p \in Procs, create_call(p) PROVE Quiet
  <2>1. ASSUME NEW type \in Types, NEW on \in BOOLEAN, create_begin(p, type, on)
        PROVE  Quiet
    <3>1. type \in {COMPUTE, DIQ} \cup SdmaTypes
      BY OpuQueuesAssumption
    <3> QED BY <2>1, <3>1, CreateForm
  <2>2. CASE create_begin(p, DIQ, TRUE)
    BY <2>2, CreateForm
  <2> QED BY <1>1, <2>1, <2>2 DEF create_call
<1>2. ASSUME NEW p \in Procs, Call(p) PROVE Quiet \/ Rebuilt
  BY <1>1, <1>2, CallForm DEF Call
<1>3. ASSUME NEW p \in Procs, Proceed(p) PROVE Quiet \/ Rebuilt \/ update_queue(p)
  BY <1>3, ProceedForm
<1>4. ASSUME NEW p \in Procs, evict_process_queues_cpsch(p) \/ restore_process_queues_cpsch(p)
      PROVE  Quiet \/ Rebuilt
  BY <1>4, CallForm
<1> QED BY <1>2, <1>3, <1>4 DEF Next

\* Preemption and mapping are obeyed.
Perfect == Obeyed /\ UnmapOutcomes \subseteq {"ok"}

\* The dqm has something to run, and knows a process to run it for.
HasWork(d) == d.active_queue_count # 0 /\ \E r \in Procs : d.registered[r] # 0

LEMMA UnmapPerfect ==
  ASSUME Perfect, NEW d \in Dqm, d.sched_running, ~d.is_hws_hang, NEW h,
         NEW x \in unmap_queues_cpsch(d, h)
  PROVE  /\ x.ret = "0" /\ ~x.d.active_runlist /\ x.d \in Dqm
         /\ x.d.sched_running /\ SameCounts(d, x.d) /\ x.d.registered = d.registered
<1>1. CASE d.active_runlist
  <2>1. x = unmap_result(d, h, "ok")
    BY <1>1 DEF unmap_queues_cpsch, Perfect
  <2>2. x = Result([d EXCEPT !.active_runlist = FALSE], {}, "0")
    BY <2>1 DEF unmap_result
  <2> QED BY <2>2 DEF Result, Dqm, SameCounts
<1>2. CASE ~d.active_runlist
  <2>1. x = Result(d, h, "0")
    BY <1>2 DEF unmap_queues_cpsch
  <2> QED BY <1>2, <2>1 DEF Result, SameCounts
<1> QED BY <1>1, <1>2

LEMMA MapPerfect ==
  ASSUME Perfect, NEW d \in Dqm, d.sched_running, ~d.active_runlist, NEW h, NEW run,
         NEW x \in map_queues_cpsch(d, h, run)
  PROVE  x.d.active_runlist <=> HasWork(d)
<1>1. CASE HasWork(d)
  <2>1. x = Result([d EXCEPT !.active_runlist = TRUE], run, "0")
    BY <1>1 DEF map_queues_cpsch, HasWork, Perfect, Obeyed
  <2> QED BY <1>1, <2>1 DEF Result, Dqm
<1>2. CASE ~HasWork(d)
  <2>1. x = Result(d, h, "0")
    BY <1>2 DEF map_queues_cpsch, HasWork
  <2> QED BY <1>2, <2>1 DEF Result
<1> QED BY <1>1, <1>2

LEMMA ExecutePerfect ==
  ASSUME Perfect, NEW d \in Dqm, d.sched_running, ~d.is_hws_hang, NEW h, NEW run,
         NEW x \in execute_queues_cpsch(d, h, run)
  PROVE  x.d.active_runlist <=> HasWork(d)
<1>1. PICK u \in unmap_queues_cpsch(d, h) :
         x \in IF u.ret # "0" THEN {u} ELSE map_queues_cpsch(u.d, u.h, run)
  BY DEF execute_queues_cpsch
<1>2. /\ u.ret = "0" /\ ~u.d.active_runlist /\ u.d \in Dqm
      /\ u.d.sched_running /\ SameCounts(d, u.d) /\ u.d.registered = d.registered
  BY UnmapPerfect
<1>3. x \in map_queues_cpsch(u.d, u.h, run)
  BY <1>1, <1>2
<1>4. x.d.active_runlist <=> HasWork(u.d)
  BY <1>2, <1>3, MapPerfect
<1> QED BY <1>2, <1>4 DEF HasWork, SameCounts

\* active_runlist says whether anything is active.
RunInv == dqm.sched_running => (dqm.active_runlist <=> dqm.active_queue_count # 0)

\* What is active belongs to a process in the list.
Served == dqm.active_queue_count # 0 => \E r \in Procs : dqm.registered[r] # 0

LEMMA ActiveIsServed ==
  ASSUME NeedsInv, CountersExact
  PROVE  Served
<1> SUFFICES ASSUME dqm.active_queue_count # 0
             PROVE  \E r \in Procs : dqm.registered[r] # 0
  BY DEF Served
<1>1. Active # {}
  BY FS_EmptySet DEF CountersExact
<1>2. PICK x \in Procs \X Qids :
         op[x[1]].at # "terminating" /\ x[2] \in qpd[x[1]].queues_list \cup {qpd[x[1]].diq}
  BY <1>1 DEF Active, Accounted
<1> DEFINE r == x[1]
<1>3. r \in Procs /\ x[2] \in Qids
  OBVIOUS
<1>4. Needed(qpd[r], op[r])
  BY <1>2, <1>3, IdsAreNumbers DEF Needed
<1>5. dqm.registered[r] = 1
  BY <1>3, <1>4 DEF NeedsInv, NeedInv
<1> QED BY <1>3, <1>5

LEMMA RunnableIsActive ==
  ASSUME NeedsInv
  PROVE  Runnable(dqm, queue, qpd) = Active
<1> SUFFICES ASSUME NEW x \in Procs \X Qids
             PROVE  x \in Runnable(dqm, queue, qpd) <=> x \in Active
  BY DEF Runnable, Active, Accounted
<1>1. x[1] \in Procs /\ x[2] \in Qids /\ NONE \notin Qids
  BY IdsAreNumbers
<1>2. NeedInv(dqm.registered[x[1]], qpd[x[1]], op[x[1]], failed[x[1]])
  BY <1>1 DEF NeedsInv
<1>3. dqm.registered[x[1]] > 0 <=> Needed(qpd[x[1]], op[x[1]])
  BY <1>2 DEF NeedInv
<1>4. x \in Active <=> /\ op[x[1]].at # "terminating"
                       /\ x[2] \in qpd[x[1]].queues_list \cup {qpd[x[1]].diq}
                       /\ x[2] = qpd[x[1]].diq \/ queue[x[1]][x[2]].is_active
  BY DEF Active, Accounted
<1>5. x \in Runnable(dqm, queue, qpd) <=>
         /\ dqm.registered[x[1]] > 0
         /\ \/ x[2] \in qpd[x[1]].queues_list /\ queue[x[1]][x[2]].is_active
            \/ x[2] = qpd[x[1]].diq
  BY DEF Runnable
<1> QED BY <1>1, <1>3, <1>4, <1>5 DEF Needed

LEMMA CompleteMeaning ==
  ASSUME NeedsInv, CountersExact, RunlistFaithful, RunInv
  PROVE  RunlistComplete
<1>1. Runnable(dqm, queue, qpd) = Active
  BY RunnableIsActive
<1>2. dqm.active_queue_count = 0 <=> Active = {}
  <2>1. IsFiniteSet(Active)
    <3>1. Active \subseteq Procs \X Qids
      BY DEF Active, Accounted
    <3> QED BY <3>1, PairsFinite, FS_Subset
  <2> QED BY <2>1, FS_EmptySet DEF CountersExact
<1> QED BY <1>1, <1>2 DEF RunlistComplete, RunlistFaithful, RunInv

LEMMA RebuiltRuns ==
  ASSUME Perfect, IInv, NeedsInv, Served', Rebuilt
  PROVE  RunInv'
<1>1. PICK d \in Dqm : SameSched(dqm, d) /\ Executed(d)
  BY DEF Rebuilt
<1>2. ~d.is_hws_hang
  BY <1>1 DEF SameSched, NeedsInv
<1>3. /\ dqm'.active_queue_count = d.active_queue_count /\ dqm'.registered = d.registered
      /\ dqm'.sched_running = d.sched_running
  BY <1>1, AfterCall DEF SameCounts
<1>4. CASE d.sched_running
  <2> DEFINE run == Runnable(d, queue', qpd')
  <2>1. PICK x \in execute_queues_cpsch(d, hw, run) : dqm' = x.d
    BY <1>1, Zenon DEF Executed
  <2> HIDE DEF run
  <2>2. dqm'.active_runlist <=> HasWork(d)
    BY <1>2, <1>4, <2>1, ExecutePerfect
  <2>3. dqm'.active_queue_count # 0 => \E r \in Procs : dqm'.registered[r] # 0
    BY DEF Served
  <2> QED BY <1>3, <2>2, <2>3 DEF HasWork, RunInv
<1> QED BY <1>3, <1>4 DEF RunInv

LEMMA UpdateRuns ==
  ASSUME Perfect, IInv, NeedsInv, Served', NEW p \in Procs, update_queue(p)
  PROVE  RunInv'
<1> DEFINE old == queue[p][op[p].qid]
           new == queue'[p][op[p].qid]
<1>1. PICK u \in unmap_queues_cpsch(dqm, hw) :
         /\ u.d \in Dqm
         /\ \/ u.ret # "0" /\ dqm' = u.d
            \/ \E d \in Dqm : Recounted(u.d, d, old, new) /\ Mapped(d, u.h)
  BY UpdateQueueEffect
<1>2. dqm \in Dqm /\ ~dqm.is_hws_hang
  BY RegNumbers DEF NeedsInv
<1>3. CASE dqm.sched_running
  <2>1. u.ret = "0" /\ ~u.d.active_runlist /\ u.d.sched_running
    BY <1>2, <1>3, UnmapPerfect
  <2>2. PICK d \in Dqm : Recounted(u.d, d, old, new) /\ Mapped(d, u.h)
    BY <1>1, <2>1
  <2>3. ~d.active_runlist /\ d.sched_running
    BY <2>1, <2>2 DEF Recounted, SameSched
  <2> DEFINE run == Runnable(d, queue', qpd')
  <2>4. PICK x \in map_queues_cpsch(d, u.h, run) : dqm' = x.d
    BY <2>2, Zenon DEF Mapped
  <2> HIDE DEF run
  <2>5. dqm'.active_runlist <=> HasWork(d)
    BY <2>3, <2>4, MapPerfect
  <2>6. dqm'.active_queue_count = d.active_queue_count /\ dqm'.registered = d.registered
    <3>1. CASE x = Result(d, u.h, "0")
      BY <2>4, <3>1 DEF Result
    <3>2. CASE x = Result([d EXCEPT !.active_runlist = TRUE], run, "0")
      BY <2>4, <3>2 DEF Result, Dqm
    <3> QED BY <2>4, <3>1, <3>2 DEF map_queues_cpsch, Perfect, Obeyed
  <2>7. dqm'.active_queue_count # 0 => \E r \in Procs : dqm'.registered[r] # 0
    BY DEF Served
  <2> QED BY <2>5, <2>6, <2>7 DEF HasWork, RunInv
<1>4. CASE ~dqm.sched_running
  <2>1. u = Result(dqm, hw, "0")
    BY <1>4 DEF unmap_queues_cpsch
  <2>2. u.d = dqm /\ u.ret = "0"
    BY <2>1 DEF Result
  <2>3. PICK d \in Dqm : Recounted(u.d, d, old, new) /\ Mapped(d, u.h)
    BY <1>1, <2>2
  <2>4. ~d.sched_running
    BY <1>4, <2>2, <2>3 DEF Recounted, SameSched
  <2> DEFINE run == Runnable(d, queue', qpd')
  <2>5. PICK x \in map_queues_cpsch(d, u.h, run) : dqm' = x.d
    BY <2>3, Zenon DEF Mapped
  <2> HIDE DEF run
  <2>6. x = Result(d, u.h, "0")
    BY <2>4, <2>5 DEF map_queues_cpsch
  <2> QED BY <2>4, <2>5, <2>6 DEF Result, RunInv
<1> QED BY <1>2, <1>3, <1>4 DEF Dqm

LEMMA NextRuns ==
  ASSUME Perfect, IInv, NeedsInv, Served', RunInv, [Next]_vars
  PROVE  RunInv'
<1>1. Obeyed /\ dqm \in Dqm /\ ~dqm.is_hws_hang
  BY DEF Perfect, IInv, Base, TypeOK, NeedsInv
<1>2. CASE UNCHANGED vars
  BY <1>2 DEF vars, RunInv
<1>3. CASE Quiet
  BY <1>3 DEF Quiet, Settled, SameSched, SameActive, RunInv
<1>4. CASE pre_reset
  BY <1>1, <1>4 DEF pre_reset, Dqm, RunInv
<1>5. CASE stop_cpsch
  <2>1. PICK u \in unmap_queues_cpsch(dqm, hw) : dqm' = [u.d EXCEPT !.sched_running = FALSE]
    BY <1>1, <1>5 DEF stop_cpsch
  <2>2. u.d \in Dqm
    BY <1>1, UnmapObeyed
  <2>3. ~dqm'.sched_running
    BY <2>1, <2>2 DEF Dqm
  <2> QED BY <2>3 DEF RunInv
<1>6. CASE start_cpsch
  <2> DEFINE d == [dqm EXCEPT !.is_hws_hang = FALSE, !.is_resetting = FALSE,
                              !.sched_running = TRUE]
             run == Runnable(d, queue, qpd)
             none == {}
  <2>1. /\ d \in Dqm /\ ~d.is_hws_hang /\ d.sched_running /\ d.registered = dqm.registered
        /\ d.active_queue_count = dqm.active_queue_count
    BY <1>1 DEF Dqm
  <2>2. PICK x \in execute_queues_cpsch(d, none, run) : dqm' = x.d
    BY <1>6 DEF start_cpsch
  <2> HIDE DEF d, run, none
  <2>3. dqm'.active_runlist <=> HasWork(d)
    BY <2>1, <2>2, ExecutePerfect
  <2>4. dqm'.active_queue_count = dqm.active_queue_count /\ dqm'.registered = dqm.registered
    BY <1>6, DeviceEffect DEF SameCounts
  <2>5. dqm'.active_queue_count # 0 => \E r \in Procs : dqm'.registered[r] # 0
    BY DEF Served
  <2> QED BY <2>1, <2>3, <2>4, <2>5 DEF HasWork, RunInv
<1>7. CASE Rebuilt \/ \E p \in Procs : update_queue(p)
  BY <1>7, RebuiltRuns, UpdateRuns
<1> QED BY <1>1, <1>2, <1>3, <1>4, <1>5, <1>6, <1>7, NextForm

\* Whenever the scheduler runs, the firmware executes all active queues of all
\* processes and no others, and active_runlist says whether there are any: for any
\* number of processes and queues, in every interleaving of creation, update,
\* nested eviction, restoration, destruction and termination with suspends and
\* resets.  It rests on exact counters (map_queues_cpsch builds no list when the
\* count is zero) and on exact registration (nor when no process is registered).
\* The hypothesis is that allocations succeed and the firmware obeys.
THEOREM RunlistIsComplete ==
  ASSUME ~NoMemory, UnmapOutcomes \subseteq {"ok"}, MapOutcomes \subseteq {"ok"},
         ~CarriesOn, ~LateEvict, Cardinality(Procs \X Qids) < UINT
  PROVE  Spec => []RunlistComplete
<1>1. Perfect /\ Obeyed
  BY DEF Perfect, Obeyed
<1>2. Spec => []CountersExact
  BY CountersAreExact
<1>3. Spec => []RunlistFaithful
  BY FirmwareRunsTheList
<1>4. IInv /\ NeedsInv /\ [Next]_vars => NeedsInv'
  BY <1>1, NextNeeds
<1>5. IInv /\ NeedsInv /\ Served' /\ RunInv /\ [Next]_vars => RunInv'
  BY <1>1, NextRuns
<1>6. NeedsInv /\ CountersExact => Served
  BY ActiveIsServed
<1>7. Init => RunInv
  BY DEF Init, RunInv
<1>8. NeedsInv /\ CountersExact /\ RunlistFaithful /\ RunInv => RunlistComplete
  BY CompleteMeaning
<1> QED
  BY <1>2, <1>3, <1>4, <1>5, <1>6, <1>7, <1>8, InitNeeds, Invariance, PTL DEF Spec

-----------------------------------------------------------------------------
(* The limit of the device.                                                *)

\* The processes that passed the test of the limit and have yet to be counted.
Reserving == {p \in Procs : op[p].at = "reserved"}

LimitInv ==
  dqm.total_queue_count + Cardinality(Reserving) + 1 <= MAX_PER_DEVICE + Cardinality(Procs)

LEMMA ReservingFinite ==
  /\ IsFiniteSet(Procs) /\ IsFiniteSet(Reserving) /\ IsFiniteSet(Reserving')
  /\ Cardinality(Procs) \in Nat /\ Cardinality(Reserving) \in Nat /\ Cardinality(Reserving') \in Nat
  /\ MAX_PER_DEVICE \in Nat
<1>1. Reserving \in SUBSET Procs /\ Reserving' \in SUBSET Procs
  BY DEF Reserving
<1> QED BY <1>1, OpuQueuesAssumption, FS_Subset, FS_CardinalityType

\* A step that begins no creation past the test and adds no queue.
Shrinks == Accounted' \subseteq Accounted /\ Reserving' \subseteq Reserving

LEMMA LimitShrinks ==
  ASSUME IInv, IInv', CountersExact, CountersExact', LimitInv, Shrinks
  PROVE  LimitInv'
<1>1. Accounted \subseteq Procs \X Qids
  BY DEF Accounted
<1>2. IsFiniteSet(Procs \X Qids)
  BY PairsFinite
<1>3. IsFiniteSet(Accounted)
  BY <1>1, <1>2, FS_Subset
<1>4. Cardinality(Accounted') <= Cardinality(Accounted)
  BY <1>3, FS_Subset DEF Shrinks
<1>5. Cardinality(Reserving') <= Cardinality(Reserving)
  BY ReservingFinite, FS_Subset DEF Shrinks
<1>6. dqm.total_queue_count = Cardinality(Accounted) /\ dqm'.total_queue_count = Cardinality(Accounted')
  BY DEF CountersExact
<1>7. dqm.total_queue_count \in Nat /\ dqm'.total_queue_count \in Nat
  <2>1. dqm \in Dqm /\ dqm' \in Dqm
    BY DEF IInv, Base, TypeOK
  <2> QED BY <2>1, OpuQueuesAssumption DEF Dqm, Counter
<1> QED BY <1>4, <1>5, <1>6, <1>7, ReservingFinite DEF LimitInv

LEMMA ShrinksAt ==
  ASSUME NEW p \in Procs, Only(p), Acct(qpd'[p], op'[p]) \subseteq Acct(qpd[p], op[p]),
         op'[p].at = "reserved" => op[p].at = "reserved"
  PROVE  Shrinks
<1>1. \A r \in Procs : Acct(qpd'[r], op'[r]) \subseteq Acct(qpd[r], op[r])
  BY DEF Only
<1>2. Accounted' \subseteq Accounted
  <2> SUFFICES ASSUME NEW x \in Procs \X Qids, x \in Accounted' PROVE x \in Accounted
    BY DEF Accounted
  <2>1. x[1] \in Procs /\ x[2] \in Qids
    OBVIOUS
  <2>2. x[2] \in Acct(qpd'[x[1]], op'[x[1]])
    BY <2>1 DEF Accounted, Acct
  <2>3. x[2] \in Acct(qpd[x[1]], op[x[1]])
    BY <1>1, <2>1, <2>2
  <2> QED BY <2>1, <2>3 DEF Accounted, Acct
<1>3. Reserving' \subseteq Reserving
  BY DEF Reserving, Only
<1> QED BY <1>2, <1>3 DEF Shrinks

LEMMA CallShrinks ==
  ASSUME IInv, NEW p \in Procs,
         \/ destroy_kernel_queue_cpsch(p) \/ release_begin(p) \/ new_process(p)
         \/ \E qid \in Qids : \/ destroy_queue_cpsch(p, qid)
                               \/ \E b \in BOOLEAN : \/ pqm_update_queue(p, qid, b)
                                                     \/ pqm_set_gws(p, qid, b)
         \/ evict_process_queues_cpsch(p) \/ restore_process_queues_cpsch(p)
  PROVE  Shrinks
<1>1. NONE \notin Qids
  BY IdsAreNumbers
<1>2. CASE destroy_kernel_queue_cpsch(p)
  <2>1. /\ Only(p) /\ op[p].at = "none" /\ op'[p].at = "destroyed"
        /\ qpd'[p].queues_list = qpd[p].queues_list /\ qpd'[p].diq = NONE
    BY <1>2, DestroyKernelQueueEffect
  <2>2. Acct(qpd'[p], op'[p]) \subseteq Acct(qpd[p], op[p])
    BY <1>1, <2>1 DEF Acct
  <2> QED BY <2>1, <2>2, ShrinksAt
<1>3. CASE release_begin(p) \/ new_process(p)
  <2>1. Only(p) /\ op'[p] = op[p] /\ qpd'[p] = qpd[p]
    BY <1>3, ReleaseEffect
  <2> QED BY <2>1, ShrinksAt
<1>4. ASSUME NEW qid \in Qids, destroy_queue_cpsch(p, qid) PROVE Shrinks
  <2>1. /\ Only(p) /\ op[p].at = "none" /\ op'[p].at \in {"none", "destroyed"}
        /\ qpd'[p].queues_list = qpd[p].queues_list \ {qid} /\ qpd'[p].diq = qpd[p].diq
    BY <1>4, DestroyQueueEffect
  <2>2. Acct(qpd'[p], op'[p]) \subseteq Acct(qpd[p], op[p])
    BY <2>1 DEF Acct
  <2> QED BY <2>1, <2>2, ShrinksAt
<1>5. ASSUME NEW qid \in Qids, NEW b \in BOOLEAN,
             pqm_update_queue(p, qid, b) \/ pqm_set_gws(p, qid, b)
      PROVE  Shrinks
  <2>1. /\ Only(p) /\ op[p].at = "none" /\ op'[p].at = "update"
        /\ qpd'[p].queues_list = qpd[p].queues_list /\ qpd'[p].diq = qpd[p].diq
    BY <1>5, UpdateBeginEffect
  <2>2. Acct(qpd'[p], op'[p]) \subseteq Acct(qpd[p], op[p])
    BY <2>1 DEF Acct
  <2> QED BY <2>1, <2>2, ShrinksAt
<1>6. CASE evict_process_queues_cpsch(p) \/ restore_process_queues_cpsch(p)
  <2>1. KeptLists(p)
    BY <1>6, EvictEffect, RestoreEffect
  <2>2. /\ Only(p) /\ op'[p] = op[p]
        /\ qpd'[p].queues_list = qpd[p].queues_list /\ qpd'[p].diq = qpd[p].diq
    BY <2>1 DEF KeptLists
  <2>3. Acct(qpd'[p], op'[p]) \subseteq Acct(qpd[p], op[p])
    BY <2>2 DEF Acct
  <2> QED BY <2>2, <2>3, ShrinksAt
<1> QED BY <1>2, <1>3, <1>4, <1>5, <1>6

LEMMA CreateShrinks ==
  ASSUME IInv, NEW p \in Procs, NEW on \in BOOLEAN,
         NEW type \in {COMPUTE, DIQ} \cup SdmaTypes, create_begin(p, type, on)
  PROVE  Shrinks
<1>1. Only(p) /\ op[p].at = "none" /\ op'[p].at = "create" /\ qpd'[p] = qpd[p]
  BY CreateBeginEffect
<1>2. Acct(qpd'[p], op'[p]) \subseteq Acct(qpd[p], op[p])
  BY <1>1 DEF Acct
<1> QED BY <1>1, <1>2, ShrinksAt

LEMMA ProceedShrinks ==
  ASSUME IInv, NEW p \in Procs, Proceed(p),
         ~create_reserve(p), ~create_queue_cpsch(p), ~create_kernel_queue_cpsch(p)
  PROVE  Shrinks
<1>1. NONE \notin Qids
  BY IdsAreNumbers
<1>2. CASE \/ create_refused(p) \/ create_kernel_queue_refused(p)
           \/ destroy_finish(p) \/ create_no_mqd(p)
  <2>1. \E d : Undone(p, d)
    BY <1>2, CreateRefusedEffect, DestroyFinishEffect, CreateNoMqdEffect
  <2>2. op[p].at \in {"create", "destroyed", "reserved"}
    BY <1>2 DEF create_refused, create_kernel_queue_refused, destroy_finish, create_no_mqd
  <2>3. /\ Only(p) /\ op'[p].at = "none"
        /\ qpd'[p].queues_list = qpd[p].queues_list /\ qpd'[p].diq = qpd[p].diq
    BY <2>1 DEF Undone
  <2>4. Acct(qpd'[p], op'[p]) \subseteq Acct(qpd[p], op[p])
    BY <2>2, <2>3 DEF Acct
  <2> QED BY <2>3, <2>4, ShrinksAt
<1>3. CASE update_queue(p)
  <2>1. Only(p) /\ op[p].at = "update" /\ op'[p].at = "none" /\ qpd'[p] = qpd[p]
    BY <1>3, UpdateQueueEffect
  <2>2. Acct(qpd'[p], op'[p]) \subseteq Acct(qpd[p], op[p])
    BY <2>1 DEF Acct
  <2> QED BY <2>1, <2>2, ShrinksAt
<1>4. CASE process_termination_cpsch(p) \/ terminate_free_mqd(p)
  <2>1. Only(p) /\ op'[p].at = "terminating"
    BY <1>4, TerminateEffect, FreeMqdEffect
  <2>2. Acct(qpd'[p], op'[p]) = {}
    BY <2>1 DEF Acct
  <2> QED BY <2>1, <2>2, ShrinksAt
<1>5. CASE pqm_uninit(p)
  <2>1. /\ Only(p) /\ op'[p].at = "none" /\ qpd'[p].queues_list = {} /\ qpd'[p].diq = NONE
    BY <1>5, UninitEffect
  <2>2. Acct(qpd'[p], op'[p]) = {}
    BY <1>1, <2>1 DEF Acct
  <2> QED BY <2>1, <2>2, ShrinksAt
<1> QED BY <1>2, <1>3, <1>4, <1>5 DEF Proceed

LEMMA IncBound ==
  ASSUME NEW n \in Counter
  PROVE  Inc(n) <= n + 1
<1>1. UINT \in Nat \ {0} /\ n \in 0..(UINT - 1)
  BY OpuQueuesAssumption DEF Counter
<1>2. CASE n + 1 < UINT
  BY <1>1, <1>2 DEF Inc
<1>3. CASE n + 1 = UINT
  <2>1. (n + 1) % UINT \in 0..(UINT - 1)
    BY <1>1
  <2> QED BY <1>1, <1>3, <2>1 DEF Inc
<1> QED BY <1>1, <1>2, <1>3

\* The three steps that come nearer to the limit.
LEMMA LimitCreates ==
  ASSUME IInv, IInv', LimitInv, NEW p \in Procs,
         create_reserve(p) \/ create_queue_cpsch(p) \/ create_kernel_queue_cpsch(p)
  PROVE  LimitInv'
<1> DEFINE n == dqm.total_queue_count
           m == dqm'.total_queue_count
           R == Cardinality(Reserving)
           T == Cardinality(Reserving')
           N == Cardinality(Procs)
<1>1. n \in Counter /\ n \in Nat /\ m \in Nat /\ R \in Nat /\ T \in Nat /\ N \in Nat /\ MAX_PER_DEVICE \in Nat
  <2>1. dqm \in Dqm /\ dqm' \in Dqm
    BY DEF IInv, Base, TypeOK
  <2> QED BY <2>1, ReservingFinite, OpuQueuesAssumption DEF Dqm, Counter
<1>2. n + R + 1 <= MAX_PER_DEVICE + N
  BY DEF LimitInv
<1>3. IsFiniteSet(Procs) /\ IsFiniteSet(Reserving)
  BY ReservingFinite
<1>4. p \notin Reserving => R + 1 <= N
  <2>1. Reserving \cup {p} \in SUBSET Procs
    BY DEF Reserving
  <2>2. Cardinality(Reserving \cup {p}) <= N
    BY <1>3, <2>1, FS_Subset
  <2> QED BY <1>3, <2>2, FS_AddElement
<1>5. CASE create_reserve(p)
  <2>1. Only(p) /\ op[p].at = "create" /\ op'[p].at = "reserved" /\ n < MAX_PER_DEVICE
    BY <1>5, CreateReserveEffect
  <2>2. m = n
    BY <1>5, CreateReserveEffect DEF SameCounts, Settled
  <2>3. p \notin Reserving /\ Reserving' = Reserving \cup {p}
    BY <2>1 DEF Reserving, Only
  <2>4. T = R + 1
    BY <1>3, <2>3, FS_AddElement
  <2> HIDE DEF n, m, R, T, N
  <2>5. m + T + 1 <= MAX_PER_DEVICE + N
    BY <1>1, <1>4, <2>1, <2>2, <2>3, <2>4
  <2> QED BY <2>5 DEF LimitInv, m, T, N
<1>6. CASE create_queue_cpsch(p)
  <2>1. Only(p) /\ op[p].at = "reserved" /\ op'[p].at = "none"
    BY <1>6, CreateQueueEffect
  <2>2. m <= n + 1
    <3>1. PICK d \in Dqm : d.total_queue_count = Inc(n) /\ (Settled(d) \/ Executed(d))
      BY <1>6, CreateQueueEffect
    <3>2. m = Inc(n)
      BY <3>1, AfterCall DEF SameCounts
    <3> QED BY <1>1, <3>2, IncBound
  <2>3. p \in Reserving /\ Reserving' = Reserving \ {p}
    BY <2>1 DEF Reserving, Only
  <2>4. T = R - 1
    BY <1>3, <2>3, FS_RemoveElement
  <2> HIDE DEF n, m, R, T, N
  <2>5. m + T + 1 <= MAX_PER_DEVICE + N
    BY <1>1, <1>2, <2>2, <2>4
  <2> QED BY <2>5 DEF LimitInv, m, T, N
<1>7. CASE create_kernel_queue_cpsch(p)
  <2>1. Only(p) /\ op[p].at = "create" /\ op'[p].at = "none" /\ n < MAX_PER_DEVICE
    BY <1>7, CreateKernelQueueEffect
  <2>2. m <= n + 1
    <3>1. PICK d \in Dqm : d.total_queue_count = Inc(n) /\ Executed(d)
      BY <1>7, CreateKernelQueueEffect
    <3>2. m = Inc(n)
      BY <3>1, AfterCall DEF SameCounts
    <3> QED BY <1>1, <3>2, IncBound
  <2>3. p \notin Reserving /\ Reserving' = Reserving
    BY <2>1 DEF Reserving, Only
  <2> HIDE DEF n, m, N
  <2>4. m + T + 1 <= MAX_PER_DEVICE + N
    BY <1>1, <1>4, <2>1, <2>2, <2>3
  <2> QED BY <2>4 DEF LimitInv, m, N
<1> QED BY <1>5, <1>6, <1>7

LEMMA NextLimit ==
  ASSUME IInv, IInv', CountersExact, CountersExact', LimitInv, [Next]_vars
  PROVE  LimitInv'
<1>1. CASE UNCHANGED vars
  BY <1>1 DEF vars, LimitInv, Reserving
<1>2. ASSUME NEW p \in Procs, create_call(p) PROVE Shrinks
  <2>1. ASSUME NEW type \in Types, NEW on \in BOOLEAN, create_begin(p, type, on)
        PROVE  Shrinks
    <3>1. type \in {COMPUTE, DIQ} \cup SdmaTypes
      BY OpuQueuesAssumption
    <3> QED BY <2>1, <3>1, CreateShrinks
  <2>2. CASE create_begin(p, DIQ, TRUE)
    BY <2>2, CreateShrinks
  <2> QED BY <1>2, <2>1, <2>2 DEF create_call
<1>3. ASSUME NEW p \in Procs, Call(p) PROVE Shrinks
  BY <1>2, <1>3, CallShrinks DEF Call
<1>4. ASSUME NEW p \in Procs, Proceed(p) PROVE Shrinks \/ LimitInv'
  BY <1>4, ProceedShrinks, LimitCreates
<1>5. ASSUME NEW p \in Procs, evict_process_queues_cpsch(p) \/ restore_process_queues_cpsch(p)
      PROVE  Shrinks
  BY <1>5, CallShrinks
<1>6. CASE pre_reset \/ stop_cpsch \/ start_cpsch
  <2>1. qpd' = qpd /\ op' = op
    BY <1>6, DeviceEffect
  <2> QED BY <2>1, LimitShrinks DEF Shrinks, Accounted, Reserving
<1> QED BY <1>1, <1>3, <1>4, <1>5, <1>6, LimitShrinks DEF Next

\* The limit of queues on the device is tested without the lock the queue is
\* counted under.  It is exceeded by at most one queue less than there are
\* processes, for any number of processes and any limit: a process whose creation
\* passed the test and is not yet counted holds a place, and of those there is one
\* per process.  The counters must not be off, as they are when an eviction
\* reaches a process that is being released or user mode destroys a queue again
\* whose destroy failed: the hypotheses of CountersAreExact.
THEOREM LimitIsNearlyKept ==
  ASSUME ~LateEvict, ~CarriesOn, Cardinality(Procs \X Qids) < UINT
  PROVE  Spec => []LimitOvershoot
<1>1. Spec => []CountersExact
  BY CountersAreExact
<1>2. IInv /\ IInv' /\ CountersExact /\ CountersExact' /\ LimitInv /\ [Next]_vars => LimitInv'
  BY NextLimit
<1>3. Init => LimitInv
  <2> SUFFICES ASSUME Init PROVE LimitInv
    OBVIOUS
  <2>1. dqm.total_queue_count = 0 /\ Reserving = {}
    BY DEF Init, Reserving, NoOp
  <2>2. Cardinality(Reserving) = 0
    BY <2>1, FS_EmptySet
  <2>3. Cardinality(Procs) # 0
    <3>1. IsFiniteSet(Procs) /\ Procs # {}
      BY OpuQueuesAssumption
    <3> QED BY <3>1, FS_EmptySet, Zenon
  <2> QED BY <2>1, <2>2, <2>3, ReservingFinite DEF LimitInv
<1>4. IInv /\ LimitInv => LimitOvershoot
  <2> SUFFICES ASSUME IInv, LimitInv PROVE LimitOvershoot
    OBVIOUS
  <2>1. dqm.total_queue_count \in Nat
    BY OpuQueuesAssumption DEF IInv, Base, TypeOK, Dqm, Counter
  <2> QED BY <2>1, ReservingFinite DEF LimitInv, LimitOvershoot
<1> QED
  BY <1>1, <1>2, <1>3, <1>4, Invariance, PTL DEF Spec
=============================================================================
