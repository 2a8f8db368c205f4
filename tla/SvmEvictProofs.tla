--------------------------- MODULE SvmEvictProofs ---------------------------
(***************************************************************************)
(* Eviction and restoration implement the gate, for any number of ranges,  *)
(* of notifiers and of invalidations.  IInv is the inductive invariant.    *)
(***************************************************************************)
EXTENDS SvmEvict, FiniteSetTheorems, TLAPS

\* A notifier that has seen the counter at zero and stops the queues.
First(t) == ev[t].pc \in {"quiesce", "sched"}

\* The worker has evictions to count down.
Busy == wk.pc \notin {"idle", "resume"}

\* A notifier works on a range; it has counted its eviction.
On(t, r)      == ev[t].pc # "idle" /\ ev[t].range = r
PastCount(t, r) == ev[t].pc \in {"quiesce", "sched", "update"} /\ ev[t].range = r

\* At most one party is bound to restore, and one is until the worker is cancelled.
Exclusive ==
  /\ \A s, t \in Notifiers : First(s) /\ First(t) => s = t
  /\ \A t \in Notifiers : First(t) => evicted_ranges > 0 /\ ~pending /\ ~Busy
  /\ pending => evicted_ranges > 0 /\ ~Busy
  /\ Busy => evicted_ranges > 0
  /\ proc \in {"alive", "unhashed"} /\ evicted_ranges > 0
       => pending \/ Busy \/ \E t \in Notifiers : First(t)

\* With xnack nothing is counted and ranges are unmapped before pages change; without it
\* there are no retry faults.
Modes ==
  /\ ~xnack_enabled => ft.pc = "idle"
  /\ xnack_enabled =>
       /\ evicted_ranges = 0 /\ wk.pc = "idle"
       /\ \A r \in Ranges : gpu[r] # "stale"
       /\ \A t \in Notifiers : /\ ev[t].pc \in {"idle", "update"}
                               /\ ev[t].pc = "update" => gpu[ev[t].range] = "none"
       /\ ft.pc = "map" /\ ft.pages => \A t \in Notifiers : ~On(t, ft.range)

\* A range a notifier works on, or whose mapping is stale, is counted as invalid, and its
\* eviction is counted.
Touched(r) == gpu[r] = "stale" \/ \E t \in Notifiers : PastCount(t, r)
Counted ==
  ~xnack_enabled =>
    /\ \A t \in Notifiers : ev[t].pc # "idle" => invalid[ev[t].range] > 0
    /\ \A r \in Ranges : Touched(r) => invalid[r] > 0 /\ evicted_ranges > 0

\* What the worker has done and read stays true unless a counter has moved on.
Walk ==
  /\ wk.pc \in {"walk", "pages", "map", "swap"} =>
       /\ wk.seen <= evicted_ranges
       /\ \A r \in Ranges \ wk.todo : Touched(r) => wk.seen < evicted_ranges
  /\ wk.pc \in {"pages", "map", "swap"} =>
       wk.range \in wk.todo /\ wk.inv <= invalid[wk.range]
  /\ wk.pc \in {"map", "swap"} =>
       \A t \in Notifiers : On(t, wk.range) => wk.inv < invalid[wk.range]
  /\ wk.pc = "map" /\ wk.pages => \A t \in Notifiers : ~On(t, wk.range)
  /\ wk.pc = "swap" /\ gpu[wk.range] = "stale" => wk.inv < invalid[wk.range]

\* A quiesce that fails leaves nothing to resume.
StopsInv == ~QuiesceFails => StopsExact

IInv == EvictTypeOK /\ Exclusive /\ Modes /\ Counted /\ Walk /\ StopsInv
-----------------------------------------------------------------------------

LEMMA IdleTypes ==
  /\ IdleWorker \in [pc : WorkerPcs, seen : Nat, todo : SUBSET Ranges, range : Ranges,
                     inv : Nat, pages : BOOLEAN]
  /\ IdleFault \in [pc : {"idle", "pages", "map"}, range : Ranges, pages : BOOLEAN]
  /\ IdleNotifier \in [pc : NotifierPcs, range : Ranges]
  /\ IdleWorker.pc = "idle" /\ IdleFault.pc = "idle" /\ IdleNotifier.pc = "idle"
<1>1. (CHOOSE r \in Ranges : TRUE) \in Ranges
  BY RangesAssumption
<1> QED BY <1>1 DEF IdleWorker, IdleFault, IdleNotifier, WorkerPcs, NotifierPcs

LEMMA InitIInv == Init => IInv
<1> SUFFICES ASSUME Init PROVE IInv
  OBVIOUS
<1> USE IdleTypes, ModeAssumption DEF Init
<1>1. EvictTypeOK
  BY DEF EvictTypeOK, NotifierPcs, WorkerPcs
<1>2. Exclusive
  BY DEF Exclusive, First, Busy
<1>3. Modes
  BY DEF Modes, On
<1>4. Counted
  BY DEF Counted, Touched, PastCount
<1>5. Walk
  BY DEF Walk, Touched, On
<1>6. StopsInv
  BY DEF StopsInv, StopsExact, Stopping, Ones
<1> QED BY <1>1, <1>2, <1>3, <1>4, <1>5, <1>6 DEF IInv

LEMMA Step_evict_begin ==
  ASSUME NEW t \in Notifiers, NEW r \in Ranges, IInv, evict_begin(t, r) PROVE IInv'
<1> USE DEF IInv
<1>1. /\ wk' \in [pc : WorkerPcs, seen : Nat, todo : SUBSET Ranges, range : Ranges,
                  inv : Nat, pages : BOOLEAN]
      /\ wk'.pc = wk.pc /\ wk'.seen = wk.seen /\ wk'.todo = wk.todo
      /\ wk'.range = wk.range /\ wk'.inv = wk.inv
      /\ wk'.pages => wk.pages /\ wk.range # r
  BY DEF evict_begin, SetSeq, EvictTypeOK, WorkerPcs
<1>2. /\ ft' \in [pc : {"idle", "pages", "map"}, range : Ranges, pages : BOOLEAN]
      /\ ft'.pc = ft.pc /\ ft'.range = ft.range
      /\ ft'.pages => ft.pages /\ ft.range # r
  BY DEF evict_begin, SetSeq, EvictTypeOK
<1>3. /\ UNCHANGED <<xnack_enabled, evicted_ranges, pending, stops, proc>>
      /\ ev[t].pc = "idle"
      /\ \/ /\ xnack_enabled
            /\ gpu' = [gpu EXCEPT ![r] = "none"]
            /\ ev' = [ev EXCEPT ![t] = [pc |-> "update", range |-> r]]
            /\ UNCHANGED invalid
         \/ /\ ~xnack_enabled
            /\ invalid' = [invalid EXCEPT ![r] = @ + 1]
            /\ ev' = [ev EXCEPT ![t] = [pc |-> "count", range |-> r]]
            /\ UNCHANGED gpu
  BY DEF evict_begin, EvictTypeOK
<1> USE <1>1, <1>2, <1>3
<1>4. EvictTypeOK'
  BY DEF EvictTypeOK, NotifierPcs
<1>5. Exclusive'
  BY DEF Exclusive, EvictTypeOK, First, Busy
<1>6. Modes'
  BY DEF Modes, EvictTypeOK, On
<1>7. Counted'
  <2>1. CASE xnack_enabled
    BY <2>1 DEF Counted
  <2>2. CASE ~xnack_enabled
    <3>1. /\ invalid'[r] = invalid[r] + 1 /\ invalid[r] \in Nat
          /\ \A x \in Ranges : x # r => invalid'[x] = invalid[x]
      BY <2>2 DEF EvictTypeOK
    <3>2. /\ ev'[t].pc = "count" /\ ev'[t].range = r
          /\ \A s \in Notifiers : s # t => ev'[s] = ev[s]
      BY <2>2 DEF EvictTypeOK
    <3>3. \A s \in Notifiers : ev[s].range \in Ranges
      BY DEF EvictTypeOK
    <3>4. \A x \in Ranges : Touched(x)' => Touched(x)
      BY <2>2, <3>2 DEF Touched, PastCount
    <3> QED BY <2>2, <3>1, <3>2, <3>3, <3>4 DEF Counted
  <2> QED BY <2>1, <2>2
<1>8. Walk'
  BY DEF Walk, Modes, EvictTypeOK, Touched, PastCount, On
<1>9. StopsInv'
  BY DEF StopsInv, StopsExact, EvictTypeOK, Stopping, Ones
<1> QED BY <1>4, <1>5, <1>6, <1>7, <1>8, <1>9

LEMMA Step_evict_count ==
  ASSUME NEW t \in Notifiers, IInv, evict_count(t) PROVE IInv'
<1> USE DEF IInv, evict_count
<1>1. EvictTypeOK'
  BY DEF EvictTypeOK, NotifierPcs, WorkerPcs
<1>2. Exclusive'
  BY DEF Exclusive, EvictTypeOK, First, Busy, WorkerPcs
<1>3. Modes'
  BY DEF Modes, Exclusive, EvictTypeOK, On, Busy
<1>4. Counted'
  BY DEF Counted, EvictTypeOK, Modes, Touched, PastCount
<1>5. Walk'
  BY DEF Walk, EvictTypeOK, Counted, Touched, PastCount, On
<1>6. StopsInv'
  BY DEF StopsInv, StopsExact, Exclusive, EvictTypeOK, Stopping, Ones, First, Busy
<1> QED BY <1>1, <1>2, <1>3, <1>4, <1>5, <1>6

LEMMA Step_quiesce_mm ==
  ASSUME NEW t \in Notifiers, IInv, quiesce_mm(t) PROVE IInv'
<1> USE DEF IInv, quiesce_mm
<1>1. EvictTypeOK'
  BY DEF EvictTypeOK, NotifierPcs, WorkerPcs
<1>2. Exclusive'
  BY DEF Exclusive, EvictTypeOK, First, Busy, WorkerPcs
<1>3. Modes'
  BY DEF Modes, Exclusive, EvictTypeOK, On, Busy
<1>4. Counted'
  BY DEF Counted, EvictTypeOK, Modes, Touched, PastCount
<1>5. Walk'
  BY DEF Walk, EvictTypeOK, Counted, Touched, PastCount, On
<1>6. StopsInv'
  BY DEF StopsInv, StopsExact, Exclusive, EvictTypeOK, Stopping, Ones, First, Busy
<1> QED BY <1>1, <1>2, <1>3, <1>4, <1>5, <1>6

LEMMA Step_evict_schedule ==
  ASSUME NEW t \in Notifiers, IInv, evict_schedule(t) PROVE IInv'
<1> USE DEF IInv, evict_schedule
<1>1. EvictTypeOK'
  BY DEF EvictTypeOK, NotifierPcs, WorkerPcs
<1>2. Exclusive'
  BY DEF Exclusive, EvictTypeOK, First, Busy, WorkerPcs
<1>3. Modes'
  BY DEF Modes, Exclusive, EvictTypeOK, On, Busy
<1>4. Counted'
  BY DEF Counted, EvictTypeOK, Modes, Touched, PastCount
<1>5. Walk'
  BY DEF Walk, EvictTypeOK, Counted, Touched, PastCount, On
<1>6. StopsInv'
  BY DEF StopsInv, StopsExact, Exclusive, EvictTypeOK, Stopping, Ones, First, Busy
<1> QED BY <1>1, <1>2, <1>3, <1>4, <1>5, <1>6

LEMMA Step_cpu_update ==
  ASSUME NEW t \in Notifiers, IInv, cpu_update(t) PROVE IInv'
<1> USE DEF IInv, cpu_update
<1>1. EvictTypeOK'
  BY DEF EvictTypeOK, NotifierPcs, WorkerPcs
<1>2. Exclusive'
  BY DEF Exclusive, EvictTypeOK, First, Busy, WorkerPcs
<1>3. Modes'
  BY DEF Modes, Exclusive, EvictTypeOK, On, Busy
<1>4. Counted'
  BY DEF Counted, EvictTypeOK, Modes, Touched, PastCount
<1>5. Walk'
  BY DEF Walk, EvictTypeOK, Counted, Touched, PastCount, On
<1>6. StopsInv'
  BY DEF StopsInv, StopsExact, Exclusive, EvictTypeOK, Stopping, Ones, First, Busy
<1> QED BY <1>1, <1>2, <1>3, <1>4, <1>5, <1>6

LEMMA Step_restore_begin ==
  ASSUME IInv, restore_begin PROVE IInv'
<1> USE DEF IInv, restore_begin
<1>1. EvictTypeOK'
  BY DEF EvictTypeOK, NotifierPcs, WorkerPcs
<1>2. Exclusive'
  BY DEF Exclusive, EvictTypeOK, First, Busy, WorkerPcs
<1>3. Modes'
  BY DEF Modes, Exclusive, EvictTypeOK, On, Busy
<1>4. Counted'
  BY DEF Counted, EvictTypeOK, Modes, Touched, PastCount
<1>5. Walk'
  BY DEF Walk, EvictTypeOK, Counted, Touched, PastCount, On
<1>6. StopsInv'
  BY DEF StopsInv, StopsExact, Exclusive, EvictTypeOK, Stopping, Ones, First, Busy
<1> QED BY <1>1, <1>2, <1>3, <1>4, <1>5, <1>6

LEMMA Step_restore_lock ==
  ASSUME IInv, restore_lock PROVE IInv'
<1> USE DEF IInv, restore_lock
<1>1. EvictTypeOK'
  BY DEF EvictTypeOK, NotifierPcs, WorkerPcs
<1>2. Exclusive'
  BY DEF Exclusive, EvictTypeOK, First, Busy, WorkerPcs
<1>3. Modes'
  BY DEF Modes, Exclusive, EvictTypeOK, On, Busy
<1>4. Counted'
  BY DEF Counted, EvictTypeOK, Modes, Touched, PastCount
<1>5. Walk'
  BY DEF Walk, EvictTypeOK, Counted, Touched, PastCount, On
<1>6. StopsInv'
  BY DEF StopsInv, StopsExact, Exclusive, EvictTypeOK, Stopping, Ones, First, Busy
<1> QED BY <1>1, <1>2, <1>3, <1>4, <1>5, <1>6

LEMMA Step_restore_range ==
  ASSUME NEW r \in Ranges, IInv, restore_range(r) PROVE IInv'
<1> USE DEF IInv, restore_range
<1>1. EvictTypeOK'
  BY DEF EvictTypeOK, NotifierPcs, WorkerPcs
<1>2. Exclusive'
  BY DEF Exclusive, EvictTypeOK, First, Busy, WorkerPcs
<1>3. Modes'
  BY DEF Modes, Exclusive, EvictTypeOK, On, Busy
<1>4. Counted'
  BY DEF Counted, EvictTypeOK, Modes, Touched, PastCount
<1>5. Walk'
  BY DEF Walk, EvictTypeOK, Counted, Touched, PastCount, On, Modes
<1>6. StopsInv'
  BY DEF StopsInv, StopsExact, Exclusive, EvictTypeOK, Stopping, Ones, First, Busy
<1> QED BY <1>1, <1>2, <1>3, <1>4, <1>5, <1>6

LEMMA Step_restore_pages ==
  ASSUME IInv, restore_pages PROVE IInv'
<1> USE DEF IInv, restore_pages
<1>1. EvictTypeOK'
  BY DEF EvictTypeOK, NotifierPcs, WorkerPcs
<1>2. Exclusive'
  BY DEF Exclusive, EvictTypeOK, First, Busy, WorkerPcs
<1>3. Modes'
  BY DEF Modes, Exclusive, EvictTypeOK, On, Busy
<1>4. Counted'
  BY DEF Counted, EvictTypeOK, Modes, Touched, PastCount
<1>5. Walk'
  BY DEF Walk, EvictTypeOK, Counted, Touched, PastCount, On, Invalidating
<1>6. StopsInv'
  BY DEF StopsInv, StopsExact, Exclusive, EvictTypeOK, Stopping, Ones, First, Busy
<1> QED BY <1>1, <1>2, <1>3, <1>4, <1>5, <1>6

LEMMA Step_restore_fails ==
  ASSUME IInv, restore_fails PROVE IInv'
<1> USE DEF IInv, restore_fails
<1>1. EvictTypeOK'
  BY DEF EvictTypeOK, NotifierPcs, WorkerPcs
<1>2. Exclusive'
  BY DEF Exclusive, EvictTypeOK, First, Busy, WorkerPcs
<1>3. Modes'
  BY DEF Modes, Exclusive, EvictTypeOK, On, Busy
<1>4. Counted'
  BY DEF Counted, EvictTypeOK, Modes, Touched, PastCount
<1>5. Walk'
  BY DEF Walk, EvictTypeOK, Counted, Touched, PastCount, On
<1>6. StopsInv'
  BY DEF StopsInv, StopsExact, Exclusive, EvictTypeOK, Stopping, Ones, First, Busy
<1> QED BY <1>1, <1>2, <1>3, <1>4, <1>5, <1>6

LEMMA Step_restore_map ==
  ASSUME IInv, restore_map PROVE IInv'
<1> USE DEF IInv, restore_map
<1>1. EvictTypeOK'
  BY DEF EvictTypeOK, NotifierPcs, WorkerPcs
<1>2. Exclusive'
  BY DEF Exclusive, EvictTypeOK, First, Busy, WorkerPcs
<1>3. Modes'
  BY DEF Modes, Exclusive, EvictTypeOK, On, Busy
<1>4. Counted'
  BY DEF Counted, EvictTypeOK, Modes, Touched, PastCount
<1>5. Walk'
  BY DEF Walk, EvictTypeOK, Counted, Touched, PastCount, On
<1>6. StopsInv'
  BY DEF StopsInv, StopsExact, Exclusive, EvictTypeOK, Stopping, Ones, First, Busy
<1> QED BY <1>1, <1>2, <1>3, <1>4, <1>5, <1>6

LEMMA Step_restore_swap ==
  ASSUME IInv, restore_swap PROVE IInv'
<1> USE DEF IInv
<1>1. /\ wk.pc = "swap" /\ wk.range \in Ranges
      /\ UNCHANGED <<xnack_enabled, evicted_ranges, pending, stops, gpu, ev, ft, proc>>
  BY DEF restore_swap, EvictTypeOK
<1> USE <1>1
<1>2. CASE invalid[wk.range] # wk.inv
  <2>1. /\ UNCHANGED invalid
        /\ wk' = [wk EXCEPT !.pc = "out"]
    BY <1>2 DEF restore_swap
  <2>2. EvictTypeOK'
    BY <2>1 DEF EvictTypeOK, WorkerPcs
  <2>3. Exclusive'
    BY <2>1 DEF Exclusive, EvictTypeOK, First, Busy
  <2>4. Modes' /\ Counted' /\ Walk' /\ StopsInv'
    BY <2>1 DEF Modes, Counted, Walk, StopsInv, StopsExact, EvictTypeOK, On, Touched, PastCount,
                Stopping, Ones
  <2> QED BY <2>2, <2>3, <2>4
<1>3. CASE invalid[wk.range] = wk.inv
  <2> DEFINE r == wk.range
  <2>1. /\ invalid' = [invalid EXCEPT ![r] = 0]
        /\ wk' = [wk EXCEPT !.pc = "walk", !.todo = @ \ {r}]
    BY <1>3 DEF restore_swap
  <2>2. /\ ~Touched(r)
        /\ \A t \in Notifiers : ~On(t, r)
    BY <1>3 DEF Walk, Touched, PastCount, On, EvictTypeOK
  <2>3. /\ wk'.pc = "walk" /\ wk'.seen = wk.seen /\ wk'.todo = wk.todo \ {r}
        /\ wk' \in [pc : WorkerPcs, seen : Nat, todo : SUBSET Ranges, range : Ranges,
                    inv : Nat, pages : BOOLEAN]
    BY <2>1 DEF EvictTypeOK, WorkerPcs
  <2>4. /\ invalid' \in [Ranges -> Nat]
        /\ \A x \in Ranges \ {r} : invalid'[x] = invalid[x]
    BY <2>1 DEF EvictTypeOK
  <2>5. EvictTypeOK'
    BY <2>3, <2>4 DEF EvictTypeOK
  <2>6. Exclusive'
    BY <2>3 DEF Exclusive, EvictTypeOK, First, Busy
  <2>7. \A x \in Ranges : Touched(x)' <=> Touched(x)
    BY DEF Touched, PastCount
  <2>8. Modes'
    BY DEF Modes, EvictTypeOK, On
  <2>9. Counted'
    BY <2>2, <2>4, <2>7 DEF Counted, EvictTypeOK, On
  <2>10. Walk'
    BY <2>2, <2>3, <2>7 DEF Walk, EvictTypeOK
  <2>11. StopsInv'
    BY <2>3 DEF StopsInv, StopsExact, EvictTypeOK, Stopping, Ones
  <2> QED BY <2>5, <2>6, <2>8, <2>9, <2>10, <2>11
<1> QED BY <1>2, <1>3

LEMMA Step_restore_done ==
  ASSUME IInv, restore_done PROVE IInv'
<1> USE DEF IInv, restore_done
<1>1. EvictTypeOK'
  BY DEF EvictTypeOK, NotifierPcs, WorkerPcs
<1>2. Exclusive'
  BY DEF Exclusive, EvictTypeOK, First, Busy, WorkerPcs
<1>3. Modes'
  BY DEF Modes, Exclusive, EvictTypeOK, On, Busy
<1>4. Counted'
  BY DEF Counted, EvictTypeOK, Modes, Touched, PastCount, Walk
<1>5. Walk'
  BY DEF Walk, EvictTypeOK, Counted, Touched, PastCount, On
<1>6. StopsInv'
  BY DEF StopsInv, StopsExact, Exclusive, EvictTypeOK, Stopping, Ones, First, Busy
<1> QED BY <1>1, <1>2, <1>3, <1>4, <1>5, <1>6

LEMMA Step_restore_resume ==
  ASSUME IInv, restore_resume PROVE IInv'
<1> USE IdleTypes DEF IInv, restore_resume
<1>1. EvictTypeOK'
  BY DEF EvictTypeOK, NotifierPcs, WorkerPcs
<1>2. Exclusive'
  BY DEF Exclusive, EvictTypeOK, First, Busy, WorkerPcs
<1>3. Modes'
  BY DEF Modes, Exclusive, EvictTypeOK, On, Busy
<1>4. Counted'
  BY DEF Counted, EvictTypeOK, Modes, Touched, PastCount
<1>5. Walk'
  BY DEF Walk, EvictTypeOK, Counted, Touched, PastCount, On
<1>6. StopsInv'
  BY DEF StopsInv, StopsExact, Exclusive, EvictTypeOK, Stopping, Ones, First, Busy
<1> QED BY <1>1, <1>2, <1>3, <1>4, <1>5, <1>6

LEMMA Step_restore_out ==
  ASSUME IInv, restore_out PROVE IInv'
<1> USE IdleTypes DEF IInv, restore_out
<1>1. EvictTypeOK'
  BY DEF EvictTypeOK, NotifierPcs, WorkerPcs
<1>2. Exclusive'
  BY DEF Exclusive, EvictTypeOK, First, Busy, WorkerPcs
<1>3. Modes'
  BY DEF Modes, Exclusive, EvictTypeOK, On, Busy
<1>4. Counted'
  BY DEF Counted, EvictTypeOK, Modes, Touched, PastCount
<1>5. Walk'
  BY DEF Walk, EvictTypeOK, Counted, Touched, PastCount, On
<1>6. StopsInv'
  BY DEF StopsInv, StopsExact, Exclusive, EvictTypeOK, Stopping, Ones, First, Busy
<1> QED BY <1>1, <1>2, <1>3, <1>4, <1>5, <1>6

LEMMA Step_fault_begin ==
  ASSUME NEW r \in Ranges, IInv, fault_begin(r) PROVE IInv'
<1> USE DEF IInv, fault_begin
<1>1. EvictTypeOK'
  BY DEF EvictTypeOK, NotifierPcs, WorkerPcs
<1>2. Exclusive'
  BY DEF Exclusive, EvictTypeOK, First, Busy, WorkerPcs
<1>3. Modes'
  BY DEF Modes, Exclusive, EvictTypeOK, On, Busy
<1>4. Counted'
  BY DEF Counted, EvictTypeOK, Modes, Touched, PastCount
<1>5. Walk'
  BY DEF Walk, EvictTypeOK, Counted, Touched, PastCount, On
<1>6. StopsInv'
  BY DEF StopsInv, StopsExact, Exclusive, EvictTypeOK, Stopping, Ones, First, Busy
<1> QED BY <1>1, <1>2, <1>3, <1>4, <1>5, <1>6

LEMMA Step_fault_pages ==
  ASSUME IInv, fault_pages PROVE IInv'
<1> USE DEF IInv, fault_pages
<1>1. EvictTypeOK'
  BY DEF EvictTypeOK, NotifierPcs, WorkerPcs
<1>2. Exclusive'
  BY DEF Exclusive, EvictTypeOK, First, Busy, WorkerPcs
<1>3. Modes'
  BY DEF Modes, Exclusive, EvictTypeOK, On, Busy, Invalidating
<1>4. Counted'
  BY DEF Counted, EvictTypeOK, Modes, Touched, PastCount
<1>5. Walk'
  BY DEF Walk, EvictTypeOK, Counted, Touched, PastCount, On
<1>6. StopsInv'
  BY DEF StopsInv, StopsExact, Exclusive, EvictTypeOK, Stopping, Ones, First, Busy
<1> QED BY <1>1, <1>2, <1>3, <1>4, <1>5, <1>6

LEMMA Step_fault_map ==
  ASSUME IInv, fault_map PROVE IInv'
<1> USE IdleTypes DEF IInv, fault_map
<1>1. EvictTypeOK'
  BY DEF EvictTypeOK, NotifierPcs, WorkerPcs
<1>2. Exclusive'
  BY DEF Exclusive, EvictTypeOK, First, Busy, WorkerPcs
<1>3. Modes'
  BY DEF Modes, Exclusive, EvictTypeOK, On, Busy
<1>4. Counted'
  BY DEF Counted, EvictTypeOK, Modes, Touched, PastCount
<1>5. Walk'
  BY DEF Walk, EvictTypeOK, Counted, Touched, PastCount, On
<1>6. StopsInv'
  BY DEF StopsInv, StopsExact, Exclusive, EvictTypeOK, Stopping, Ones, First, Busy
<1> QED BY <1>1, <1>2, <1>3, <1>4, <1>5, <1>6

LEMMA Step_release_unhash ==
  ASSUME IInv, release_unhash PROVE IInv'
<1> USE DEF IInv, release_unhash
<1>1. EvictTypeOK'
  BY DEF EvictTypeOK, NotifierPcs, WorkerPcs
<1>2. Exclusive'
  BY DEF Exclusive, EvictTypeOK, First, Busy, WorkerPcs
<1>3. Modes'
  BY DEF Modes, Exclusive, EvictTypeOK, On, Busy
<1>4. Counted'
  BY DEF Counted, EvictTypeOK, Modes, Touched, PastCount
<1>5. Walk'
  BY DEF Walk, EvictTypeOK, Counted, Touched, PastCount, On
<1>6. StopsInv'
  BY DEF StopsInv, StopsExact, Exclusive, EvictTypeOK, Stopping, Ones, First, Busy
<1> QED BY <1>1, <1>2, <1>3, <1>4, <1>5, <1>6

LEMMA Step_release_cancel ==
  ASSUME IInv, release_cancel PROVE IInv'
<1> USE DEF IInv, release_cancel
<1>1. EvictTypeOK'
  BY DEF EvictTypeOK, NotifierPcs, WorkerPcs
<1>2. Exclusive'
  BY DEF Exclusive, EvictTypeOK, First, Busy, WorkerPcs
<1>3. Modes'
  BY DEF Modes, Exclusive, EvictTypeOK, On, Busy
<1>4. Counted'
  BY DEF Counted, EvictTypeOK, Modes, Touched, PastCount
<1>5. Walk'
  BY DEF Walk, EvictTypeOK, Counted, Touched, PastCount, On
<1>6. StopsInv'
  BY DEF StopsInv, StopsExact, Exclusive, EvictTypeOK, Stopping, Ones, First, Busy
<1> QED BY <1>1, <1>2, <1>3, <1>4, <1>5, <1>6

LEMMA Step_release_mm ==
  ASSUME IInv, release_mm PROVE IInv'
<1> USE DEF IInv, release_mm
<1>1. EvictTypeOK'
  BY DEF EvictTypeOK, NotifierPcs, WorkerPcs
<1>2. Exclusive'
  BY DEF Exclusive, EvictTypeOK, First, Busy, WorkerPcs
<1>3. Modes'
  BY DEF Modes, Exclusive, EvictTypeOK, On, Busy
<1>4. Counted'
  BY DEF Counted, EvictTypeOK, Modes, Touched, PastCount
<1>5. Walk'
  BY DEF Walk, EvictTypeOK, Counted, Touched, PastCount, On
<1>6. StopsInv'
  BY DEF StopsInv, StopsExact, Exclusive, EvictTypeOK, Stopping, Ones, First, Busy
<1> QED BY <1>1, <1>2, <1>3, <1>4, <1>5, <1>6

LEMMA Step_release_free ==
  ASSUME IInv, release_free PROVE IInv'
<1> USE DEF IInv, release_free
<1>1. EvictTypeOK'
  BY DEF EvictTypeOK, NotifierPcs, WorkerPcs
<1>2. Exclusive'
  BY DEF Exclusive, EvictTypeOK, First, Busy, WorkerPcs
<1>3. Modes'
  BY DEF Modes, Exclusive, EvictTypeOK, On, Busy
<1>4. Counted'
  BY DEF Counted, EvictTypeOK, Modes, Touched, PastCount
<1>5. Walk'
  BY DEF Walk, EvictTypeOK, Counted, Touched, PastCount, On
<1>6. StopsInv'
  BY DEF StopsInv, StopsExact, Exclusive, EvictTypeOK, Stopping, Ones, First, Busy
<1> QED BY <1>1, <1>2, <1>3, <1>4, <1>5, <1>6

-----------------------------------------------------------------------------
LEMMA NextIInv == IInv /\ [Next]_vars => IInv'
<1> SUFFICES ASSUME IInv, [Next]_vars PROVE IInv'
  OBVIOUS
<1>1. CASE Evict
  BY <1>1, Step_evict_begin, Step_evict_count, Step_quiesce_mm, Step_evict_schedule,
     Step_cpu_update DEF Evict
<1>2. CASE Restore
  BY <1>2, Step_restore_begin, Step_restore_lock, Step_restore_range, Step_restore_pages,
     Step_restore_fails, Step_restore_map, Step_restore_swap, Step_restore_done,
     Step_restore_resume, Step_restore_out DEF Restore
<1>3. CASE Fault
  BY <1>3, Step_fault_begin, Step_fault_pages, Step_fault_map DEF Fault
<1>4. CASE Release
  BY <1>4, Step_release_unhash, Step_release_cancel, Step_release_mm, Step_release_free
  DEF Release
<1>5. CASE UNCHANGED vars
  BY <1>5 DEF vars, IInv, EvictTypeOK, Exclusive, Modes, Counted, Walk, StopsInv, StopsExact,
              Stopping, First, Busy, On, PastCount, Touched
<1> QED BY <1>1, <1>2, <1>3, <1>4, <1>5 DEF Next

\* The invariant holds in every state, whatever the interleaving of notifiers, worker,
\* retry faults and process exit.
THEOREM Invariance == Spec => []IInv
<1> QED BY InitIInv, NextIInv, PTL DEF Spec

\* The state keeps its shape, also when kgd2opu_quiesce_mm fails.
THEOREM EvictTypeCorrect == Spec => []EvictTypeOK
<1> QED BY Invariance, PTL DEF IInv

\* The queues are stopped exactly once for the evictions counted (svm_range_evict and
\* svm_range_restore_work), as long as kgd2opu_quiesce_mm does not fail.
THEOREM StopsAreExact ==
  ASSUME ~QuiesceFails
  PROVE  Spec => []StopsExact
<1>1. IInv => StopsExact
  BY DEF IInv, StopsInv
<1> QED BY <1>1, Invariance, PTL

LEMMA RestorersCount == IInv => OneRestorer
<1> SUFFICES ASSUME IInv, proc = "alive" PROVE Restorers = Ones(evicted_ranges > 0)
  BY DEF OneRestorer
<1> DEFINE S == {t \in Notifiers : ev[t].pc \in {"quiesce", "sched"}}
<1>1. CASE \E t \in Notifiers : First(t)
  <2>1. PICK t \in Notifiers : First(t)
    BY <1>1
  <2>2. S = {t}
    BY <2>1 DEF IInv, Exclusive, First
  <2>3. Cardinality(S) = 1
    BY <2>2, FS_Singleton
  <2>4. evicted_ranges > 0 /\ ~pending /\ ~Busy
    BY <2>1 DEF IInv, Exclusive
  <2> QED BY <2>3, <2>4 DEF Restorers, Ones, Busy
<1>2. CASE \A t \in Notifiers : ~First(t)
  <2>1. S = {}
    BY <1>2 DEF First
  <2>2. Cardinality(S) = 0
    BY <2>1, FS_EmptySet
  <2>3. Ones(pending) + Ones(Busy) = Ones(evicted_ranges > 0)
    BY <1>2 DEF IInv, Exclusive, Ones, EvictTypeOK
  <2> QED BY <2>2, <2>3 DEF Restorers, Ones, Busy
<1> QED BY <1>1, <1>2

\* As long as evictions are counted exactly one party is bound to restore them.
THEOREM OneRestorerOnly == Spec => []OneRestorer
<1> QED BY Invariance, RestorersCount, PTL
-----------------------------------------------------------------------------
LEMMA GateInit == Init => TheGate!Init
<1> SUFFICES ASSUME Init PROVE TheGate!Init
  OBVIOUS
<1>1. StaleRanges = {}
  BY DEF Init, StaleRanges
<1>2. GateState = "open" /\ ~Lifting
  BY IdleTypes DEF Init, GateState, Lifting
<1> QED BY <1>1, <1>2 DEF TheGate!Init, Lifting

\* Steps of a notifier: the first closes the gate, and pages change behind it.
LEMMA GateEvict ==
  ASSUME IInv, IInv', Evict PROVE [TheGate!Next]_(TheGate!gateVars)
<1> USE DEF IInv
<1>1. ASSUME NEW t \in Notifiers, NEW r \in Ranges, evict_begin(t, r)
      PROVE  UNCHANGED TheGate!gateVars
  <2>1. UNCHANGED Lifting
    BY <1>1 DEF evict_begin, SetSeq, Lifting, EvictTypeOK
  <2>2. UNCHANGED Stopping
    BY <1>1 DEF evict_begin, Stopping, EvictTypeOK
  <2>3. UNCHANGED StaleRanges
    BY <1>1 DEF evict_begin, StaleRanges, EvictTypeOK, Modes
  <2> QED BY <1>1, <2>1, <2>2, <2>3 DEF evict_begin, GateState, TheGate!gateVars
<1>2. ASSUME NEW t \in Notifiers, evict_count(t)
      PROVE  TheGate!Close \/ UNCHANGED TheGate!gateVars
  <2>1. UNCHANGED <<Lifting, StaleRanges>>
    BY <1>2 DEF evict_count, Lifting, StaleRanges
  <2>2. CASE evicted_ranges = 0
    <3>1. Stopping' /\ evicted_ranges' # 0
      BY <1>2, <2>2 DEF evict_count, Stopping, EvictTypeOK
    <3> QED BY <2>1, <2>2, <3>1 DEF GateState, TheGate!Close
  <2>3. CASE evicted_ranges # 0
    <3>1. (Stopping' <=> Stopping) /\ evicted_ranges' # 0
      BY <1>2, <2>3 DEF evict_count, Stopping, EvictTypeOK
    <3> QED BY <2>1, <2>3, <3>1 DEF GateState, TheGate!gateVars
  <2> QED BY <2>2, <2>3
<1>3. ASSUME NEW t \in Notifiers, quiesce_mm(t)
      PROVE  TheGate!Closed
  <2>1. UNCHANGED <<Lifting, StaleRanges, evicted_ranges>>
    BY <1>3 DEF quiesce_mm, Lifting, StaleRanges
  <2>2. Stopping /\ evicted_ranges # 0
    BY <1>3 DEF quiesce_mm, Stopping, Exclusive, First, EvictTypeOK
  <2>3. ~Stopping'
    BY <1>3 DEF quiesce_mm, Stopping, Exclusive, First, EvictTypeOK
  <2> QED BY <2>1, <2>2, <2>3 DEF GateState, TheGate!Closed
<1>4. ASSUME NEW t \in Notifiers, evict_schedule(t)
      PROVE  UNCHANGED TheGate!gateVars
  <2>1. UNCHANGED <<Lifting, StaleRanges, evicted_ranges>>
    BY <1>4 DEF evict_schedule, Lifting, StaleRanges
  <2>2. Stopping' <=> Stopping
    BY <1>4 DEF evict_schedule, Stopping, EvictTypeOK
  <2> QED BY <2>1, <2>2 DEF GateState, TheGate!gateVars
<1>5. ASSUME NEW t \in Notifiers, cpu_update(t)
      PROVE  UNCHANGED TheGate!gateVars \/ \E r \in Ranges : TheGate!Change(r)
  <2> DEFINE r == ev[t].range
  <2>1. UNCHANGED <<Lifting, evicted_ranges>>
    BY <1>5 DEF cpu_update, Lifting
  <2>2. Stopping' <=> Stopping
    BY <1>5 DEF cpu_update, Stopping, EvictTypeOK
  <2>3. UNCHANGED GateState
    BY <2>1, <2>2 DEF GateState
  <2>4. CASE gpu[r] # "fresh"
    <3>1. UNCHANGED StaleRanges
      BY <1>5, <2>4 DEF cpu_update, StaleRanges, EvictTypeOK
    <3> QED BY <2>1, <2>3, <3>1 DEF TheGate!gateVars
  <2>5. CASE gpu[r] = "fresh"
    <3>1. r \in Ranges
      BY DEF EvictTypeOK
    <3>2. StaleRanges' = StaleRanges \cup {r}
      BY <1>5, <2>5, <3>1 DEF cpu_update, StaleRanges, EvictTypeOK
    <3>3. ~xnack_enabled
      BY <1>5, <2>5 DEF cpu_update, Modes
    <3>4. PastCount(t, r)
      BY <1>5 DEF cpu_update, PastCount
    <3>5. GateState # "open"
      BY <3>1, <3>3, <3>4 DEF Counted, Touched, GateState, EvictTypeOK
    <3>6. TheGate!Change(r)
      BY <2>1, <2>3, <3>2, <3>5 DEF TheGate!Change
    <3> QED BY <3>1, <3>6
  <2> QED BY <2>4, <2>5
<1> QED BY <1>1, <1>2, <1>3, <1>4, <1>5 DEF Evict, TheGate!Next

\* Steps of the worker: it maps ranges, opens the gate when none is stale, and lifts it.
LEMMA GateRestore ==
  ASSUME IInv, IInv', Restore PROVE [TheGate!Next]_(TheGate!gateVars)
<1> USE DEF IInv
<1>1. CASE \/ restore_begin \/ restore_lock \/ restore_pages \/ restore_fails \/ restore_swap
           \/ restore_out \/ \E r \in Ranges : restore_range(r)
  <2>1. UNCHANGED <<evicted_ranges, gpu, ev>>
    BY <1>1 DEF restore_begin, restore_lock, restore_pages, restore_fails, restore_swap,
                restore_out, restore_range
  <2>2. UNCHANGED Lifting
    BY <1>1, IdleTypes DEF restore_begin, restore_lock, restore_pages, restore_fails,
                restore_swap, restore_out, restore_range, Lifting, EvictTypeOK
  <2> QED BY <2>1, <2>2 DEF GateState, Stopping, StaleRanges, TheGate!gateVars
<1>2. ASSUME restore_map
      PROVE  UNCHANGED TheGate!gateVars \/ \E r \in Ranges : TheGate!Remap(r)
  <2>1. UNCHANGED <<Lifting, GateState>>
    BY <1>2 DEF restore_map, Lifting, GateState, Stopping, EvictTypeOK
  <2>2. wk.range \in Ranges
    BY DEF EvictTypeOK
  <2>3. CASE ~wk.pages
    <3>1. UNCHANGED StaleRanges
      BY <1>2, <2>3 DEF restore_map, StaleRanges
    <3> QED BY <2>1, <3>1 DEF TheGate!gateVars
  <2>4. CASE wk.pages
    <3>1. StaleRanges' = StaleRanges \ {wk.range}
      BY <1>2, <2>2, <2>4 DEF restore_map, StaleRanges, EvictTypeOK
    <3>2. TheGate!Remap(wk.range)
      BY <2>1, <3>1 DEF TheGate!Remap
    <3> QED BY <2>2, <3>2
  <2> QED BY <2>3, <2>4
<1>3. ASSUME restore_done
      PROVE  UNCHANGED TheGate!gateVars \/ TheGate!Open
  <2>1. UNCHANGED <<gpu, ev>> /\ ~Lifting
    BY <1>3 DEF restore_done, Lifting
  <2>2. CASE evicted_ranges # wk.seen
    <3>1. UNCHANGED evicted_ranges /\ ~Lifting'
      BY <1>3, <2>2 DEF restore_done, Lifting, EvictTypeOK
    <3> QED BY <2>1, <3>1 DEF GateState, Stopping, StaleRanges, Lifting, TheGate!gateVars
  <2>3. CASE evicted_ranges = wk.seen
    <3>1. evicted_ranges' = 0 /\ Lifting'
      BY <1>3, <2>3 DEF restore_done, Lifting, EvictTypeOK
    <3>2. evicted_ranges # 0 /\ ~Stopping
      BY <1>3 DEF restore_done, Exclusive, Busy, First, Stopping, EvictTypeOK
    <3>3. StaleRanges = {}
      BY <1>3, <2>3 DEF restore_done, Walk, Touched, StaleRanges, EvictTypeOK
    <3>4. UNCHANGED StaleRanges
      BY <2>1 DEF StaleRanges
    <3>5. GateState = "closed" /\ GateState' = "open"
      BY <3>1, <3>2 DEF GateState
    <3> QED BY <2>1, <3>1, <3>3, <3>4, <3>5 DEF TheGate!Open, Lifting
  <2> QED BY <2>2, <2>3
<1>4. ASSUME restore_resume
      PROVE  TheGate!Lift
  <2>1. UNCHANGED <<evicted_ranges, gpu, ev>> /\ Lifting /\ ~Lifting'
    BY <1>4, IdleTypes DEF restore_resume, Lifting
  <2> QED BY <2>1 DEF GateState, Stopping, StaleRanges, Lifting, TheGate!Lift
<1> QED BY <1>1, <1>2, <1>3, <1>4 DEF Restore, TheGate!Next

\* Retry faults and the exit of the process do not touch the gate.
LEMMA GateOther ==
  ASSUME IInv, IInv', Fault \/ Release PROVE UNCHANGED TheGate!gateVars
<1> USE DEF IInv
<1>1. UNCHANGED <<evicted_ranges, ev, wk>>
  BY DEF Fault, Release, fault_begin, fault_pages, fault_map, release_unhash,
         release_cancel, release_mm, release_free
<1>2. UNCHANGED StaleRanges
  <2>1. CASE fault_map
    BY <2>1 DEF fault_map, StaleRanges, Modes
  <2>2. CASE ~fault_map
    <3>1. UNCHANGED gpu
      BY <2>2 DEF Fault, Release, fault_begin, fault_pages, release_unhash,
                  release_cancel, release_mm, release_free
    <3> QED BY <3>1 DEF StaleRanges
  <2> QED BY <2>1, <2>2
<1> QED BY <1>1, <1>2 DEF GateState, Stopping, Lifting, TheGate!gateVars

LEMMA GateStep == IInv /\ IInv' /\ [Next]_vars => [TheGate!Next]_(TheGate!gateVars)
<1> SUFFICES ASSUME IInv, IInv', [Next]_vars PROVE [TheGate!Next]_(TheGate!gateVars)
  OBVIOUS
<1>1. CASE UNCHANGED vars
  BY <1>1 DEF vars, GateState, Stopping, StaleRanges, Lifting, TheGate!gateVars
<1> QED BY <1>1, GateEvict, GateRestore, GateOther DEF Next

\* Eviction and restoration implement the gate: whatever is invalidated while the worker
\* runs, pages change only behind a gate that is not open, and it opens only when no
\* GPU mapping leads to pages that are gone.
THEOREM GateIsImplemented == Spec => ImplementsGate
<1>1. Spec => [][TheGate!Next]_(TheGate!gateVars)
  BY Invariance, GateStep, PTL DEF Spec
<1> QED BY <1>1, GateInit, PTL DEF Spec, ImplementsGate, TheGate!Spec
=============================================================================
