------------------------- MODULE OpuInterruptProofs -------------------------
(***************************************************************************)
(* The interrupt path, for any number of CPUs, any fifo capacity and any   *)
(* number of interrupts: IInv is an inductive invariant, hence entries are *)
(* delivered in order and once, none is left behind, and the fifo is freed *)
(* only when it is drained and nobody can touch it.                        *)
(***************************************************************************)
EXTENDS OpuInterrupt, TLAPS

\* The initial state satisfies the inductive invariant.
LEMMA InitIInv == Init => IInv
<1> SUFFICES ASSUME Init PROVE IInv
  OBVIOUS
<1>1. ih_fifo \in Seq(Nat) /\ Len(ih_fifo) = 0 /\ Len(handled) = 0
      /\ Len(accepted) = 0 /\ accepted \in Seq(Nat) /\ handled \in Seq(Nat)
  BY DEF Init
<1>2. TypeOK
  <2>1. Len(ih_fifo) <= OPU_IH_NUM_ENTRIES
    BY <1>1, OpuInterruptAssumption
  <2>2. /\ isr \in [Cpus -> IsrStates] /\ isr_entry \in [Cpus -> Nat]
        /\ interrupt_lock \in Cpus \cup {"free"}
    BY DEF Init, IsrStates
  <2>3. /\ device \in DeviceStates /\ worker \in WorkerStates
        /\ init_complete \in BOOLEAN /\ interrupts_active \in BOOLEAN
        /\ work_pending \in BOOLEAN /\ ih_ring_entry \in Nat /\ raised \in Nat
    BY DEF Init, DeviceStates, WorkerStates
  <2> QED
    BY <1>1, <2>1, <2>2, <2>3 DEF TypeOK
<1>3. LockHeld /\ Quiescent /\ NoStrandedEntry
  BY OpuInterruptAssumption DEF Init, LockHeld, Quiescent, NoStrandedEntry
<1>4. InOrderDelivery
  BY <1>1 DEF Init, InOrderDelivery, InHand
<1> QED
  BY <1>2, <1>3, <1>4 DEF IInv

\* Appending to one sequence and keeping the others: indices at or below the
\* old length are undisturbed.
LEMMA AppendIndices ==
  ASSUME NEW S, NEW s \in Seq(S), NEW e \in S
  PROVE  /\ Append(s, e) \in Seq(S)
         /\ Len(Append(s, e)) = Len(s) + 1
         /\ Append(s, e)[Len(s) + 1] = e
         /\ \A i \in 1..Len(s) : Append(s, e)[i] = s[i]
OBVIOUS

\* Taking the head off a non-empty sequence shifts the indices by one.
LEMMA TailIndices ==
  ASSUME NEW S, NEW s \in Seq(S), s # <<>>
  PROVE  /\ Tail(s) \in Seq(S)
         /\ Head(s) \in S
         /\ Head(s) = s[1]
         /\ Len(s) \in Nat
         /\ Len(s) >= 1
         /\ Len(Tail(s)) = Len(s) - 1
         /\ \A i \in 1..Len(Tail(s)) : Tail(s)[i] = s[i + 1]
OBVIOUS

\* Two sequences with the same length and the same elements are equal.
LEMMA SameElements ==
  ASSUME NEW S, NEW s \in Seq(S), NEW t \in Seq(S), Len(s) = Len(t),
         \A i \in 1..Len(s) : s[i] = t[i]
  PROVE  s = t
OBVIOUS

\* Every step of the driver preserves the inductive invariant.
LEMMA NextIInv == IInv /\ [Next]_vars => IInv'
<1> SUFFICES ASSUME IInv, [Next]_vars PROVE IInv'
  OBVIOUS
<1> USE OpuInterruptAssumption DEF DeviceStates, IsrStates, WorkerStates
<1>1. CASE opu_interrupt_init
  BY <1>1 DEF IInv, TypeOK, LockHeld, Quiescent, InOrderDelivery, InHand,
              NoStrandedEntry, opu_interrupt_init, isrVars, workerVars
<1>2. CASE core_init_complete
  BY <1>2 DEF IInv, TypeOK, LockHeld, Quiescent, InOrderDelivery, InHand,
              NoStrandedEntry, core_init_complete, isrVars, workerVars
<1>3. ASSUME NEW c \in Cpus, kgd2opu_interrupt(c) PROVE IInv'
  BY <1>3 DEF IInv, TypeOK, LockHeld, Quiescent, InOrderDelivery, InHand,
              NoStrandedEntry, kgd2opu_interrupt, devVars, workerVars
<1>4. ASSUME NEW c \in Cpus, isr_accept(c) PROVE IInv'
  <2> USE <1>4 DEF isr_accept, enqueue_ih_ring_entry
  <2>0. /\ isr_entry[c] \in Nat
        /\ ih_fifo' = Append(ih_fifo, isr_entry[c])
        /\ accepted' = Append(accepted, isr_entry[c])
        /\ ih_fifo \in Seq(Nat) /\ accepted \in Seq(Nat)
        /\ Len(ih_fifo) \in Nat /\ Len(handled) \in Nat
        /\ InHand \in {0, 1} /\ InHand' = InHand
    BY DEF IInv, TypeOK, InHand, workerVars
  <2>a. /\ ih_fifo' \in Seq(Nat)
        /\ Len(ih_fifo') = Len(ih_fifo) + 1
        /\ ih_fifo'[Len(ih_fifo) + 1] = isr_entry[c]
        /\ \A i \in 1..Len(ih_fifo) : ih_fifo'[i] = ih_fifo[i]
    BY <2>0, AppendIndices
  <2>b. /\ accepted' \in Seq(Nat)
        /\ Len(accepted') = Len(accepted) + 1
        /\ accepted'[Len(accepted) + 1] = isr_entry[c]
        /\ \A i \in 1..Len(accepted) : accepted'[i] = accepted[i]
    BY <2>0, AppendIndices
  <2>1. TypeOK'
    BY <2>a, <2>b DEF IInv, TypeOK, devVars, workerVars
  <2>2. LockHeld'
    BY DEF IInv, TypeOK, LockHeld
  <2>3. Quiescent'
    BY DEF IInv, TypeOK, Quiescent, devVars
  <2>4. InOrderDelivery'
    <3>1. Len(accepted') = Len(handled') + InHand' + Len(ih_fifo')
      BY <2>0, <2>a, <2>b DEF IInv, InOrderDelivery, workerVars
    <3>2. \A i \in 1..Len(handled') : handled'[i] = accepted'[i]
      BY <2>0, <2>b DEF IInv, InOrderDelivery, workerVars
    <3>3. worker' = "handle" => ih_ring_entry' = accepted'[Len(handled') + 1]
      BY <2>0, <2>b DEF IInv, InOrderDelivery, InHand, workerVars
    <3>0. handled' = handled
      BY DEF workerVars
    <3> HIDE <1>4 DEF isr_accept, enqueue_ih_ring_entry
    <3>4. ASSUME NEW i \in 1..Len(ih_fifo')
          PROVE  ih_fifo'[i] = accepted'[Len(handled') + InHand' + i]
      <4>0. /\ handled' = handled
            /\ Len(accepted) = Len(handled) + InHand + Len(ih_fifo)
            /\ \A j \in 1..Len(ih_fifo) :
                  ih_fifo[j] = accepted[Len(handled) + InHand + j]
        BY <3>0 DEF IInv, InOrderDelivery
      <4>1. CASE i = Len(ih_fifo) + 1
        <5>1. Len(handled) + InHand + i = Len(accepted) + 1
          BY <4>0, <4>1, <2>0
        <5> QED
          BY <5>1, <4>0, <4>1, <2>0, <2>a, <2>b
      <4>2. CASE i \in 1..Len(ih_fifo)
        <5>0. /\ Len(handled) + InHand + i \in Nat
              /\ Len(handled) + InHand + i >= 1
              /\ Len(handled) + InHand + i <= Len(handled) + InHand + Len(ih_fifo)
          BY <4>2, <2>0
        <5>1. Len(handled) + InHand + i \in 1..Len(accepted)
          BY <5>0, <4>0, <2>0
        <5>2. accepted'[Len(handled) + InHand + i]
                = accepted[Len(handled) + InHand + i]
          BY <5>1, <2>b
        <5>3. ih_fifo'[i] = accepted[Len(handled) + InHand + i]
          BY <4>0, <4>2, <2>a
        <5> QED
          BY <5>2, <5>3, <4>0, <2>0
      <4>3. i \in 1..(Len(ih_fifo) + 1)
        BY <3>4, <2>a
      <4>4. i = Len(ih_fifo) + 1 \/ i \in 1..Len(ih_fifo)
        BY <4>3, <2>0
      <4> QED
        BY <4>1, <4>2, <4>4
    <3> QED
      BY <3>1, <3>2, <3>3, <3>4 DEF InOrderDelivery
  <2>5. NoStrandedEntry'
    BY DEF IInv, TypeOK, NoStrandedEntry
  <2> QED
    BY <2>1, <2>2, <2>3, <2>4, <2>5 DEF IInv
<1>5. ASSUME NEW c \in Cpus, isr_drop(c) PROVE IInv'
  BY <1>5 DEF IInv, TypeOK, LockHeld, Quiescent, InOrderDelivery, InHand,
              NoStrandedEntry, isr_drop, devVars, workerVars
<1>6. ASSUME NEW c \in Cpus, opu_queue_work(c) PROVE IInv'
  BY <1>6 DEF IInv, TypeOK, LockHeld, Quiescent, InOrderDelivery, InHand,
              NoStrandedEntry, opu_queue_work, devVars, workerVars
<1>7. CASE process_one_work
  BY <1>7 DEF IInv, TypeOK, LockHeld, Quiescent, InOrderDelivery, InHand,
              NoStrandedEntry, process_one_work, devVars, isrVars
<1>8. CASE dequeue_ih_ring_entry
  <2>1. CASE ih_fifo = <<>>
    BY <1>8, <2>1 DEF IInv, TypeOK, LockHeld, Quiescent, InOrderDelivery,
         InHand, NoStrandedEntry, dequeue_ih_ring_entry, devVars, isrVars
  <2>2. CASE ih_fifo # <<>>
    <3> USE <1>8, <2>2 DEF dequeue_ih_ring_entry
    <3>0. /\ ih_fifo \in Seq(Nat) /\ ih_fifo # <<>>
          /\ ih_fifo' = Tail(ih_fifo) /\ ih_ring_entry' = Head(ih_fifo)
          /\ worker = "loop" /\ worker' = "handle"
          /\ Len(handled) \in Nat
          /\ InHand = 0 /\ InHand' = 1
      BY DEF IInv, TypeOK, InHand
    <3>a. /\ ih_fifo' \in Seq(Nat)
          /\ ih_ring_entry' \in Nat
          /\ ih_ring_entry' = ih_fifo[1]
          /\ Len(ih_fifo) \in Nat /\ Len(ih_fifo) >= 1
          /\ Len(ih_fifo') = Len(ih_fifo) - 1
          /\ \A i \in 1..Len(ih_fifo') : ih_fifo'[i] = ih_fifo[i + 1]
      BY <3>0, TailIndices
    <3>1. TypeOK'
      BY <3>0, <3>a DEF IInv, TypeOK, devVars, isrVars
    <3>2. LockHeld' /\ Quiescent' /\ NoStrandedEntry'
      BY <3>0 DEF IInv, LockHeld, Quiescent, NoStrandedEntry, devVars, isrVars
    <3>3. InOrderDelivery'
      <4>1. /\ Len(accepted') = Len(handled') + InHand' + Len(ih_fifo')
            /\ \A i \in 1..Len(handled') : handled'[i] = accepted'[i]
            /\ ih_ring_entry' = accepted'[Len(handled') + 1]
        <5>1. accepted' = accepted /\ handled' = handled
          BY DEF isrVars
        <5>2. /\ Len(accepted) = Len(handled) + 0 + Len(ih_fifo)
              /\ \A i \in 1..Len(handled) : handled[i] = accepted[i]
              /\ ih_fifo[1] = accepted[Len(handled) + 0 + 1]
          BY <3>0, <3>a DEF IInv, InOrderDelivery
        <5> QED
          BY <5>1, <5>2, <3>0, <3>a
      <4>2. ASSUME NEW i \in 1..Len(ih_fifo')
            PROVE  ih_fifo'[i] = accepted'[Len(handled') + InHand' + i]
        <5>1. i + 1 \in 1..Len(ih_fifo) /\ ih_fifo'[i] = ih_fifo[i + 1]
          BY <4>2, <3>a
        <5>2. ih_fifo[i + 1] = accepted[Len(handled) + InHand + (i + 1)]
          BY <5>1 DEF IInv, InOrderDelivery
        <5>3. accepted' = accepted /\ handled' = handled
          BY DEF isrVars
        <5>4. Len(handled) + InHand + (i + 1) = Len(handled) + InHand' + i
          BY <4>2, <3>0, <3>a
        <5> QED
          BY <5>1, <5>2, <5>3, <5>4
      <4> QED
        BY <4>1, <4>2 DEF InOrderDelivery
    <3> QED
      BY <3>1, <3>2, <3>3 DEF IInv
  <2> QED
    BY <2>1, <2>2
<1>9. CASE interrupt_wq
  <2> USE <1>9 DEF interrupt_wq
  <2>0. /\ worker = "handle" /\ worker' = "loop"
        /\ InHand = 1 /\ InHand' = 0
        /\ handled \in Seq(Nat) /\ ih_ring_entry \in Nat
        /\ handled' = Append(handled, ih_ring_entry)
        /\ Len(handled) \in Nat /\ Len(ih_fifo) \in Nat
    BY DEF IInv, TypeOK, InHand
  <2>a. /\ handled' \in Seq(Nat)
        /\ Len(handled') = Len(handled) + 1
        /\ handled'[Len(handled) + 1] = ih_ring_entry
        /\ \A i \in 1..Len(handled) : handled'[i] = handled[i]
    BY <2>0, AppendIndices
  <2>1. TypeOK'
    BY <2>0, <2>a DEF IInv, TypeOK, devVars, isrVars
  <2>2. LockHeld' /\ Quiescent' /\ NoStrandedEntry'
    BY <2>0 DEF IInv, LockHeld, Quiescent, NoStrandedEntry, devVars, isrVars
  <2>3. InOrderDelivery'
    BY <2>0, <2>a DEF IInv, InOrderDelivery, isrVars
  <2> QED
    BY <2>1, <2>2, <2>3 DEF IInv
<1>10. CASE interrupt_wq_return
  BY <1>10 DEF IInv, TypeOK, LockHeld, Quiescent, InOrderDelivery, InHand,
               NoStrandedEntry, interrupt_wq_return, devVars, isrVars
<1>11. CASE exit_deactivate
  BY <1>11 DEF IInv, TypeOK, LockHeld, Quiescent, InOrderDelivery, InHand,
               NoStrandedEntry, exit_deactivate, isrVars, workerVars
<1>12. CASE flush_workqueue
  BY <1>12 DEF IInv, TypeOK, LockHeld, Quiescent, InOrderDelivery, InHand,
               NoStrandedEntry, flush_workqueue, isrVars, workerVars
<1>13. CASE exit_free
  BY <1>13 DEF IInv, TypeOK, LockHeld, Quiescent, InOrderDelivery, InHand,
               NoStrandedEntry, exit_free, isrVars, workerVars
<1>14. CASE UNCHANGED vars
  BY <1>14 DEF IInv, TypeOK, LockHeld, Quiescent, InOrderDelivery, InHand,
               NoStrandedEntry, vars
<1> QED
  BY <1>1, <1>2, <1>3, <1>4, <1>5, <1>6, <1>7, <1>8, <1>9, <1>10, <1>11,
     <1>12, <1>13, <1>14 DEF Next, Isr, Worker, Exit

\* The inductive invariant implies that the fifo is freed drained and unused.
LEMMA IInvFifoLifetime == IInv => FifoLifetime
<1> SUFFICES ASSUME IInv, device \in {"flushed", "freed"}
             PROVE  /\ worker = "idle" /\ ~work_pending /\ ~interrupts_active
                    /\ \A c \in Cpus : isr[c] # "enqueued"
                    /\ handled = accepted
  BY DEF FifoLifetime
<1>1. worker = "idle" /\ ~work_pending /\ ~interrupts_active
      /\ interrupt_lock = "free" /\ ih_fifo = <<>>
  BY DEF IInv, Quiescent
<1>2. \A c \in Cpus : isr[c] # "enqueued"
  BY <1>1, OpuInterruptAssumption DEF IInv, LockHeld
<1>3. handled = accepted
  <2>1. Len(accepted) = Len(handled) /\ \A i \in 1..Len(handled) : handled[i] = accepted[i]
    BY <1>1 DEF IInv, TypeOK, InOrderDelivery, InHand
  <2> QED
    BY <2>1, SameElements DEF IInv, TypeOK
<1> QED
  BY <1>1, <1>2, <1>3

\* For any configuration, IInv holds in every reachable state.
THEOREM InterruptInductive == Spec => []IInv
<1>1. Init => IInv
  BY InitIInv
<1>2. IInv /\ [Next]_vars => IInv'
  BY NextIInv
<1> QED
  BY <1>1, <1>2, PTL DEF Spec

\* The variables keep their types; in particular ih_fifo never exceeds its
\* capacity.
THEOREM InterruptTypeOK == Spec => []TypeOK
<1>1. IInv => TypeOK
  BY DEF IInv
<1> QED
  BY <1>1, InterruptInductive, PTL

\* Entries are delivered in the order of acceptance and exactly once.
THEOREM InterruptInOrder == Spec => []InOrderDelivery
<1>1. IInv => InOrderDelivery
  BY DEF IInv
<1> QED
  BY <1>1, InterruptInductive, PTL

\* No entry is left in the fifo without somebody bound to process it.
THEOREM InterruptNotStranded == Spec => []NoStrandedEntry
<1>1. IInv => NoStrandedEntry
  BY DEF IInv
<1> QED
  BY <1>1, InterruptInductive, PTL

\* opu_interrupt_exit frees the fifo only after every accepted entry has been
\* processed and when neither half can touch it again.
THEOREM InterruptFifoLifetime == Spec => []FifoLifetime
BY IInvFifoLifetime, InterruptInductive, PTL
=============================================================================
