---------------------------- MODULE OpuInterrupt ----------------------------
(***************************************************************************)
(* The interrupt path of one device: the top half kgd2opu_interrupt, run   *)
(* by the interrupt handler on any CPU under interrupt_lock, copies the    *)
(* wanted interrupt-ring entries into ih_fifo and queues interrupt_work;   *)
(* the bottom half interrupt_wq drains the fifo without taking that lock;  *)
(* opu_interrupt_exit switches the top half off, flushes the workqueue and *)
(* frees the fifo.                                                         *)
(*                                                                         *)
(* An entry is the number of the interrupt that carries it.  kfifo moves   *)
(* whole entries (its size is a multiple of ih_ring_entry_size), so the    *)
(* fifo is a sequence of entries.  The kernel workqueue is external: one   *)
(* PENDING bit per work item, cleared before the item runs, and an item    *)
(* never runs on two workers at once.                                      *)
(***************************************************************************)
EXTENDS Naturals, Sequences

CONSTANTS
  Cpus,                \* the CPUs that can take the device's interrupt
  OPU_IH_NUM_ENTRIES,  \* capacity of ih_fifo (8192 in the code)
  MaxInterrupts        \* bound of the model: interrupts raised in a run

ASSUME OpuInterruptAssumption ==
  /\ OPU_IH_NUM_ENTRIES \in Nat \ {0}
  /\ MaxInterrupts \in Nat
  /\ "free" \notin Cpus

VARIABLES
  device,             \* where device init / exit stands
  init_complete,      \* opu->init_complete
  interrupts_active,  \* opu->interrupts_active
  interrupt_lock,     \* the CPU that holds opu->interrupt_lock, or "free"
  ih_fifo,            \* opu->ih_fifo
  isr,                \* per CPU: where kgd2opu_interrupt stands
  isr_entry,          \* per CPU: the entry that kgd2opu_interrupt was given
  work_pending,       \* the PENDING bit of opu->interrupt_work
  worker,             \* where interrupt_wq stands
  ih_ring_entry,      \* interrupt_wq's local copy of the entry (0: none yet)
  raised,             \* history: interrupts the hardware has raised
  accepted,           \* history: entries that were enqueued, in order
  handled             \* history: entries interrupt_wq has processed, in order

vars == <<device, init_complete, interrupts_active, interrupt_lock, ih_fifo,
          isr, isr_entry, work_pending, worker, ih_ring_entry, raised,
          accepted, handled>>

devVars    == <<device, init_complete, interrupts_active>>
isrVars    == <<interrupt_lock, isr, isr_entry, raised, accepted>>
workerVars == <<worker, ih_ring_entry, handled>>

Init ==
  /\ device = "uninit"
  /\ init_complete = FALSE
  /\ interrupts_active = FALSE
  /\ interrupt_lock = "free"
  /\ ih_fifo = <<>>
  /\ isr = [c \in Cpus |-> "idle"]
  /\ isr_entry = [c \in Cpus |-> 0]
  /\ work_pending = FALSE
  /\ worker = "idle"
  /\ ih_ring_entry = 0
  /\ raised = 0
  /\ accepted = <<>>
  /\ handled = <<>>

-----------------------------------------------------------------------------
(* Device init: opu_interrupt_init, called by core_init before the device  *)
(* is published with init_complete.  A failed allocation (or a later step  *)
(* of core_init that fails) ends device init; the second goes through      *)
(* opu_interrupt_exit.                                                     *)

opu_interrupt_init ==
  /\ device = "uninit"
  /\ \/ /\ device' = "ready"           \* kfifo and workqueue allocated
        /\ interrupts_active' = TRUE
     \/ /\ device' = "freed"           \* -ENOMEM
        /\ interrupts_active' = FALSE
  /\ UNCHANGED <<init_complete, isrVars, workerVars, ih_fifo, work_pending>>

core_init_complete ==
  /\ device = "ready"
  /\ device' = "complete"
  /\ init_complete' = TRUE
  /\ UNCHANGED <<interrupts_active, isrVars, workerVars, ih_fifo, work_pending>>

-----------------------------------------------------------------------------
(* The top half.                                                           *)

\* kgd2opu_interrupt is entered; init_complete is tested before the lock and
\* is never cleared, so a late interrupt gets as far as the lock.
kgd2opu_interrupt(c) ==
  /\ isr[c] = "idle"
  /\ raised < MaxInterrupts
  /\ init_complete
  /\ raised' = raised + 1
  /\ isr' = [isr EXCEPT ![c] = "entered"]
  /\ isr_entry' = [isr_entry EXCEPT ![c] = raised + 1]
  /\ UNCHANGED <<devVars, interrupt_lock, accepted, workerVars, ih_fifo,
                 work_pending>>

\* Faulty variant: the oldest entry makes room in a full fifo.
enqueue_overwriting(e) ==
  /\ ih_fifo' = IF Len(ih_fifo) < OPU_IH_NUM_ENTRIES
                THEN Append(ih_fifo, e) ELSE Append(Tail(ih_fifo), e)
  /\ accepted' = Append(accepted, e)

\* kfifo_in copies the entry or, when it does not fit, nothing.
enqueue_ih_ring_entry(e) ==
  /\ Len(ih_fifo) < OPU_IH_NUM_ENTRIES
  /\ ih_fifo' = Append(ih_fifo, e)
  /\ accepted' = Append(accepted, e)

\* The lock is taken and the entry is enqueued; the CPU keeps the lock.
isr_accept(c) ==
  /\ isr[c] = "entered"
  /\ interrupt_lock = "free"
  /\ interrupts_active
  /\ enqueue_ih_ring_entry(isr_entry[c])
  /\ interrupt_lock' = c
  /\ isr' = [isr EXCEPT ![c] = "enqueued"]
  /\ UNCHANGED <<devVars, isr_entry, raised, workerVars, work_pending>>

\* The lock is taken and released with nothing done: interrupts are off, the
\* interrupt class does not want the entry, or the fifo is full.  Whether the
\* entry is wanted is the external interrupt_isr's choice.
isr_drop(c) ==
  /\ isr[c] = "entered"
  /\ interrupt_lock = "free"
  /\ \E wanted \in BOOLEAN :
        \/ ~interrupts_active
        \/ ~wanted
        \/ Len(ih_fifo) >= OPU_IH_NUM_ENTRIES
  /\ isr' = [isr EXCEPT ![c] = "idle"]
  /\ UNCHANGED <<devVars, interrupt_lock, isr_entry, raised, accepted,
                 workerVars, ih_fifo, work_pending>>

\* Faulty variant: only an interrupt that finds the worker idle queues the
\* work, as if a running worker always saw the new entry.
opu_queue_work_if_idle(c) ==
  /\ isr[c] = "enqueued"
  /\ work_pending' = (work_pending \/ worker = "idle")
  /\ interrupt_lock' = "free"
  /\ isr' = [isr EXCEPT ![c] = "idle"]
  /\ UNCHANGED <<devVars, isr_entry, raised, accepted, workerVars, ih_fifo>>

\* opu_queue_work sets the PENDING bit (no effect if it is set), then the
\* lock is released.
opu_queue_work(c) ==
  /\ isr[c] = "enqueued"
  /\ work_pending' = TRUE
  /\ interrupt_lock' = "free"
  /\ isr' = [isr EXCEPT ![c] = "idle"]
  /\ UNCHANGED <<devVars, isr_entry, raised, accepted, workerVars, ih_fifo>>

-----------------------------------------------------------------------------
(* The bottom half.                                                        *)

\* External: a worker picks the work item up, clearing PENDING first.
process_one_work ==
  /\ work_pending
  /\ worker = "idle"
  /\ work_pending' = FALSE
  /\ worker' = "loop"
  /\ UNCHANGED <<devVars, isrVars, ih_ring_entry, handled, ih_fifo>>

\* The loop condition: dequeue_ih_ring_entry takes one entry, or finds none
\* and the function is about to return.
dequeue_ih_ring_entry ==
  /\ worker = "loop"
  /\ \/ /\ ih_fifo # <<>>
        /\ ih_ring_entry' = Head(ih_fifo)
        /\ ih_fifo' = Tail(ih_fifo)
        /\ worker' = "handle"
     \/ /\ ih_fifo = <<>>
        /\ worker' = "return"
        /\ UNCHANGED <<ih_fifo, ih_ring_entry>>
  /\ UNCHANGED <<devVars, isrVars, handled, work_pending>>

\* Faulty variant: one entry per work item; the rest waits for the next one.
interrupt_wq_one_entry ==
  /\ worker = "handle"
  /\ handled' = Append(handled, ih_ring_entry)
  /\ worker' = "return"
  /\ UNCHANGED <<devVars, isrVars, ih_ring_entry, ih_fifo, work_pending>>

\* The loop body: the interrupt class processes the entry.
interrupt_wq ==
  /\ worker = "handle"
  /\ handled' = Append(handled, ih_ring_entry)
  /\ worker' = "loop"
  /\ UNCHANGED <<devVars, isrVars, ih_ring_entry, ih_fifo, work_pending>>

interrupt_wq_return ==
  /\ worker = "return"
  /\ worker' = "idle"
  /\ UNCHANGED <<devVars, isrVars, ih_ring_entry, handled, ih_fifo,
                 work_pending>>

-----------------------------------------------------------------------------
(* opu_interrupt_exit, on device removal or when core_init fails later on. *)

\* Faulty variant: the flag is cleared without taking interrupt_lock.
exit_deactivate_unlocked ==
  /\ device \in {"ready", "complete"}
  /\ interrupts_active' = FALSE
  /\ device' = "off"
  /\ UNCHANGED <<init_complete, isrVars, workerVars, ih_fifo, work_pending>>

\* interrupts_active = false under interrupt_lock.
exit_deactivate ==
  /\ device \in {"ready", "complete"}
  /\ interrupt_lock = "free"
  /\ interrupts_active' = FALSE
  /\ device' = "off"
  /\ UNCHANGED <<init_complete, isrVars, workerVars, ih_fifo, work_pending>>

\* flush_workqueue returns when the work item is neither pending nor running.
flush_workqueue ==
  /\ device = "off"
  /\ ~work_pending
  /\ worker = "idle"
  /\ device' = "flushed"
  /\ UNCHANGED <<init_complete, interrupts_active, isrVars, workerVars, ih_fifo,
                 work_pending>>

\* kfifo_free.
exit_free ==
  /\ device = "flushed"
  /\ device' = "freed"
  /\ ih_fifo' = <<>>
  /\ UNCHANGED <<init_complete, interrupts_active, isrVars, workerVars, work_pending>>

-----------------------------------------------------------------------------

Isr(c) == isr_accept(c) \/ isr_drop(c) \/ opu_queue_work(c)

Worker == \/ process_one_work
          \/ dequeue_ih_ring_entry
          \/ interrupt_wq
          \/ interrupt_wq_return

Exit == flush_workqueue \/ exit_free

Next ==
  \/ opu_interrupt_init
  \/ core_init_complete
  \/ \E c \in Cpus : kgd2opu_interrupt(c) \/ Isr(c)
  \/ Worker
  \/ exit_deactivate
  \/ Exit

\* The scheduler runs the worker and the thread in opu_interrupt_exit, and a
\* CPU inside the interrupt handler leaves it.  Nobody is obliged to raise an
\* interrupt or to remove the device.  A CPU that spins on interrupt_lock gets
\* it in the end: the spinlock is fair (queued), hence SF on the two actions
\* that take it.
Fairness ==
  /\ WF_vars(Worker)
  /\ WF_vars(Exit)
  /\ \A c \in Cpus : WF_vars(opu_queue_work(c))
  /\ \A c \in Cpus : SF_vars(isr_accept(c) \/ isr_drop(c))

Spec == Init /\ [][Next]_vars /\ Fairness

-----------------------------------------------------------------------------
(* Properties.                                                             *)

IsrStates    == {"idle", "entered", "enqueued"}
WorkerStates == {"idle", "loop", "handle", "return"}
DeviceStates == {"uninit", "ready", "complete", "off", "flushed", "freed"}

\* The types of the variables; ih_fifo never holds more than its capacity.
TypeOK ==
  /\ device \in DeviceStates
  /\ init_complete \in BOOLEAN
  /\ interrupts_active \in BOOLEAN
  /\ interrupt_lock \in Cpus \cup {"free"}
  /\ ih_fifo \in Seq(Nat)
  /\ Len(ih_fifo) <= OPU_IH_NUM_ENTRIES
  /\ isr \in [Cpus -> IsrStates]
  /\ isr_entry \in [Cpus -> Nat]
  /\ work_pending \in BOOLEAN
  /\ worker \in WorkerStates
  /\ ih_ring_entry \in Nat
  /\ raised \in Nat
  /\ accepted \in Seq(Nat)
  /\ handled \in Seq(Nat)

\* The number of entries interrupt_wq has taken out and not yet processed.
InHand == IF worker = "handle" THEN 1 ELSE 0

\* Entries reach the interrupt class in the order the top half accepted them,
\* each exactly once: what is processed, what the worker holds and what the
\* fifo holds are, in this order, the accepted entries.
InOrderDelivery ==
  /\ Len(accepted) = Len(handled) + InHand + Len(ih_fifo)
  /\ \A i \in 1..Len(handled) : handled[i] = accepted[i]
  /\ worker = "handle" => ih_ring_entry = accepted[Len(handled) + 1]
  /\ \A i \in 1..Len(ih_fifo) :
        ih_fifo[i] = accepted[Len(handled) + InHand + i]

\* An entry in the fifo is never left behind: the work item is pending, the
\* worker has yet to find the fifo empty, or a CPU is about to queue the work.
\* (A worker that has already seen the fifo empty does not count.)
NoStrandedEntry ==
  ih_fifo # <<>> =>
    \/ work_pending
    \/ worker \in {"loop", "handle"}
    \/ \E c \in Cpus : isr[c] = "enqueued"

\* The comment in opu_interrupt_exit: once the workqueue is flushed nobody can
\* touch the fifo, so it is freed with no user left, and at that point every
\* accepted entry has been processed.
FifoLifetime ==
  device \in {"flushed", "freed"} =>
    /\ worker = "idle"
    /\ ~work_pending
    /\ ~interrupts_active
    /\ \A c \in Cpus : isr[c] # "enqueued"
    /\ handled = accepted

\* What makes the properties above inductive: the lock is held exactly by the
\* CPU between enqueue and queue_work; outside the life of the device nobody
\* can enqueue; before it starts and after the flush the path is quiescent.
LockHeld ==
  \A c \in Cpus : isr[c] = "enqueued" <=> interrupt_lock = c

Quiescent ==
  /\ device \in {"uninit", "off", "flushed", "freed"} =>
        /\ ~interrupts_active
        /\ interrupt_lock = "free"
  /\ device \in {"uninit", "flushed", "freed"} =>
        /\ worker = "idle"
        /\ ~work_pending
        /\ ih_fifo = <<>>

\* The inductive invariant of the interrupt path.
IInv ==
  /\ TypeOK
  /\ LockHeld
  /\ Quiescent
  /\ InOrderDelivery
  /\ NoStrandedEntry

\* Every accepted entry is processed in the end, whatever the top half and
\* device removal do meanwhile.
AcceptedIsHandled ==
  \A n \in 1..MaxInterrupts : (Len(accepted) >= n) ~> (Len(handled) >= n)

=============================================================================
