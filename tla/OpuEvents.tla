------------------------------ MODULE OpuEvents ------------------------------
(***************************************************************************)
(* The events of one process: creation and destruction, the signal slots   *)
(* that the GPU writes, signalling from the CPU, from interrupts and from  *)
(* faults, and opu_wait_on_events, with which threads wait for any or all  *)
(* of a list of events.                                                    *)
(*                                                                         *)
(* Everything but two things happens under p->event_mutex.  A waiting      *)
(* thread tests its waiters and copies event data without it; and          *)
(* opu_event_page_set and opu_event_mmap do not take it.  So an operation  *)
(* that waiters can observe half done is split where they can: `section'   *)
(* is the operation that holds the mutex, and its wake_up_all and what     *)
(* follows are steps of their own.                                         *)
(*                                                                         *)
(* Events are heap objects with an identity: an object is never reused, so *)
(* a pointer to a freed one is recognisable.  User-mode addresses, logging *)
(* and the contents of exception data are left out; exception data is the  *)
(* number of the fault that wrote it (0: the zeroes of kzalloc).           *)
(***************************************************************************)
EXTENDS Naturals, Sequences, FiniteSets

CONSTANTS
  Threads,                \* user threads that wait on events
  OPU_SIGNAL_EVENT_LIMIT, \* signal slots in the page (4096 in the code)
  OLD_USER_SLOTS,         \* slots the oldest user mode maps (256 in the code)
  PARTIAL_CLASSES,        \* 2^valid_id_bits: ids an interrupt can tell apart
  OtherIds,               \* ids of non-signal events (upper half of the ids)
  EventTypes,             \* types user mode creates, of the four below
  AutoModes,              \* values of auto_reset it creates them with
  MapSizes,               \* sizes, in slots, of the pages it sets and maps
  GpuIds,                 \* the slots it has the GPU signal
  Timeouts,               \* timeouts it waits with ("expired": none at all)
  WaitLists,              \* the lists of event ids user mode waits on
  MaxListLen,             \* bound: length of those lists
  MaxEvents,              \* bound: events ever created
  MaxSignals              \* bound: signals of all kinds ever sent

SIGNAL == "SIGNAL"
DEBUG == "DEBUG"
HW_EXCEPTION == "HW_EXCEPTION"
MEMORY == "MEMORY"

SignalIds == 0..(OPU_SIGNAL_EVENT_LIMIT - 1)
Ids       == SignalIds \cup OtherIds
Objs      == 1..MaxEvents
NULL      == 0          \* the null pointer
GARBAGE   == MaxEvents + 1   \* a pointer read from uninitialised memory
Classes   == 0..(PARTIAL_CLASSES - 1)
NO_ID     == PARTIAL_CLASSES  \* an interrupt with no valid id bits

ASSUME OpuEventsAssumption ==
  /\ OPU_SIGNAL_EVENT_LIMIT \in Nat \ {0}
  /\ OLD_USER_SLOTS \in 1..OPU_SIGNAL_EVENT_LIMIT
  /\ PARTIAL_CLASSES \in Nat \ {0}
  /\ OtherIds \subseteq Nat /\ OtherIds \cap SignalIds = {}
  /\ EventTypes \subseteq {SIGNAL, DEBUG, HW_EXCEPTION, MEMORY}
  /\ AutoModes \subseteq BOOLEAN
  /\ MapSizes \subseteq 1..OPU_SIGNAL_EVENT_LIMIT
  /\ GpuIds \subseteq SignalIds
  /\ Timeouts \subseteq {"expired", "finite", "infinite"}
  /\ MaxEvents \in Nat
  /\ MaxSignals \in Nat
  /\ MaxListLen \in Nat
  /\ WaitLists \subseteq {l \in Seq(Ids) : Len(l) <= MaxListLen}

VARIABLES
  alive,               \* the process has not been released
  event_idr,           \* p->event_idr: id -> event, or NULL
  ev,                  \* the event objects
  created,             \* events created so far; the next one is created + 1
  signal_page,         \* p->signal_page is set
  signal_mapped,       \* p->signal_mapped_size / 8
  slots,               \* the slots that are not UNSIGNALED_EVENT_SLOT
  signal_event_count,  \* p->signal_event_count
  page_set,            \* where a call of opu_event_page_set stands
  section,             \* the operation that holds event_mutex
  interrupts,          \* interrupts sent by the GPU and not yet processed
  signals,             \* signals of all kinds sent so far
  pc,                  \* per thread: where opu_wait_on_events stands
  task_state,          \* per thread: the scheduler's task state
  waiters,             \* per thread: event_waiters
  wait,                \* per thread: arguments [all, timeout] of the wait
  wait_result          \* per thread: *wait_result, or "EINTR" for a signal

idrVars    == <<event_idr, created, signal_event_count>>
pageVars   == <<signal_page, signal_mapped, page_set>>
gpuVars    == <<slots, interrupts>>
threadVars == <<pc, task_state, waiters, wait, wait_result>>
vars == <<alive, idrVars, ev, pageVars, gpuVars, section, signals, threadVars>>

NoSection == [op |-> "none", evs |-> {}]

FreshEvent(type, auto, id) ==
  [live |-> TRUE, type |-> type, auto_reset |-> auto, signaled |-> FALSE,
   event_id |-> id, data |-> 0]

Init ==   \* opu_event_init_process
  /\ alive = TRUE
  /\ event_idr = [id \in Ids |-> NULL]
  /\ ev = [o \in Objs |-> [FreshEvent(SIGNAL, FALSE, 0) EXCEPT !.live = FALSE]]
  /\ created = 0
  /\ signal_page = FALSE
  /\ signal_mapped = 0
  /\ slots = {}
  /\ signal_event_count = 0
  /\ page_set = "none"
  /\ section = NoSection
  /\ interrupts = [c \in Classes \cup {NO_ID} |-> 0]
  /\ signals = 0
  /\ pc = [t \in Threads |-> "idle"]
  /\ task_state = [t \in Threads |-> "RUNNING"]
  /\ waiters = [t \in Threads |-> <<>>]
  /\ wait = [t \in Threads |-> [all |-> FALSE, timeout |-> "none"]]
  /\ wait_result = [t \in Threads |-> "none"]

\* mutex_lock(&p->event_mutex) on a process that has not been released.
MutexFree == alive /\ section.op = "none"

-----------------------------------------------------------------------------
(* Creation.                                                               *)

gpu_signalable(type) == type \in {SIGNAL, DEBUG}

\* idr_alloc: the lowest free id of a range.
FreeIds(range) == {id \in range : event_idr[id] = NULL}
Lowest(ids) == CHOOSE id \in ids : \A j \in ids : id <= j

\* The event becomes visible under its id.
Publish(type, auto, id) ==
  /\ created' = created + 1
  /\ event_idr' = [event_idr EXCEPT ![id] = created + 1]
  /\ ev' = [ev EXCEPT ![created + 1] = FreshEvent(type, auto, id)]

\* Faulty variant: signal_event_count is not incremented.
create_signal_event_uncounted(type, auto) ==
  LET mapped == IF signal_page THEN signal_mapped ELSE OLD_USER_SLOTS
      free   == FreeIds(0..(mapped - 1))
  IN  /\ free # {}
      /\ signal_page' = TRUE
      /\ signal_mapped' = mapped
      /\ Publish(type, auto, Lowest(free))
      /\ slots' = IF signal_page THEN slots \ {Lowest(free)} ELSE {}
      /\ UNCHANGED signal_event_count

\* create_signal_event and allocate_event_notification_slot.  The first one
\* gets a kernel page when user mode has not set one.  The limit test comes
\* first and leaves everything alone; when idr_alloc fails (no memory, or the
\* mapped slots are taken) a new page stays.
create_signal_event(type, auto) ==
  LET mapped == IF signal_page THEN signal_mapped ELSE OLD_USER_SLOTS
      free   == FreeIds(0..(mapped - 1))
  IN  /\ ~(signal_mapped # 0 /\ signal_event_count = signal_mapped)
      /\ signal_page' = TRUE
      /\ signal_mapped' = mapped
      /\ \/ /\ slots' = IF signal_page THEN slots ELSE {}
            /\ UNCHANGED <<idrVars, ev>>
         \/ /\ free # {}
            /\ Publish(type, auto, Lowest(free))
            /\ slots' = IF signal_page THEN slots \ {Lowest(free)} ELSE {}
            /\ signal_event_count' = signal_event_count + 1

create_other_event(type, auto) ==
  /\ FreeIds(OtherIds) # {}
  /\ Publish(type, auto, Lowest(FreeIds(OtherIds)))
  /\ UNCHANGED <<signal_page, signal_mapped, slots, signal_event_count>>

\* A call that fails (no memory, no id, the limit) changes nothing that is not
\* in create_signal_event, so it is a stuttering step.
opu_event_create(type, auto) ==
  /\ MutexFree
  /\ created < MaxEvents
  /\ IF gpu_signalable(type) THEN create_signal_event(type, auto)
                             ELSE create_other_event(type, auto)
  /\ UNCHANGED <<alive, page_set, interrupts, section, signals, threadVars>>

\* opu_event_page_set, called by opu_ioctl_create_event: the test for a page
\* and the assignment are two steps, with no lock.
page_set_check ==
  /\ alive
  /\ page_set = "none"
  /\ ~signal_page
  /\ page_set' = "checked"
  /\ UNCHANGED <<alive, idrVars, ev, signal_page, signal_mapped, gpuVars,
                 section, signals, threadVars>>

page_set_commit(n) ==
  /\ page_set = "checked"
  /\ page_set' = "done"
  /\ signal_page' = TRUE
  /\ signal_mapped' = n
  /\ slots' = {}
  /\ UNCHANGED <<alive, idrVars, ev, interrupts, section, signals, threadVars>>

\* User mode maps n slots of the page (no lock).
opu_event_mmap(n) ==
  /\ alive
  /\ signal_page
  /\ signal_mapped' = n
  /\ UNCHANGED <<alive, idrVars, ev, signal_page, page_set, gpuVars, section,
                 signals, threadVars>>

-----------------------------------------------------------------------------
(* Wait queues.  The entry of waiter w is linked into the wait queue of    *)
(* event w.wq (NULL: of none).                                             *)

\* waitqueue_active(&ev->wq)
waitqueue_active(o) ==
  \E t \in Threads : \E i \in DOMAIN waiters[t] : waiters[t][i].wq = o

\* The waiters after those linked into a queue of evs are activated, and after
\* they have lost their event.
Activate(evs) ==
  [t \in Threads |-> [i \in DOMAIN waiters[t] |->
     IF waiters[t][i].wq \in evs
     THEN [waiters[t][i] EXCEPT !.activated = TRUE] ELSE waiters[t][i]]]

Disconnect(evs) ==
  [t \in Threads |-> [i \in DOMAIN waiters[t] |->
     IF waiters[t][i].wq \in evs
     THEN [waiters[t][i] EXCEPT !.event = NULL] ELSE waiters[t][i]]]

\* The waiters of thread t that are linked into a queue of evs.
ListedIn(evs, t) == {i \in DOMAIN waiters[t] : waiters[t][i].wq \in evs}

\* The exception data of the events as it is, and after n is written to those
\* of evs that are of type MEMORY.
OldData == [o \in Objs |-> ev[o].data]
NewData(evs, n) ==
  [o \in Objs |-> IF o \in evs /\ ev[o].type = MEMORY THEN n ELSE ev[o].data]

\* Faulty variant: the signal is left standing although it was handed over.
set_event_no_auto_reset(evs, data) ==
  /\ ev' = [o \in Objs |->
       IF o \in evs THEN [ev[o] EXCEPT !.signaled = TRUE, !.data = data[o]]
                    ELSE ev[o]]
  /\ waiters' = Activate(evs)

\* set_event on each of evs, up to the wake-up: an auto-reset event that has a
\* waiter hands its signal over, any other one stays signaled.  The caller may
\* have written exception data before.
set_event(evs, data) ==
  /\ ev' = [o \in Objs |->
       IF o \in evs
       THEN [ev[o] EXCEPT !.signaled = ~ev[o].auto_reset \/ ~waitqueue_active(o),
                          !.data = data[o]]
       ELSE ev[o]]
  /\ waiters' = Activate(evs)

\* destroy_event after wake_up_all.
kfree_event(o) ==
  /\ signal_event_count' = IF gpu_signalable(ev[o].type)
                           THEN signal_event_count - 1 ELSE signal_event_count
  /\ event_idr' = [event_idr EXCEPT ![ev[o].event_id] = NULL]
  /\ ev' = [ev EXCEPT ![o].live = FALSE]

\* The operation op now holds event_mutex and has queues of evs to wake; with
\* no event there is nothing left to do.
Enter(op, evs) ==
  section' = IF evs = {} THEN NoSection ELSE [op |-> op, evs |-> evs]

\* wake_up_all, and for a destroyed event the rest of destroy_event.  init_wait
\* installs autoremove_wake_function: an entry that wakes its thread out of
\* TASK_INTERRUPTIBLE is unlinked, one that finds the thread running is not.
\* If a thread has several entries it may be back in TASK_INTERRUPTIBLE when
\* the next one is tried, so any of them may be unlinked, but at least one is.
\* Only the IOMMU fault keeps the mutex: it has exception data to write.
wake_up_all ==
  /\ section.op \in {"set", "iommu", "destroy"}
  /\ task_state' = [t \in Threads |->
       IF ListedIn(section.evs, t) # {} THEN "RUNNING" ELSE task_state[t]]
  /\ \E unlink \in [Threads -> SUBSET (1..MaxListLen)] :
        /\ \A t \in Threads :
              /\ unlink[t] \subseteq ListedIn(section.evs, t)
              /\ task_state[t] = "RUNNING" => unlink[t] = {}
              /\ task_state[t] # "RUNNING" /\ ListedIn(section.evs, t) # {}
                   => unlink[t] # {}
        /\ waiters' = [t \in Threads |-> [i \in DOMAIN waiters[t] |->
              IF i \in unlink[t] THEN [waiters[t][i] EXCEPT !.wq = NULL]
                                 ELSE waiters[t][i]]]
  /\ section' = IF section.op = "iommu" THEN [section EXCEPT !.op = "data"]
                                        ELSE NoSection
  /\ IF section.op = "destroy"
     THEN kfree_event(CHOOSE o \in section.evs : TRUE)
     ELSE UNCHANGED <<signal_event_count, event_idr, ev>>
  /\ UNCHANGED <<alive, created, pageVars, gpuVars, signals, pc, wait,
                 wait_result>>

\* lookup_events_by_type_and_signal writes the exception data after set_event.
write_exception_data ==
  /\ section.op = "data"
  /\ ev' = [o \in Objs |-> IF o \in section.evs
                           THEN [ev[o] EXCEPT !.data = signals] ELSE ev[o]]
  /\ section' = NoSection
  /\ UNCHANGED <<alive, idrVars, pageVars, gpuVars, signals, threadVars>>

-----------------------------------------------------------------------------
(* Destruction.                                                            *)

\* Faulty variant: the linked waiters keep their pointer.
opu_event_destroy_keeping_pointers(id) ==
  /\ MutexFree
  /\ event_idr[id] # NULL
  /\ Enter("destroy", {event_idr[id]})
  /\ UNCHANGED <<alive, idrVars, ev, pageVars, gpuVars, signals, threadVars>>

\* destroy_event up to wake_up_all: the linked waiters lose their pointer.
opu_event_destroy(id) ==
  /\ MutexFree
  /\ event_idr[id] # NULL
  /\ waiters' = Disconnect({event_idr[id]})
  /\ Enter("destroy", {event_idr[id]})
  /\ UNCHANGED <<alive, idrVars, ev, pageVars, gpuVars, signals, pc,
                 task_state, wait, wait_result>>

\* opu_event_free_process, when the last reference to the process is gone:
\* destroy_events and shutdown_signal_page.  No thread is in an ioctl.
opu_event_free_process ==
  /\ MutexFree
  /\ page_set # "checked"
  /\ \A t \in Threads : pc[t] \in {"idle", "dead"}
  /\ alive' = FALSE
  /\ waiters' = Disconnect(Objs)
  /\ ev' = [o \in Objs |-> [ev[o] EXCEPT !.live = FALSE]]
  /\ event_idr' = [id \in Ids |-> NULL]
  /\ signal_event_count' = 0
  /\ signal_page' = FALSE
  /\ UNCHANGED <<created, signal_mapped, page_set, gpuVars, section, signals,
                 pc, task_state, wait, wait_result>>

-----------------------------------------------------------------------------
(* Signalling.                                                             *)

\* Bookkeeping of the bound.
Send == signals < MaxSignals /\ signals' = signals + 1

opu_set_event(id) ==
  /\ MutexFree
  /\ event_idr[id] # NULL
  /\ ev[event_idr[id]].type = SIGNAL     \* event_can_be_cpu_signaled
  /\ Send
  /\ set_event({event_idr[id]}, OldData)
  /\ Enter("set", {event_idr[id]})
  /\ UNCHANGED <<alive, idrVars, pageVars, gpuVars, pc, task_state, wait,
                 wait_result>>

opu_reset_event(id) ==
  /\ MutexFree
  /\ event_idr[id] # NULL
  /\ ev[event_idr[id]].type = SIGNAL
  /\ ev' = [ev EXCEPT ![event_idr[id]].signaled = FALSE]
  /\ UNCHANGED <<alive, idrVars, pageVars, gpuVars, section, signals,
                 threadVars>>

\* External: the GPU writes a slot and sends an interrupt that carries part of
\* the id, or none of it.
gpu_signal(id, cls) ==
  /\ signal_page
  /\ id < signal_mapped
  /\ cls \in {id % PARTIAL_CLASSES, NO_ID}
  /\ Send
  /\ slots' = slots \cup {id}
  /\ interrupts' = [interrupts EXCEPT ![cls] = @ + 1]
  /\ UNCHANGED <<alive, idrVars, ev, pageVars, section, threadVars>>

\* The ids whose slot is signaled and that belong to an event.
SignaledIds == {id \in slots : event_idr[id] # NULL}

\* lookup_signaled_event_by_partial_id returns the event of the lowest
\* signaled id of the class.
PartialMatches(cls) == {id \in SignaledIds : id % PARTIAL_CLASSES = cls}

\* Faulty variant: no exhaustive search when the partial id matches nothing.
InterruptTargetsByIdOnly(cls) ==
  IF PartialMatches(cls) # {} THEN {Lowest(PartialMatches(cls))} ELSE {}

\* One interrupt sets one event of its class; if there is none it sets every
\* signaled event, found through the IDR or the slots (the two searches visit
\* the same events).
InterruptTargets(cls) ==
  IF PartialMatches(cls) # {} THEN {Lowest(PartialMatches(cls))}
                              ELSE SignaledIds

opu_signal_event_interrupt(cls) ==
  /\ MutexFree
  /\ interrupts[cls] > 0
  /\ interrupts' = [interrupts EXCEPT ![cls] = @ - 1]
  /\ LET ids == IF signal_page THEN InterruptTargets(cls) ELSE {}
         evs == {event_idr[id] : id \in ids}
     IN  /\ slots' = slots \ ids      \* acknowledge_signal
         /\ set_event(evs, OldData)
         /\ Enter("set", evs)
  /\ UNCHANGED <<alive, idrVars, pageVars, signals, pc, task_state, wait,
                 wait_result>>

\* An interrupt that arrives for a released process finds no process.
interrupt_without_process(cls) ==
  /\ ~alive
  /\ interrupts[cls] > 0
  /\ interrupts' = [interrupts EXCEPT ![cls] = @ - 1]
  /\ UNCHANGED <<alive, idrVars, ev, pageVars, slots, section, signals,
                 threadVars>>

\* The non-signal events of the given types.
EventsOfType(types) ==
  {event_idr[id] : id \in {j \in OtherIds : /\ event_idr[j] # NULL
                                           /\ ev[event_idr[j]].type \in types}}

\* opu_signal_hw_exception_event, opu_signal_vm_fault_event,
\* opu_signal_reset_event and opu_signal_poison_consumed_event: exception data
\* is written before the event is set.  Where no event has the type nothing
\* but the signals sent to the process changes, and any thread may be
\* interrupted at any time (wait_interrupted).
SignalTypes(types) ==
  /\ MutexFree
  /\ EventsOfType(types) # {}
  /\ Send
  /\ set_event(EventsOfType(types), NewData(EventsOfType(types), signals + 1))
  /\ Enter("set", EventsOfType(types))
  /\ UNCHANGED <<alive, idrVars, pageVars, gpuVars, pc, task_state, wait,
                 wait_result>>

opu_signal_hw_exception_event == SignalTypes({HW_EXCEPTION})
opu_signal_vm_fault_event == SignalTypes({MEMORY})
opu_signal_reset_event(ecc) ==
  SignalTypes(IF ecc THEN {HW_EXCEPTION, MEMORY} ELSE {HW_EXCEPTION})
opu_signal_poison_consumed_event == SignalTypes({HW_EXCEPTION, MEMORY})

\* opu_signal_iommu_event signals through lookup_events_by_type_and_signal,
\* which writes the data afterwards.
opu_signal_iommu_event ==
  /\ MutexFree
  /\ EventsOfType({MEMORY}) # {}
  /\ Send
  /\ set_event(EventsOfType({MEMORY}), OldData)
  /\ Enter("iommu", EventsOfType({MEMORY}))
  /\ UNCHANGED <<alive, idrVars, pageVars, gpuVars, pc, task_state, wait,
                 wait_result>>

-----------------------------------------------------------------------------
(* opu_wait_on_events.                                                     *)

\* test_event_condition, in the order of its loop: the first waiter that is
\* destroyed or (for wait-any) activated decides.
test_event_condition(all, ws) ==
  LET decides(i) == ws[i].event = NULL \/ (~all /\ ws[i].activated)
      D == {i \in DOMAIN ws : decides(i)}
  IN  IF D # {}
      THEN IF ws[Lowest(D)].event = NULL THEN "FAIL" ELSE "COMPLETE"
      ELSE IF \A i \in DOMAIN ws : ws[i].activated THEN "COMPLETE"
                                                   ELSE "TIMEOUT"

\* init_event_waiter_get_status for the first n ids of the list, in order: an
\* auto-reset event gives its signal to the first waiter on it.
Activated(list, i) ==
  /\ ev[event_idr[list[i]]].signaled
  /\ ev[event_idr[list[i]]].auto_reset =>
       \A j \in 1..(i - 1) : list[j] # list[i]

GetStatus(list, n) ==
  ev' = [o \in Objs |->
    IF \E j \in 1..n : event_idr[list[j]] = o
    THEN [ev[o] EXCEPT !.signaled = ev[o].signaled /\ ~ev[o].auto_reset]
    ELSE ev[o]]

NewWaiters(list, n) ==
  [i \in 1..n |-> [event |-> event_idr[list[i]], wq |-> NULL,
                   activated |-> Activated(list, i),
                   target |-> event_idr[list[i]]]]

\* init_event_waiter_add_to_waitlist: waiters already activated are not linked.
Link(ws) == [i \in DOMAIN ws |->
  [ws[i] EXCEPT !.wq = IF ws[i].activated THEN NULL ELSE ws[i].event]]

\* The waiters alloc_event_waiters leaves uninitialised: their event field is
\* whatever the memory held.
Uninitialised(n) == [1..n -> {[event |-> p, wq |-> NULL, activated |-> FALSE,
                               target |-> NULL] : p \in {NULL, GARBAGE}}]

\* A thread calls opu_wait_on_events and every event of its list exists.  If
\* the condition holds already it returns at once (copying data and freeing
\* the waiters under the mutex); otherwise it links its waiters.
wait_begin(t, list, all, timeout) ==
  /\ MutexFree
  /\ pc[t] = "idle"
  /\ \A i \in DOMAIN list : event_idr[list[i]] # NULL
  /\ GetStatus(list, Len(list))
  /\ LET ws == NewWaiters(list, Len(list))
     IN  IF test_event_condition(all, ws) = "COMPLETE"
         THEN UNCHANGED threadVars
         ELSE /\ waiters' = [waiters EXCEPT ![t] = Link(ws)]
              /\ wait' = [wait EXCEPT ![t] = [all |-> all, timeout |-> timeout]]
              /\ pc' = [pc EXCEPT ![t] = "loop"]
              /\ UNCHANGED <<task_state, wait_result>>
  /\ UNCHANGED <<alive, idrVars, pageVars, gpuVars, section, signals>>

\* The n-th id of the list is not an event (or cannot be read from user
\* memory): the loop stops with the mutex held, the first n - 1 waiters
\* initialised and the others not.
wait_lookup_fails(t, list, n) ==
  /\ MutexFree
  /\ pc[t] = "idle"
  /\ \A i \in 1..(n - 1) : event_idr[list[i]] # NULL
  /\ event_idr[list[n]] = NULL
  /\ GetStatus(list, n - 1)
  /\ \E rest \in Uninitialised(Len(list) - n + 1) :
        waiters' = [waiters EXCEPT ![t] = NewWaiters(list, n - 1) \o rest]
  /\ pc' = [pc EXCEPT ![t] = "unwind"]
  /\ wait_result' = [wait_result EXCEPT ![t] = "FAIL"]
  /\ section' = [op |-> "unwind", evs |-> {}]
  /\ UNCHANGED <<alive, idrVars, pageVars, gpuVars, signals, task_state, wait>>

\* Faulty variant: the test comes first and the task state is set after it.
wait_set_state_after_test(t) ==
  /\ \/ /\ pc[t] = "loop"
        /\ LET r == test_event_condition(wait[t].all, waiters[t])
           IN  pc' = [pc EXCEPT ![t] =
                 IF r = "TIMEOUT" /\ wait[t].timeout # "expired"
                 THEN "sleep" ELSE "test"]
        /\ UNCHANGED task_state
     \/ /\ pc[t] = "sleep"
        /\ task_state' = [task_state EXCEPT ![t] = "INTERRUPTIBLE"]
        /\ UNCHANGED pc
  /\ UNCHANGED <<alive, idrVars, ev, pageVars, gpuVars, section, signals,
                 waiters, wait, wait_result>>

\* Head of the loop: set_current_state(TASK_INTERRUPTIBLE).
wait_set_state(t) ==
  /\ pc[t] = "loop"
  /\ task_state' = [task_state EXCEPT ![t] = "INTERRUPTIBLE"]
  /\ pc' = [pc EXCEPT ![t] = "test"]
  /\ UNCHANGED <<alive, idrVars, ev, pageVars, gpuVars, section, signals,
                 waiters, wait, wait_result>>

\* A signal is pending at the head of the loop, or interrupts the sleep.
wait_interrupted(t) ==
  /\ pc[t] \in {"loop", "sleep"}
  /\ wait_result' = [wait_result EXCEPT ![t] = "EINTR"]
  /\ pc' = [pc EXCEPT ![t] = "finish"]
  /\ task_state' = [task_state EXCEPT ![t] = "RUNNING"]
  /\ UNCHANGED <<alive, idrVars, ev, pageVars, gpuVars, section, signals,
                 waiters, wait>>

\* The test, without the mutex, and the two exits of the loop after it.
wait_test(t) ==
  /\ pc[t] = "test"
  /\ LET r == test_event_condition(wait[t].all, waiters[t])
     IN  IF r # "TIMEOUT" \/ wait[t].timeout = "expired"
         THEN /\ wait_result' = [wait_result EXCEPT ![t] = r]
              /\ pc' = [pc EXCEPT ![t] =
                          IF r = "COMPLETE" THEN "copy" ELSE "finish"]
              /\ task_state' = [task_state EXCEPT ![t] = "RUNNING"]
         ELSE /\ pc' = [pc EXCEPT ![t] = "sleep"]
              /\ UNCHANGED <<wait_result, task_state>>
  /\ UNCHANGED <<alive, idrVars, ev, pageVars, gpuVars, section, signals,
                 waiters, wait>>

\* schedule_timeout returns: the task was made runnable, before it went to
\* sleep or after, ...
wait_woken(t) ==
  /\ pc[t] = "sleep"
  /\ task_state[t] = "RUNNING"
  /\ pc' = [pc EXCEPT ![t] = "loop"]
  /\ UNCHANGED <<alive, idrVars, ev, pageVars, gpuVars, section, signals,
                 task_state, waiters, wait, wait_result>>

\* ... or the timeout has passed.
wait_expired(t) ==
  /\ pc[t] = "sleep"
  /\ wait[t].timeout = "finite"
  /\ wait' = [wait EXCEPT ![t].timeout = "expired"]
  /\ task_state' = [task_state EXCEPT ![t] = "RUNNING"]
  /\ pc' = [pc EXCEPT ![t] = "loop"]
  /\ UNCHANGED <<alive, idrVars, ev, pageVars, gpuVars, section, signals,
                 waiters, wait_result>>

\* copy_signaled_event_data, without the mutex.  It reads the type of every
\* activated waiter's event; through a null pointer the thread dies.
copy_signaled_event_data(t) ==
  /\ pc[t] = "copy"
  /\ pc' = [pc EXCEPT ![t] =
       IF \E i \in DOMAIN waiters[t] : /\ waiters[t][i].activated
                                       /\ waiters[t][i].event = NULL
       THEN "dead" ELSE "finish"]
  /\ UNCHANGED <<alive, idrVars, ev, pageVars, gpuVars, section, signals,
                 task_state, waiters, wait, wait_result>>

\* free_waiters under the mutex: waiters that still have an event are
\* unlinked; the array is freed and the call returns.
free_waiters(t) ==
  /\ \/ pc[t] = "finish" /\ section.op = "none"
     \/ pc[t] = "unwind"
  /\ waiters' = [waiters EXCEPT ![t] = <<>>]
  /\ pc' = [pc EXCEPT ![t] = "idle"]
  /\ wait' = [wait EXCEPT ![t] = [all |-> FALSE, timeout |-> "none"]]
  /\ wait_result' = [wait_result EXCEPT ![t] = "none"]
  /\ section' = NoSection
  /\ UNCHANGED <<alive, idrVars, ev, pageVars, gpuVars, signals, task_state>>

-----------------------------------------------------------------------------

Create == \E type \in EventTypes, auto \in AutoModes : opu_event_create(type, auto)
Page   == \E n \in MapSizes : \/ page_set_check
                              \/ page_set_commit(n)
                              \/ opu_event_mmap(n)
User   == \E id \in Ids : \/ opu_event_destroy(id)
                          \/ opu_set_event(id)
                          \/ opu_reset_event(id)
Gpu    == \E id \in GpuIds, cls \in Classes \cup {NO_ID} : gpu_signal(id, cls)
Interrupt == \E cls \in Classes \cup {NO_ID} :
               opu_signal_event_interrupt(cls) \/ interrupt_without_process(cls)
Fault  == \/ opu_signal_hw_exception_event
          \/ opu_signal_vm_fault_event
          \/ \E ecc \in BOOLEAN : opu_signal_reset_event(ecc)
          \/ opu_signal_poison_consumed_event
          \/ opu_signal_iommu_event
Section == wake_up_all \/ write_exception_data

WaitCall(t) ==
  \E list \in WaitLists :
    \/ \E all \in BOOLEAN, timeout \in Timeouts :
          wait_begin(t, list, all, timeout)
    \/ \E n \in DOMAIN list : wait_lookup_fails(t, list, n)

\* The steps a waiting thread takes by itself.
WaitStep(t) == \/ wait_set_state(t)
               \/ wait_test(t)
               \/ wait_woken(t)
               \/ wait_expired(t)
               \/ copy_signaled_event_data(t)

Next ==
  \/ Create
  \/ Page
  \/ User
  \/ Gpu
  \/ Interrupt
  \/ Fault
  \/ Section
  \/ opu_event_free_process
  \/ \E t \in Threads : \/ WaitCall(t)
                        \/ wait_interrupted(t)
                        \/ WaitStep(t)
                        \/ free_waiters(t)

\* The kernel schedules the thread that holds the mutex and the waiting
\* threads, and its timers expire.  event_mutex does not starve a thread that
\* waits for it (the kernel's mutex hands over), hence SF where it is taken.
\* No user-mode call, signal, GPU write or fault is obliged to happen.
Fairness ==
  /\ WF_vars(Section)
  /\ \A t \in Threads : WF_vars(WaitStep(t)) /\ SF_vars(free_waiters(t))
  /\ \A cls \in Classes \cup {NO_ID} : SF_vars(opu_signal_event_interrupt(cls))

Spec == Init /\ [][Next]_vars /\ Fairness

-----------------------------------------------------------------------------
(* Properties.                                                             *)

Waiter == [event : Objs \cup {NULL, GARBAGE}, wq : Objs \cup {NULL},
           activated : BOOLEAN, target : Objs \cup {NULL}]

Event == [live : BOOLEAN, type : {SIGNAL, DEBUG, HW_EXCEPTION, MEMORY},
          auto_reset : BOOLEAN, signaled : BOOLEAN, event_id : Ids, data : Nat]

WaitStates == {"idle", "loop", "test", "sleep", "copy", "finish", "unwind",
               "dead"}

\* The types of the variables.
TypeOK ==
  /\ alive \in BOOLEAN
  /\ event_idr \in [Ids -> Objs \cup {NULL}]
  /\ ev \in [Objs -> Event]
  /\ created \in 0..MaxEvents
  /\ signal_page \in BOOLEAN
  /\ signal_mapped \in 0..OPU_SIGNAL_EVENT_LIMIT
  /\ slots \subseteq SignalIds
  /\ signal_event_count \in Nat
  /\ page_set \in {"none", "checked", "done"}
  /\ section \in [op : {"none", "set", "iommu", "data", "destroy", "unwind"},
                  evs : SUBSET Objs]
  /\ interrupts \in [Classes \cup {NO_ID} -> Nat]
  /\ signals \in 0..MaxSignals
  /\ pc \in [Threads -> WaitStates]
  /\ task_state \in [Threads -> {"RUNNING", "INTERRUPTIBLE"}]
  /\ waiters \in [Threads -> Seq(Waiter)]
  /\ wait \in [Threads -> [all : BOOLEAN,
                timeout : {"none", "expired", "finite", "infinite"}]]
  /\ wait_result \in [Threads -> {"none", "COMPLETE", "TIMEOUT", "FAIL",
                                  "EINTR"}]

\* The IDR and the heap agree: an id leads to a live event that has this id and
\* a type that belongs in its range, every live event can be looked up, and
\* signal_event_count, on which the limit test and the choice of the search
\* rely, counts the live signal and debug events.
IdrConsistent ==
  /\ TypeOK
  /\ \A id \in Ids : event_idr[id] # NULL =>
        /\ ev[event_idr[id]].live
        /\ ev[event_idr[id]].event_id = id
        /\ gpu_signalable(ev[event_idr[id]].type) <=> id \in SignalIds
  /\ \A o \in Objs : ev[o].live => event_idr[ev[o].event_id] = o
  /\ signal_event_count =
        Cardinality({o \in Objs : ev[o].live /\ gpu_signalable(ev[o].type)})

\* An event that is being destroyed.
Dying(o) == section.op = "destroy" /\ o \in section.evs

\* What wake_up_all and destroy_event rely on: an entry linked into a wait
\* queue is the entry of a waiter that waits for that event and the event is
\* alive, unless the event is being or has been destroyed, and then the waiter
\* has lost its pointer.
LinkedWaiters ==
  \A t \in Threads : \A i \in DOMAIN waiters[t] :
    LET w == waiters[t][i]
    IN  w.wq # NULL => IF ev[w.wq].live /\ ~Dying(w.wq) THEN w.event = w.wq
                                                        ELSE w.event = NULL

\* The comment in set_event (the wait queues change only under the mutex): a
\* signal and a waiter never miss each other.  While an event is signaled no
\* linked waiter is left unactivated, and a signaled auto-reset event has no
\* linked waiter at all.
SignaledHasNoSleeper ==
  \A o \in Objs : ev[o].live /\ ev[o].signaled =>
    \A t \in Threads : \A i \in DOMAIN waiters[t] :
      waiters[t][i].wq = o => waiters[t][i].activated /\ ~ev[o].auto_reset

\* The comment in opu_wait_on_events about set_current_state: a thread never
\* sleeps on a condition that already holds (or with a waiter that was linked when
\* its event was destroyed), unless the operation that made it so is about to wake it.
NoSleepingBeauty ==
  \A t \in Threads :
    /\ pc[t] = "sleep"
    /\ task_state[t] = "INTERRUPTIBLE"
    /\ test_event_condition(wait[t].all, waiters[t]) # "TIMEOUT"
    => /\ section.op \in {"set", "iommu", "destroy"}
       /\ ListedIn(section.evs, t) # {}

\* The comment at lookup_signaled_event_by_partial_id: "as long as the number
\* of interrupts is correct, all signaled events will be seen": in each class
\* there are at least as many interrupts to come as signaled events, although
\* an interrupt may set another event of its class than the one it was for.
SlotsCovered ==
  alive => \A cls \in Classes :
    Cardinality(PartialMatches(cls)) <= interrupts[cls] + interrupts[NO_ID]

\* What decides a wait ends it, and a timeout does in any case: once enough of its waiters
\* are activated, or one that was linked has lost its event, the thread comes out of the
\* loop; with a timeout it does so whatever happens, also when it was woken before, with
\* time left, for an event that decides nothing.  (A wake-up unlinks the waiter, so a wait
\* is woken at most once per event of its list.)  A waiter that was not linked when its
\* event was destroyed is not told (DestroyedEventFailsWait) and decides nothing by it.
\* The call then returns, or the thread dies in copy_signaled_event_data, at an activated waiter
\* whose event was destroyed after the test.
Decided(t) ==
  /\ pc[t] \in {"loop", "test", "sleep"}
  /\ test_event_condition(wait[t].all, waiters[t]) # "TIMEOUT"
WaitReturns ==
  \A t \in Threads :
    (Decided(t) \/ wait[t].timeout \in {"finite", "expired"}) ~> pc[t] \in {"idle", "dead"}

\* A slot the GPU wrote for an event is acknowledged (or the event goes away).
SignalIsSeen ==
  \A id \in SignalIds : (id \in SignaledIds) ~> (id \notin SignaledIds)

\* What the comment at test_event_condition says: it returns FAIL if any of the
\* events has been destroyed.
DestroyedEventFailsWait ==
  [][\A t \in Threads :
       /\ wait_test(t)
       /\ \E i \in DOMAIN waiters[t] : ~ev[waiters[t][i].target].live
       => wait_result'[t] = "FAIL"]_vars

\* What the comment at copy_signaled_event_data says: a completed wait hands
\* the data of a memory exception to user mode.
ExceptionDataIsCopied ==
  \A t \in Threads : pc[t] = "copy" =>
    \A i \in DOMAIN waiters[t] :
      LET w == waiters[t][i]
      IN  /\ w.activated
          /\ w.event \in Objs
          /\ ev[w.event].live
          /\ ev[w.event].type = MEMORY
          => ev[w.event].data # 0
=============================================================================
