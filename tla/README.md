# Verification of the codrive kernel driver and device library

codrive is a stack for an accelerator ("OPU"): a Linux kernel driver
(`src/src/cmdio/linux`), a user-mode device library on top of its ioctls
(`src/src/device`), a runtime and loader (`src/src/drive`), command stream
queues (`src/src/driver`), emulated back ends (`src/src/cmdio/emu`, `gem5`) and
vendored code (`src/src/hip`, `src/3rdparty`). Most of its own concurrency is in
the driver, and the verification is about it: the interrupt path, events, the
queues under the hardware scheduler, the life of a process, the eviction of its
queues and shared virtual memory.

Paths below are relative to `src/src/cmdio/linux` unless they start with `src/`.

## 1. Modules

| module | what it models | checked by | proved in |
|---|---|---|---|
| `OpuInterrupt` | `opu_interrupt.c`, `kgd2opu_interrupt` | `MCOpuInterrupt` | `OpuInterruptProofs` |
| `OpuEvents` | `opu_events.c` | `MCOpuEvents` | `OpuEventsProofs` |
| `OpuQueues` | `opu_process_queue_manager.c`, the cpsch part of `opu_device_queue_manager.c` | `MCOpuQueues` | `OpuQueuesProofs` |
| `OpuProcess` | life of a process: `opu_process.c`, `opu_chardev.c`, `opu_pasid.c` | `MCOpuProcess` | `OpuProcessProofs` |
| `OpuEviction` | who stops and restarts the queues of a process: `opu_process.c`, suspend, resume and reset of `opu_device.c` | `MCOpuEviction` | `OpuEvictionProofs` |
| `SvmGate` | abstract: what eviction and restoration of shared virtual memory promise | by refinement | — |
| `SvmEvict` | MMU notifiers, restore worker and retry faults of `opu_svm.c`; implements `SvmGate` | `MCSvmEvict` | `SvmEvictProofs` |
| `SvmBo` | buffer objects of ranges in VRAM: `opu_svm.c`, `opu_migrate.c` | `MCSvmBo` | `SvmBoProofs` |
| `SvmRanges` | the tree of ranges and the deferred work of `opu_svm.c` | `MCSvmRanges` | `SvmRangesProofs` |

The modules fit together along the calls of the code. `SvmEvict` stops the
queues through `kgd2opu_quiesce_mm`, which is the party `mm` of `OpuEviction`;
`OpuEviction` counts evictions on each device, which are the steps
`evict_process_queues_cpsch` and `restore_process_queues_cpsch` of `OpuQueues`;
the exit of a process in `OpuProcess` cancels the works of `OpuEviction` and
`SvmEvict` and begins the release in `OpuQueues`; `OpuInterrupt` delivers the
entries that become `opu_signal_event_interrupt` in `OpuEvents`. Each module
takes from its neighbours only what those promise (a nested count, a work that
runs or is cancelled).

The `MC` modules hold only model values, small lists and symmetry sets; the
`.cfg` files give the constants their values. Definitions are named after the C
functions they translate; where a function is split because another thread can
run in the middle, the parts are named after what they do (`create_begin`,
`create_reserve`, ...). Definitions introduced as "Faulty variant" are what a
plausible bug would make of the definition after them. No specification uses
them; each can take the place of its neighbour to see that a property notices.
A module's type invariant is checked as part of its central invariant
(`IdrConsistent`, `RefsExact`, `BoRefsExact`, `OneRangePerPage`) where no run
lists it by name.

## 2. Inventory

### 2.1 Kernel driver

| component | state | operations | hard behaviour | what makes it correct |
|---|---|---|---|---|
| interrupt path (`opu_interrupt.c`, `opu_device.c`) | `ih_fifo`, `interrupts_active`, the work item | `kgd2opu_interrupt`, `interrupt_wq`, `opu_interrupt_init`, `_exit` | top half on any CPU, bottom half without its lock, removal of the device under way | in order, once, nothing stranded, no use of the freed fifo |
| events (`opu_events.c`) | `event_idr`, the event objects and their wait queues, the signal page | create, destroy, set, reset, wait, page set and mmap, interrupts, five kinds of faults | waiters test without the mutex, partial ids in interrupts, destruction under a waiter | no lost wake-up, no lost signal, no dangling waiter |
| queues (`opu_device_queue_manager.c`, `opu_process_queue_manager.c`, `opu_queue.c`) | per device: counters, the list of processes, SDMA bitmaps, `active_runlist`, hang and reset flags; per process: slots, the two queue lists, doorbells, eviction count; per queue: its properties | create, update, destroy, GWS, debug queue (DIQ), evict, restore, terminate, stop, start, pre-reset | `dqm_lock` is dropped in the middle of operations, workers evict and restore, firmware hangs | exact counters, exclusive resources, the firmware runs what the lists say |
| process lifecycle (`opu_process.c`) | table of processes, kref, delayed eviction and restore work, eviction fence | create, look up, notifier release, evict, restore, suspend and resume all | two workers and suspend on one nested count; several devices, one of which fails | evictions and restores balance; nothing runs after release |
| device lifecycle (`opu_device.c`) | `opu_locked`, `init_complete` | init, suspend, resume, pre and post reset | errors in the middle, nested locks | after the last resume processes can be created again |
| GTT sub-allocator (`opu_device.c`) | a bitmap | allocate, free | boundary of the bitmap | chunks disjoint, first fit |
| kernel queue (`opu_kernel_queue.c`) | ring, read and write pointers | acquire, submit, roll back | wrap-around against a concurrent reader | packets contiguous, never overwritten |
| doorbells, PASIDs (`opu_doorbell.c`, `opu_pasid.c`) | bitmaps | allocate, free, mmap | bounds | exclusive |
| shared virtual memory (`opu_svm.c`, `opu_migrate.c`) | range tree with child lists, `evicted_ranges`, deferred list, buffer objects with fences | set_attr, munmap, CPU and GPU faults, notifier invalidation, restore work, deferred work, moves, eviction of VRAM | notifiers and callbacks that must not take locks against workers; failing moves | queues are stopped while mappings are stale and start again; one range for a page; VRAM is freed when unused and not before |
| GPU virtual memory (`opu_vm_mgr.c`, `opu_bo.c`, `opu_mo_mgr.c`, `opu_fence.c`) | page tables, buffer lists, fences | map, unmap, validate | fence order | the eviction fence is signalled after the queues stopped |
| interrupt sources (`opu_irq.c`) | reference counts of sources | get, put, update | concurrent enabling | enabled exactly while used |
| IOMMU binding (`opu_iommu.c`) | bound state of a process | bind, suspend, resume, unbind | device suspend against bind | bound again after resume |
| others | character device, SMI events, debug manager, topology, ASIC glue, trap handler | | mostly argument copying, tables and registers | |

How they interact: an ioctl (`opu_chardev.c`) holds `p->mutex` and calls the
process queue manager (pqm), which calls the device queue manager (dqm); the dqm
takes `dqm_lock`. The eviction worker, the restore worker and MMU notifiers call
the dqm without `p->mutex`. Device suspend and reset call `stop` and `start` of
the dqm. `interrupt_wq` hands ring entries to the interrupt class, which calls
`opu_signal_event_interrupt`; fault handlers call the other signal functions.
The release of the `mm` destroys the queues and then the events.

### 2.2 User mode

Device library: `MemMgr`, `MemObj`, `Vma` (address areas and the table of
objects), `QueueMgr`, `EventMgr`, `Doorbells` (wrappers around ioctls with state
of their own: the event page, the doorbell mapping), topology. Runtime: agents,
regions, signals, loader. Command stream queues: asynchronous commands with
dependencies; the staging buffers of the unpinned copy engine.
`src/src/common/simple_heap.h` is a best-fit heap. None is modelled; section 11 says
which are worth it.

`PROJECT.json` lists every component with its status and every hazard at its
line.

## 3. OpuInterrupt

State: `ih_fifo` as a sequence of entries, `interrupts_active`, `init_complete`,
the owner of `interrupt_lock`, the program counter of `kgd2opu_interrupt` on
each CPU and of the one worker, the PENDING bit of the work item, where device
init and exit stand, and three histories (raised, accepted, handled).

Steps: the top half enters (`kgd2opu_interrupt`, the test of `init_complete`),
takes the lock and either puts the entry into the fifo (`isr_accept`) or drops
it (`isr_drop`: not active, not wanted, fifo full), then queues the work and
unlocks (`opu_queue_work`). The workqueue is external: `process_one_work` clears
PENDING and starts the handler, a work item never runs twice at once.
`interrupt_wq` drains the fifo entry by entry without the lock. Exit clears
`interrupts_active` under the lock, flushes, and frees.

The run `interrupt` (two CPUs, a fifo of two entries, four interrupts) checks
`InOrderDelivery`, `NoStrandedEntry`, `FifoLifetime` and, under fairness,
`AcceptedIsHandled`.
Two CPUs are enough to have one spin while the other holds the lock, two entries
to have the fifo full, four interrupts to have it fill again behind the worker's
back; for other sizes there are the proofs.

Fairness: weak fairness for the worker, the exit thread and the CPU that holds
the lock (the kernel runs them); strong fairness for a CPU that spins on
`interrupt_lock`, because the kernel's spinlocks are queued. No interrupt and no
removal is obliged to happen.

## 4. OpuEvents

One process with its events. Almost everything holds `p->event_mutex`; what does
not, and where a waiter can see an operation half done, decides how the
functions are split: `section` is the operation that holds the mutex with the
events it has still to wake, and `wake_up_all`, `write_exception_data` and
`kfree_event` are steps of their own. `opu_wait_on_events` is split where it
lets go of the mutex: registration of all waiters (`wait_begin`), setting the
task state, the test without a lock, sleeping, copying data, and removal of the
waiters. `opu_event_page_set` does not take the mutex and is two steps.

Event objects are never reused, so that a pointer to a freed event is visible
(the identity of memory, not its address). Two more values stand for a null
pointer and for an uninitialised one. GPU writes to signal slots and interrupts
with a partial id (`PARTIAL_CLASSES` classes, or `NO_ID`) are separate: an
interrupt of a class may find another event of the class signaled. Exception
data is the number of the fault that wrote it. `OPU_SIGNAL_EVENT_LIMIT` and the
old limit of 256 slots are scaled down.

| run | instance | shows |
|---|---|---|
| `events` | two threads that wait for a signal event and an exception event, for one or for both, both reset modes, all fault paths | `IdrConsistent`, `LinkedWaiters`, `SignaledHasNoSleeper` (signal and waiter do not miss each other), `NoSleepingBeauty` (no thread sleeps on a condition that holds) |
| `events_live` | one thread, one and two signal events, with and without a timeout, two slots in one class, page set and mmap | `SlotsCovered` (the comment "as long as the number of interrupts is correct, all signaled events will be seen"), `SignalIsSeen`, `WaitReturns` |
| `events_destroyed` | violation | `DestroyedEventFailsWait` |

Bounds: `MaxEvents` events ever created (two: each of them can be destroyed
under a waiter, and in `events_live` an id is used again), `MaxSignals` signals
of any kind. A successful wake-up unlinks the waiter, so a wait is woken at most
once for each event of its list; two signals give a wait on two events all its
wake-ups, the one that decides nothing and leaves it waiting with time left
included. Two threads and two events give every race between two waiters, a
signaller and a destroyer; the threads are interchangeable and symmetry is used
there, in a run without liveness.

`WaitReturns` is about waits that the waiters have decided, and about all waits
with a timeout. A waiter that was linked when its event was destroyed has lost
its pointer and decides a wait (it fails); one that was not linked at that moment
was not told, which is `DestroyedEventFailsWait` (section 10), and decides
nothing by it. A thread that dies in `copy_signaled_event_data`, at an activated
waiter whose event was destroyed after the test, counts as having come out.

Fairness: the holder of the mutex and waiting threads are scheduled and timers
expire (weak); taking `event_mutex` is strongly fair, since the kernel's mutex
hands the lock over to a thread that has waited. Nobody is obliged to set an
event, to write a slot or to raise a fault.

## 5. OpuQueues

One device and its processes under the hardware scheduler. `p->mutex` makes the
operations of a process sequential, so each process has one operation `op` under
way; `dqm_lock` is held in parts of it. The parts are the steps:

* `create_begin` (slot and `register_process`), `create_refused` and
  `create_undo` (all the early returns and what they give back), `create_reserve`
  (limit, SDMA queue, doorbell), `create_no_mqd`, `create_queue_cpsch` (the
  eviction marking, list, counters and run list), the same for the debug queue;
* `destroy_queue_cpsch` under the lock and `destroy_finish` behind it, which
  handles `-ETIME` and the other errors as pqm does;
* `pqm_update_queue` (changes the properties without the lock) and
  `update_queue`; `pqm_set_gws`;
* `evict_process_queues_cpsch`, `restore_process_queues_cpsch`, with a nested
  count;
* `release_begin`, `process_termination_cpsch`, `terminate_free_mqd` (drops the
  lock in each turn of the loop), `pqm_uninit`, `new_process`;
* `pre_reset`, `stop_cpsch`, `start_cpsch`.

The lists are sets of slots: their order does not matter to anything modelled.
Size, address and percentage of a ring are one flag, whether it makes the queue
active. `hw` is the set of queues on the run list the firmware executes;
`unmap_queues_cpsch`, `map_queues_cpsch` and `execute_queues_cpsch` are functions
from the state of the dqm to the sets of possible results: done, not sent, timed
out (the scheduler hangs), a queue that did not respond. The packet manager and
the MQD managers are not part of the source and are such choices. Counters are
unsigned and wrap at `UINT`.

| run | instance | shows |
|---|---|---|
| `queues` | two processes, three slots each, compute and SDMA, one of them debugged, a reserved doorbell, limit of two queues on the device, twice nested evictions | `CountersExact`, `EvictedIsInactive`, `RegisteredWhileNeeded`, `RunlistComplete`, `LimitOvershoot` |
| `queues_faults` | two processes with one slot, all three types; every failure of allocation and firmware | what must survive failures, while user mode gives up on the queues of a process of which a destroy failed: `CountersExact`, `SdmaExclusive` |
| `queues_reset` | one process with three slots, a reserved doorbell, failing allocations and registrations, GWS, no over-subscription, hangs, suspend and reset | `DoorbellsExclusive`, `RunlistFaithful`, `OperationsEnd` |

Bounds: slots of its own and the reserved doorbell let a process have a queue, or
two, while it creates another one, so that two queues could share a doorbell or be
given the reserved one; two processes let them interfere, `MaxEvicted = 2` nests
evictions, `UINT = 16` is larger than any count that is reached, so that a wrap
shows as a huge number (in `queues_reset`, where `gws_queue_count` drifts, it is 3
to keep the space small; no property there reads a counter). No run of this module
uses symmetry: the debugged process is not like the other one.
`RunlistComplete` holds where nothing fails; `RunlistFaithful` is its weaker form
for the run with failures. After a failed destroy user mode stops using queues
unless `CarriesOn`. pqm keeps the node of a queue whose destroy failed, and then
user mode can destroy or update the queue again although it has been taken apart
(`UserNodes`): `destroy_queue_cpsch` repeats `list_del`, the counters and the
release of the doorbell and SDMA queue. `LateEvict` lets evictions reach a process that is being
released, which the code permits. Both are FALSE in the runs; section 10 says what
happens otherwise.

`LimitOvershoot` states what the code guarantees: the limit of queues on the
device is tested outside the lock and can be exceeded by one for each further
process. The over-subscription test reads counters without the lock as well; no
bound is claimed for it.

Fairness: weak fairness on `Proceed(p)`, the steps of the thread that is inside
an operation. `dqm_lock` is held only within a step, so every step it needs is
enabled all the time. Calls, evictions, stops and starts are not obliged.

## 6. OpuProcess

State: for each process ever created where it is (in the table, taken out of it,
without its `mm`, freed), its PASID, its reference count, its open files, whether
its notifier is registered, and whether a second user of it is (`extra`); the
pending works, pairs of a process and a kind (eviction, restore, restore of shared
virtual memory); who holds `opu_processes_mutex`; for each thread where it is in
`opu_open`, for each `mm` how far the notifier release has got; the contexts that
look processes up; the look-ups a grace period waits for, that of an opener
(`waits`) and that of a release (`readers`). Process objects are never reused.

Steps: any thread of an `mm` may open, also several at once. `open_find` and
`open_create` (table and PASID) take the mutex; `open_register` (the notifier takes
its reference), `open_register_fails`, `open_cwsr_fails` (the process is taken out of
the table again and the mutex released) and `open_put`, which comes after the grace
period and outside the mutex; `open_check` (the early returns of `opu_open`);
`close`. Between `open_cwsr_fails` and `open_put` another thread of the same `mm`
can create a process, and `mmu_notifier_get` then finds the notifier of the old one:
`open_register_bug` is the `BUG_ON` of `opu_process.c:1332`. The thread dies there
with the mutex held for good, and its process stays.

A look-up is two steps, `lookup_find` inside the SRCU section and `lookup_get`; then
the context may queue a work (`user_queue`, `resume_queue`), whether or not the
process is still in the table, and puts. The eviction work queues the restore work
(`evict_run`), notifiers queue the one of shared virtual memory (`svm_queue`), and
`restore_run` is the end of either; one that queues itself again stays pending. The release is `release_unhash`, the grace
period, the three cancellations in the order of the code (`release_cancel_eviction`,
`_restore`, `_svm`), so that a work that still runs can queue one that has been
cancelled already, and `release_put`; `wq_release` frees.

The run `process` (one address space, two threads that open, two contexts, two
processes, two PASIDs, up to two files) checks `RefsExact` (the count is the number
of holders along every error path), `FoundIsAlive` (a process found in the table is
not freed before it is referenced), `WorkHasProcess` (no work that was queued while
its process was open and in the table is pending when it is freed) and, under
fairness, `ProcessFreed`. Works that are queued later are in the ledger `late`:
`kgd2opu_schedule_evict_and_restore_process` (`opu_device.c:588`) does not ask
whether the process is still in the table, and for those works the property is false
(section 10). Two processes let one of them fail to open, or still be released,
while the other is opened. Other sizes, several address spaces among them, are left to the proof.

Fairness: a context inside a look-up, the steps of a release that has begun and the
work queue's release work go on (weak). Nobody is obliged to open, close or exit.
`EarlyLookups` is FALSE, so that no look-up meets a failing registration: section 10.

## 7. OpuEviction

Four parties stop and restart the queues of one process on all of its devices:
the eviction worker, the restore worker, shared virtual memory (`mm`) and power
management (`pm`). Each has a program counter and the device at which its loop
is; the loops of `opu_process_evict_queues` (with its roll-back) and
`opu_process_restore_queues` are one step for each device, so that all four
interleave. A device is its nested count `evicted`; `OpuQueues` shows what that
count does to the queues. The delayed works are pending, running or cancelled, as
the kernel's work queue has it; `flush_delayed_work` of the restore work inside
the eviction worker is a state (`flush`). `p->ef` is a number, and
`kgd2opu_schedule_evict_and_restore_process` compares and sets
`last_eviction_seqno` in one or, for a delayed caller, two steps. A resume that
fails (`opu_resume_fails`) leaves its hold of `opu_locked` behind (`lost`).

Three variables are not in the code: `pmheld`, `forgotten` and `stuck` count the
evictions that power management holds and those that nobody will undo, at the
places where the code decides so. `EvictionsAccounted` says that on each device
the count is what the parties, the pending restore and this ledger add up to: an
interleaving in which a restore undoes another party's eviction breaks it.
`FenceUnlessLate`: the fence the eviction worker is to signal exists and is the
one it was scheduled for. `FenceSignals`: a fence that was asked to signal does.

The run `process_eviction` has two devices (so that a loop can be half done), two
suspensions or resets (so that they nest), three fences (two rounds of eviction
and restoration) and an eviction worker that may fail to stop the queues
(`FailingParties`; that shared virtual memory or power management fails to is in
section 10). Works that are pending when the driver suspends are cancelled there.

Fairness: works that are queued run, loops go on, a suspending thread goes on
(weak). That memory can be restored in the end is strong fairness of
`restore_worker_bos`: the worker tries again for ever, and the code relies on
memory becoming available.

## 8. Shared virtual memory

`SvmEvict` has two counters without a lock between them, `prange->invalid` and
`svms->evicted_ranges`, MMU notifiers in the steps of `svm_range_evict`, the
restore worker with its walk over the ranges, its two compare-and-exchanges and
its way out through rescheduling, and retry faults for a process with xnack. A
GPU mapping is none, fresh or stale; `cpu_update` is the kernel changing the page
table after the callback, external. `StopsExact`: the queues are stopped once for
the evictions counted. `OneRestorer`: exactly one party is bound to restore them.
`ImplementsGate`: the module implements `SvmGate`, in which the gate between GPU
and memory is open, closing or closed, pages change only behind a gate that is not
open, and it opens only when no mapping is stale. The mapping: the gate is open
when `evicted_ranges` is zero, closing while the first evictor has not stopped
the queues yet; the set of stale ranges is that of `gpu`; it is being lifted while
the worker is about to resume. `QueuesResume`: evictions that are counted are
restored. `svm_range_evict` ignores that `kgd2opu_quiesce_mm` failed
(`opu_svm.c:1658`); `QuiesceFails` lets it fail, with the roll-back, and is FALSE in
the run. When it is TRUE, TLC finds `OneRestorer`, the types, `ImplementsGate` and
`QueuesResume` unharmed, and `StopsExact` refuted (section 10). Two ranges and two
notifiers, three invalidations between two
restorations; both xnack modes; the process may exit. Fairness: callbacks and the
worker go on (weak); validation succeeds in the end if tried again and again
(strong, an assumption about memory).

`SvmBo` has ranges, their objects and the references between them: of a range, of
every page in VRAM, of the eviction worker. A move to a GPU is split where it
waits and where it can fail (`validate_svm_bo`, `vram_node_new`, the copy), the
eviction worker where it takes the `migrate_mutex` of a range. `leaked` counts
references that the code gives up, at the places where it does. `set_attr` on a part
of a range is `handle_overlap`: `svm_range_clone` takes a reference and a place on
the object's list for the clone, which is split, and the old range is put; a clone
of a range without an object has no `ttm_res`. When a clone or a split fails
(`handle_overlap_fails`), the clones are freed and stay on the list of the object.
Nothing more is modelled after a `fault`: a wrong `put`, a NULL pointer, or
something stale (an object used after it was freed, `svm_range_validate_svm_bo`
included, a freed range left on a list, or a range put on two lists).

The run `svm_bo` (a
range of two pages that can be split, two GPUs, two objects; copies and
allocations fail) checks the invariants `BoRefsExact` and `NoBoLeft` and the
action property `FenceMeansListedOut`: at the moment the fence of an object
signals, and whenever pages are moved into it afterwards, they belong to a range
that was taken off its list and still uses it. It excepts `relisted` ranges: one the
eviction missed can be split or cloned later, and `svm_range_split_nodes` and
`svm_range_clone` put the new parts on the list of the object, which nobody walks
any more. To show itself that takes three ranges of three pages, more than the run
has; the proof in section 9 covers every size.

`SvmRanges` has the tree of ranges with two extents each (that of the tree and
the range's own), child lists, the list of the deferred work, and GPU and CPU
mappings. `set_attr` changes the tree in one step (it holds the mmap write lock and
flushes the deferred work first). Its `RangeAdd` states what the
walk of `svm_range_handle_overlap` over the ranges, in the order of their
addresses, comes to: what each range found is replaced by (`Overlapped`) and what
lies between them (`Gaps`). `munmap` and `cpu_fault` are
callbacks that cut a range and leave the rest to the worker; `deferred_peek` reads
the first range before the worker takes the lock, `deferred_handle` applies the
operation and those of the children; `restore_pages` makes a range where there is
none, on a GPU fault that may come on any page at any time.

Mapping a range on the GPU, after `set_attr` and after a GPU fault, is two steps, as
in `svm_range_validate_and_map`: `get_pages` looks the pages up without the lock that
notifiers take, `map_pages` maps them if no notifier of the range was called in
between and the range has no children (`opu_svm.c:1469`). `munmap` and `invalidate` come
between the two. Of the two tests the first alone would do for
ranges that are not torn, since every split by `munmap` is preceded by
`mmu_interval_set_seq`; `map_pages_unchecked` shows that the two together are needed.
`munmap` comes there as well although the holder has the mmap read lock, as the
comment "range split by unmap in parallel" supposes.

Splits may fail in two places. In `cpu_fault_fails` the second split of
`svm_range_split_by_granularity` fails and `svm_migrate_to_ram` leaves without
`svm_range_add_list_work` (`opu_migrate.c:803`): a range with a child is `torn`, that
is, not on the list, and `set_attr`, which clones the range and frees it, loses the
child. A split that fails in a notifier ends in a NULL dereference
(`opu_svm.c:2039`), and so does a failing `svm_range_new` for what lies left of an
overlap in `svm_range_add`; there is nothing to model after them. Empty ranges that a
clone cut at its own end leaves behind are left out.

The run `svm_ranges` (three pages, blocks of one, so that a fault cuts twice) checks
`OneRangePerPage`, `UnmappedIsGone`, `DeferredIsDone` and, until a range is torn,
`GpuMapsLiving` and `AttrsKept`; section 10 has what happens then. Three pages let a
range be cut in the middle and a child be cut again; `want`, the attributes last set
for a page, is not in the code. Fairness: the worker and whoever maps a range go on
(weak), and the worker gets the mmap lock in the end although faults take it again
and again (strong).

## 9. Proofs

The proofs are for every value of the constants that the named assumptions allow,
and TLC evaluates the assumptions in every run. `OpuInterruptAssumption`,
`OpuEventsAssumption`, `OpuQueuesAssumption`, `ProcBoundsAssumption`,
`BoundsAssumption`, `SizesAssumption`: sizes are natural numbers, positive where
something of the kind exists at all; the answers of the firmware are among the
four; the ids of events that are not signal events are other ids.
`OpuQueuesAssumption`, `ProcSetsAssumption`: processes, address spaces and
contexts are finitely many. `RangesAssumption`, `DevicesAssumption`: a process
has a range and a device. `GpusAssumption`: a GPU is not RAM. The others say that
a switch is a truth value.

Some theorems have a hypothesis besides. Each excludes a behaviour that section
10 shows to break the property, or one in which the code gives up, and is quoted
with the theorem.

`OpuInterruptProofs`: `IInv` is inductive. To the three properties it adds who
holds the lock (exactly the CPU between putting the entry into the fifo and
queueing the work: that CPU is what stands for the entry in `NoStrandedEntry`)
and what is quiescent in which state of the device (without it, a top half
could enqueue after the flush). From it: `InterruptTypeOK`, `InterruptInOrder`,
`InterruptNotStranded`, `InterruptFifoLifetime`.

`OpuQueuesProofs`: types and `EvictedIsInactive` for any number of processes, slots,
SDMA queues, any behaviour of the firmware and of user mode; `SdmaExclusive` under
`~CarriesOn`, that is, as long as user mode does not destroy a queue again whose
destroy failed. The invariant is a part for each process, `ProcInv`, and one over all of them:

* `OpSlot` and `SlotsTaken`: what an operation that released `dqm_lock` relies
  on when it takes it again. Its slot is still its own and on no list, and
  queues on lists have slots, so that a new slot is not one of them. Without
  this a creation could overwrite a queue that another operation counts.
* `HasSdmaId`: a queue that holds an SDMA queue knows a valid id, so that giving
  it back returns it to the bitmap.
* `Marked`: `EvictedIsInactive` of one process.
* `SdmaOwners`: `SdmaExclusive` spelled out with one holder for each taken id
  and no holder for a free one. Quantified this way, an action that touches one
  process disturbs only the instances about it; the lemmas `SameOwners`,
  `AddOwner`, `DropOwner` and `DropAll` say what happens when a process takes or
  gives back nothing, one SDMA queue or all of them.

There is one lemma for each action; `NextIInv` collects them; `Invariance`
follows, and `TypeCorrect`, `EvictionIsComplete` and `SdmaQueuesAreExclusive`
from it. `IInv` was checked by TLC on the instances of `queues`, `queues_faults`
and `queues_reset` before it was proved, and so were the invariants that follow.

Six further invariants stand on this one, each in its own part of the module. What
an action does to the state of its process, the counters and the list of
processes is stated once (`CreateBeginEffect`, `EvictEffect`, `DeviceEffect`, ...) and used
by all of them.

* `BellsInv`: the bitmap of doorbells is the reserved ones and one for each CP
  queue, those under construction and those half destroyed included.
  `DoorbellsAreExclusive` supposes `~CarriesOn`: a second destroy of a queue gives
  its doorbell back again.
* `RegsInv`: a process is in the list of the dqm at most once, and not when it is
  being terminated. With it `FirmwareRunsTheList` (`RunlistFaithful`). Hypotheses: an unmap
  request is obeyed or times out (one that cannot be sent leaves the old run
  list, with queues that are gone), and user mode gives up after a failed destroy
  (one that carries on is registered twice). Late evictions are allowed.
* `CountInv`: each counter is the size of a set of pairs of process and slot.
  `Moves` says how a counter and the slots of one process go together, so the sum
  over processes needs no induction. `CountersAreExact` supposes that `unsigned int`
  can count the slots there are (2^32 against the PASIDs times 1024 slots), that
  no eviction reaches a process whose release has begun, which would discount its
  queues twice, and `~CarriesOn`: destroying or updating a queue that has been taken
  apart moves the counters again.
* `NeedsInv`: `RegisteredExactly`. Hypotheses: allocations succeed, run lists are
  sent and a preemption ends at worst with a queue that does not respond.
  `register_process` may fail unnoticed, and a destroy that fails returns before
  the process is unregistered.
* `RunInv`: `active_runlist` is set exactly while something is active. It needs
  exact counters (`map_queues_cpsch` builds no list when the count is zero) and
  exact registration, hence `RunlistIsComplete` has the hypotheses of both and an
  obedient firmware: it says that nothing goes wrong on its own, by an
  interleaving of operations with evictions, suspends and resets.
* `LimitInv`: with the processes that passed the test of the limit and are not yet
  counted, the limit is exceeded by less than the number of processes. From it
  `LimitIsNearlyKept`, under the hypotheses of the counters.

`OpuEventsProofs`: `IdrConsistent`, `LinkedWaiters`, `SignaledHasNoSleeper` and
`NoSleepingBeauty`, for any number of threads, events and slots and any lists of
events waited on. They are inductive together, with the types and with what the
sections rely on: the event being destroyed is still there, the thread that unwinds a failed
look-up has the mutex, and no object is in use before it is created.
`signal_event_count` is the size of the set of signal events. What wakes a waiter
(`Activate`), links it and frees it are lemmas about one thread's waiters
(`ActivateFacts` and those after it). `SlotInv` adds that no slot is signaled
before there is a page; `InterruptsSuffice` (`SlotsCovered`) needs a case for each
way an interrupt with a partial id takes several slots at once.

`OpuProcessProofs`: `RefsExact`, `FoundIsAlive` and `WorkHasProcess`, for any
number of address spaces, threads that open, contexts and processes, under
`~EarlyLookups`: section 10 shows what a failing `mmu_notifier_get` does without it.
They cover several openers of one `mm` at once and the `BUG_ON`: a thread that dies
there counts as a holder for good. `WorkHasProcess` is about works that were queued
in time, not about those in `late`. The reference count is
a sum of four terms (`Terms`: the notifier or the creator, files, openers that
check, look-ups that hold); an action changes one of them by one. The rest of
the invariant says who keeps a process in the table (`HashedIsKept`), and what a
process that has left it still waits for: its notifier (`NotifierKept`), the
look-ups of its grace period (`FoundIsAwaited`) and the cancellation of its works
(`WorkIsAwaited`, which knows the order of the three cancellations and which work
queues which). Two theorems go beyond the run: `FreedIsUnused`, nothing
refers to a freed process but works that were queued late, and `PasidsAreExclusive`, no two processes that are
not freed share a PASID.

`SvmEvictProofs`: `SvmEvict` implements `SvmGate`, and `StopsExact`,
`OneRestorer` and the types, for any number of ranges and notifiers, with late
notifiers as well; only `StopsExact` supposes that stopping the queues does not fail
(`~QuiesceFails`, by an invariant of its own, `StopsInv`). The invariant:

* `Exclusive`: at most one of the first evictor, the pending work and the busy
  worker exists, and one does while evictions are counted and the worker has not
  been cancelled. It is `OneRestorer` without counting, and the reason why a
  second evictor may return at once.
* `Counted`: a range that a notifier works on, or whose mapping is stale, is
  invalid, and its eviction is counted. So pages change behind a closed gate.
* `Walk`: what the worker relies on. If a range it has passed is touched again,
  `evicted_ranges` has moved on since it was read; if the range it works on is,
  `prange->invalid` has. This is why the two compare-and-exchanges suffice, and
  where dropping either would break the proof.
* `Modes`: with xnack nothing is counted, and a mapping is gone before its pages
  change.

`GateEvict`, `GateRestore` and `GateOther` show that every step is one of the
gate's or leaves it alone; `GateIsImplemented` is the refinement.

`OpuEvictionProofs`: `EvictionsAccounted` and `RestoreMatchesEviction` for any
number of devices, under `Reliable` (only the eviction worker's stopping of the
queues may fail, and the process was not opened while the driver was suspended;
section 10 says why). The invariant adds where each party can be (`Roles`), that
`opu_locked` is the number of devices suspended or being reset and of resumes that
failed (`Locks`, by the theorems on cardinality) and that power management holds the process exactly
while it is not zero (`Held`). `EvictionFindsFence` (`FenceUnlessLate`) is on top
of it: a worker that is due has the fence it was scheduled for (`WorkerHasFence`),
no other fence is unsignaled (`OneFence`), a restore is due only while there is
none (`RestoreMakesFence`), and nothing is due while power management has
cancelled the works (`SuspendedHasNoWork`). The last is where resumes that fail
matter: `opu_locked` does not go back to zero then.

`SvmBoProofs`: `BoRefsExact`, `NoBoLeft` and `FenceMeansListedOut`, for any number
of ranges, pages, GPUs and objects, with copies and allocations that fail. The
references to an object are two finite sets, the ranges that use it and the
pages in it. `RefsChange`: when one range changes, their size changes by the
difference of what the old and the new record of that range hold. `Leaving`:
releasing an object changes only ranges without a reference to it. The invariant
says what the thread relies on under the `migrate_mutex` of its range (`Moving`),
that an object lives exactly as long as it has references (`Lives`), that none is
missing, and none too much until a range puts one it does not have (`Counted`),
that pages are in the object of their range unless moving them out failed
(`PagesHeld`), that an evicted object was marked (`Marked`), and that a range in RAM which
uses an object whose fence has signaled is not on its list unless it was put back
(`Unlisted`, the reason why such a range cannot be moved in and still be listed).
Where a fault ends the behaviour only what the properties say of such a state is kept.

`SvmRangesProofs`: `OneRangePerPage`, `UnmappedIsGone`, `GpuMapsLiving` and
`AttrsKept`, for any address space, block size and attributes. The last two hold until a
split that fails tears a range (`~torn` is part of what they state); the invariant of
the tree itself holds for torn ranges too. `SpaceAssumption` asks for a first page that is not zero, so that the
page before it is a number too, and `KindsAssumption` names the two kinds of
attributes. The argument is about intervals: `Divides` says that parts divide an
interval, `Shape` that a range and its children divide the interval the range has
in the tree. An operation on a part replaces it by parts that divide the same
pages; `Splits` adds that those not to be removed keep the attributes and lose
exactly the pages unmapped. `UnmapKid`, `UnmapOwn` and `TrimKid` show
this for each way a part is cut, the cut that goes only half its way included
(`Trimmed`), `ReworkRange` composes it for a range with all
its children (`Cuts`), and `ReworkTree` and `ReworkDeferred` for the tree and the list. Where the tree
itself changes, under the mmap write lock, `ReplaceTree` asks that the new ranges
are apart from each other and from those that stay: `HandledAre` (a range for each
living part), `RestoreNew` (as far as there is no range) and `Replaces` with
`GapsAre` (what `svm_range_add` inserts fills the interval; the nearest ends are
minima of sets of numbers, by well-founded induction). The rest of the invariant
is `Deferred`, that a range for which work waits is on the list, each once, and
any other has, unless it is torn, no children and its own extent; `Contents`, that a living part has
CPU pages with the attributes last set; and `Kept`, that what is mapped on the GPU
or has an attribute set is in a living part; and `Mapping`, what the holder of the
lock relies on between look-up and mapping. TLC checked the invariant on the
three pages of the run, with both kinds of attributes, before it was proved.

Only model-checked: liveness (`AcceptedIsHandled`, `WaitReturns`, `SignalIsSeen`,
`OperationsEnd`, `ProcessFreed`, `FenceSignals`, `QueuesResume`,
`DeferredIsDone`), which needs fairness and ENABLED.

## 10. Where the code disagrees with what it says

One run is expected to find a violation:

* `events_destroyed`: "Returns OPU_IOC_WAIT_RESULT_FAIL if any of the events have
  been destroyed" (`opu_events.c:556`). A waiter that was activated before it was
  linked, or was unlinked by its wake-up, keeps its pointer; the wait goes on or
  completes on the freed event, and `free_waiters` uses its wait queue.

The modules also state these properties, which TLC refutes when they are put into
the configuration named, with the constants given:

| property | configuration | what the code says | what happens |
|---|---|---|---|
| `ExceptionDataIsCopied` | `MCOpuEvents.cfg` | "Copy event specific data, if defined" (`opu_events.c:583`) | the IOMMU fault path signals the event before it writes the data (`:826`) |
| `UninitClean` | `MCOpuQueues.cfg`, `LateEvict = TRUE` | `WARN_ON(dqm->active_queue_count > 0 ...)` (`opu_device_queue_manager.c:967`) | the termination subtracts the active queues, leaves `is_active` and drops the lock with queues still listed; an eviction in this window subtracts them again |
| `PqmNodesAreListed`, `CountersExact`, `SdmaExclusive`, `LimitOvershoot` | `MCOpuQueuesFaults.cfg`, `CarriesOn = TRUE` | `WARN_ON(!old)` (`opu_device_queue_manager.c:189`) | after `-EIO` pqm keeps the node of a queue that has been taken apart; destroying it again repeats all of it |
| `FoundIsAlive` | `MCOpuProcess.cfg`, `EarlyLookups = TRUE` | look-ups are safe under SRCU | when `mmu_notifier_get` fails the process is taken out of the table and freed with no grace period (`opu_process.c:1339`) |
| `WorkAlwaysHasProcess` | `MCOpuProcess.cfg` | "Process termination destroys this worker thread. So during the lifetime of this thread, opu_process p will be valid" (`opu_process.c:1729`, `:1766`) | a context that looked the process up before it was taken out of the table queues the eviction work after `opu_process_notifier_release` has cancelled it, or before a registration fails and nothing is cancelled |
| `NoBug` | `MCOpuProcess.cfg` | `BUG_ON(mn != &process->mmu_notifier)` (`opu_process.c:1332`) | a creation fails after its notifier was registered and releases `opu_processes_mutex`; before the notifier is put, another thread of the `mm` opens and gets the old one; it dies with the mutex held |
| `UnlockedWhenUp` | `MCOpuEviction.cfg` | "for runtime resume, skip unlocking opu", so any other resume unlocks (`opu_device.c:448`) | when `opu_resume` fails the hold of `opu_locked` is kept for good (`:407`, `:445`), and no process can be opened any more |
| `NestedSafely` | `MCOpuEviction.cfg` | "multiple evictions from different sources can be nested safely" (`opu_process.c:1632`) | suspending cancels a restore that is due (`:1810`), a reset does not schedule one, and a device on which an eviction fails stays counted (`:1662`) |
| `EvictionHasFence` | `MCOpuEviction.cfg`, `LateModes = {TRUE}` | `WARN_ONCE(p->last_eviction_seqno != p->ef->seqno ...)` (`opu_process.c:1733`) | an eviction asked for across a suspension is scheduled for a fence that is gone; the worker reads through a NULL `p->ef` |
| `RestoreMatchesEviction` | `MCOpuEviction.cfg`, `FailingParties = {"mm"}` or `BornLocked = TRUE` | the warning in `restore_process_queues_cpsch` | `kgd2opu_resume_mm` restores what stopping failed to evict; resume restores a process that was opened while suspended |
| `StopsExact` | `MCSvmEvict.cfg`, `QuiesceFails = TRUE` | the queues are stopped when `evicted_ranges` becomes one (`opu_svm.c:1657`) | the result of `kgd2opu_quiesce_mm` is ignored; the worker resumes queues that were not stopped |
| `StoppedOnReturn` | `MCSvmEvict.cfg` | "Stop all queues of the process to ensure GPU doesn't access the memory, then return to let CPU evict the buffer" (`opu_svm.c:1612`) | the second eviction returns while the first is still stopping the queues; `ImplementsGate` shows that this is the whole window |
| `WorkerHasProcess` | `MCSvmEvict.cfg`, `LateNotifiers = TRUE` | "during the lifetime of this thread, opu_process and mm will be valid" (`opu_svm.c:1537`) | an invalidation after the cancellation schedules the work again |
| `FenceMeansEmpty` | `MCSvmBo.cfg` | "This is the last reference to svm_bo" (`opu_svm.c:2882`) | a range that was taken off the list for a move that failed is missed by the eviction |
| `NoDoublePut` | `MCSvmBo.cfg` | | `svm_range_vram_node_free` puts an object whose reference a failed allocation has given up |
| `NoMutualWait` | `MCSvmBo.cfg` | | a move waits for the fence with the `migrate_mutex` held that the eviction worker needs (`opu_svm.c:403`) |
| `AttrsKeptAlways`, `GpuMapsLivingAlways` | `MCSvmRanges.cfg` | the attributes of a range survive its splits | the second split of a CPU fault fails (`opu_migrate.c:803`): pages 2..4, fault on 3, the range is [3,4] with the child [2,2] and not on the list; `set_attr` on page 2 clones [3,4] and frees the range with its child |
| `AttrsApplied` | `MCSvmRanges.cfg`, `AttrKinds = {"cmp", "acc"}` | the ioctl sets the attributes | `svm_range_is_same_attrs` does not compare access and preferred location, so a range that is the same in the others is skipped (`opu_svm.c:730`) |

Seen while modelling, part of the models or outside them:

* `copy_signaled_event_data` reads `waiter->event` after the test without a lock
  and can find NULL (`opu_events.c:598`).
* `alloc_event_waiters` does not set the event pointer of a waiter; when
  the lookup of an id fails, `free_waiters` runs over waiters that were never set
  up (`opu_events.c:636`).
* `gws_queue_count` is not adjusted by evictions and restores and drifts
  (`opu_device_queue_manager.c:693`), so nothing is claimed about it.
* after `-EIO` the process can be unregistered while a node is left, and is
  registered again by the next creation (`opu_process_queue_manager.c:366`).
* "Only active queues are evicted" (`opu_priv.h:296`): `evict_process_queues_cpsch`
  marks the inactive ones as well ("Mark all queues as evicted"), and
  `EvictedIsInactive` relies on it.
* the comment of `svm_range_restore_pages` that pending deferred work is flushed
  (`opu_svm.c:2445`) has no code; `restore_pages` meets ranges with work pending.
* the eviction worker of an object returns without its reference when the process
  has no `mm` (`opu_svm.c:2851`), counted in `leaked`; it clears `svm_bo` of a
  range whose move failed (`:2869`), and a later split follows the NULL pointer
  (`fault = "null"`).
* when a clone cannot be split, `svm_range_handle_overlap` frees it without taking it off
  the list of its object (`opu_svm.c:1830`, `fault = "stale"`), and freeing a range whose
  `svm_bo` was cleared leaves it there too; `svm_range_vram_node_new` puts a range on the list of a second
  object while it is on that of the first, when its eviction cleared `svm_bo` only
  (`:2869`); `svm_range_clone` and `svm_range_validate_svm_bo` can use an object that
  has been freed.
* `DoorbellsExclusive` supposes `~CarriesOn` in its theorem because the second destroy
  frees the doorbell again; TLC did not find a trace of it in the run's bounds.
* a part split off a range that an eviction missed goes on the list of an object
  whose fence has signaled; moving it back to that GPU waits until the list is
  empty (`opu_svm.c:428`), that is, as long as anybody else keeps the object.
* outside the models: the bit past the kernel's doorbells is set before it is
  tested (`opu_doorbell.c:156`); `EventMgr` keeps its event page when the first
  ioctl fails (`src/src/device/EventMgr.cpp:34`); `destroy_queue_nocpsch_locked`
  returns before `list_del` when the scheduler is stopped
  (`opu_device_queue_manager.c:455`).

## 11. Plan

Done: the nine modules above with twelve runs; proofs of every safety property of
the runs.

Next, in this order:

1. The nocpsch operations of the dqm, with the termination loop that does not
   remove its queue when the scheduler is stopped.
2. Composition of `OpuInterrupt` and `OpuEvents`: every slot the GPU wrote, with
   dropped ring entries, wakes its waiter or is found by the next interrupt.
3. `KernelQueue` (ring with a concurrent reader) and `GttSa` (bitmap allocator
   against first fit).
4. User mode: `Vma` against a set of free addresses, `EventMgr` with `OpuEvents`,
   the copy engine, `simple_heap`.

## 12. Not modelled

The models cover a small part of the repository's lines, and most of the rest is
not a matter for a model checker: about a fifth of the lines is the HIP layer
(vendored headers with thousands of inline functions and generated profiling
strings), and more are register and packet layouts (`pps.h`, `csq_accelerator.h`),
the ELF loader and its headers, CRAT and topology tables, shader assembly with
the binary generated from it, and the msgpack library. The command stream queues
and the runtime are partly commented out, and what is left wraps calls.

Not modelled within the driver: registers and ASIC glue, page tables and DMA
mappings, SMI events, debug manager, IOMMU binding (compiled only with
`CONFIG_AMD_IOMMU_V2`), reference counts of interrupt sources. Within the modelled
components: CU masks, wave state, cache policy, debugfs, contents of packets and
MQDs, user addresses, log messages; prefetch and the choice of the best location
of a range (any choice is allowed); migration between two GPUs goes through RAM as
in the code, a page at a time is not told apart from a failed whole.
