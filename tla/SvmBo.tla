-------------------------------- MODULE SvmBo --------------------------------
(***************************************************************************)
(* VRAM of shared virtual memory (opu_svm.c, opu_migrate.c).  A range that *)
(* is moved to a GPU gets a buffer object (svm_range_bo), which ranges     *)
(* made by splitting share.  The object is kept alive by references of the *)
(* ranges that use it, of every page that is in it and of its eviction     *)
(* worker, which moves the ranges out again when the memory manager asks   *)
(* the object's fence to signal.                                           *)
(*                                                                         *)
(* One thread at a time moves, splits and frees ranges (svms->lock); the   *)
(* workers of the objects run beside it, kept apart by the migrate_mutex   *)
(* of each range and, from freeing, by the mmap lock.  Releasing an object *)
(* is one step: svm_range_bo_release takes its ranges off its list before  *)
(* anyone may use their pointers again.                                    *)
(***************************************************************************)
EXTENDS Integers, FiniteSets
CONSTANTS
  NRanges,     \* bound: ranges; the first one exists, the others are split off
  Gpus,        \* locations in VRAM, positive numbers
  NPages,      \* pages of the first range
  MaxBos,      \* bound: buffer objects made
  MoveMayFail  \* moving pages may fail
ASSUME SizesAssumption == NRanges \in Nat \ {0} /\ NPages \in Nat \ {0} /\ MaxBos \in Nat
ASSUME GpusAssumption == Gpus \subseteq Nat \ {0} /\ MoveMayFail \in BOOLEAN
Ranges == 1 .. NRanges
Bos    == 1 .. MaxBos
RAM    == 0
NULL   == 0
VARIABLES
  rng,   \* a range: exists, size, svm_bo, ttm_res (it has a reference), actual_loc,
         \* list (the object on whose range_list it is), pages (in VRAM), home (their object)
  bo,    \* an object: state, kref, gpu, evicting, signaled (its fence), pending (its work)
  wk,    \* the worker of an object: pc and range
  th,    \* the thread that moves a range: pc, range, gpu and obj whose fence it waits for
  mutex, \* who holds the migrate_mutex of a range: NULL, "thread" or an object's worker
  mm,    \* p->mm is not NULL
  leaked,           \* ledger: references of an object that nobody will put
  relisted,         \* ledger: ranges put on the list of an object whose worker has walked it
  fault             \* "null": the kernel followed a NULL pointer; "put": a range put an
                    \* object of which it has no reference; "stale": it used a freed object,
                    \* left a freed range on a list or put one on two lists.  Nothing is
                    \* modelled after one.
bvars == <<rng, bo, wk, th, mutex, mm, leaked, relisted, fault>>

NoRange == [exists |-> FALSE, size |-> 0, svm_bo |-> NULL, ttm_res |-> FALSE,
            actual_loc |-> RAM, list |-> NULL, pages |-> 0, home |-> NULL]
NoBo == [state |-> "none", kref |-> 0, gpu |-> 0, evicting |-> FALSE, signaled |-> FALSE,
         pending |-> FALSE]
IdleThread == [pc |-> "idle", range |-> 1, gpu |-> 0, obj |-> NULL]

BoInit ==
  /\ rng = [r \in Ranges |-> IF r = 1 THEN [NoRange EXCEPT !.exists = TRUE, !.size = NPages]
                             ELSE NoRange]
  /\ bo = [b \in Bos |-> NoBo]
  /\ wk = [b \in Bos |-> [pc |-> "idle", range |-> 1]]
  /\ th = IdleThread
  /\ mutex = [r \in Ranges |-> "free"]
  /\ mm = TRUE
  /\ fault = "none"
  /\ leaked = [b \in Bos |-> 0]
  /\ relisted = {}
-----------------------------------------------------------------------------
\* Faulty variant: the pages keep their references.
Puts_without_pages(r) == [b \in Bos |-> IF rng[r].svm_bo = b THEN 1 ELSE 0]

\* The references a range gives up when it leaves VRAM: one for each of its pages, to the
\* object they are in (svm_migrate_page_free), and its own, to the object it points to,
\* whether it has one or not (svm_range_vram_node_free).
Puts(r) == [b \in Bos |-> (IF rng[r].home = b THEN rng[r].pages ELSE 0)
                          + (IF rng[r].svm_bo = b THEN 1 ELSE 0)]

\* svm_range_bo_release when no reference is left: the fence signals, pending eviction work
\* is cancelled, and the ranges on the list forget the object.
Released(puts) == {b \in Bos : bo[b].state = "live" /\ puts[b] > 0 /\ bo[b].kref <= puts[b]}
Put(puts) ==
  [b \in Bos |-> IF b \in Released(puts)
                 THEN [bo[b] EXCEPT !.state = "freed", !.kref = 0, !.signaled = TRUE,
                                    !.pending = FALSE]
                 ELSE [bo[b] EXCEPT !.kref = @ - puts[b]]]
Forget(rs, gone) ==
  [r \in Ranges |-> IF rs[r].list \in gone
                    THEN [rs[r] EXCEPT !.list = NULL, !.svm_bo = NULL] ELSE rs[r]]

\* A range becomes the given record and gives up its references.
LeaveVram(r, rest) ==
  /\ bo' = Put(Puts(r))
  /\ rng' = Forget([rng EXCEPT ![r] = rest], Released(Puts(r)))
  /\ fault' = IF rng[r].svm_bo # NULL /\ ~rng[r].ttm_res THEN "put" ELSE fault

\* svm_migrate_vram_to_ram of a range: all its pages leave, or it fails and nothing changes.
InRam(r) == [rng[r] EXCEPT !.ttm_res = FALSE, !.actual_loc = RAM, !.pages = 0, !.home = NULL]
MoveOut(r) == LeaveVram(r, InRam(r))

\* A range points to a freed object, or is on the list of one it does not point to: the
\* code reads freed memory, or leaves the range on the list (svm_range_unlink).
Dangling(r) ==
  IF rng[r].svm_bo = NULL THEN rng[r].list # NULL ELSE bo[rng[r].svm_bo].state # "live"

MmapReaders == \E b \in Bos : wk[b].pc # "idle"
-----------------------------------------------------------------------------
\* A range is moved to RAM by a CPU fault or a prefetch; moving may fail.
to_ram(r) ==
  /\ th.pc = "idle" /\ rng[r].exists /\ rng[r].actual_loc # RAM /\ mutex[r] = "free" /\ mm
  /\ MoveOut(r)
  /\ UNCHANGED <<wk, th, mutex, mm, leaked, relisted>>

\* svm_migrate_to_vram: a range that is on another GPU is first moved to RAM.
to_vram_begin(r, g) ==
  /\ th.pc = "idle" /\ rng[r].exists /\ rng[r].actual_loc # g /\ mutex[r] = "free" /\ mm
  /\ th' = [pc |-> "validate", range |-> r, gpu |-> g, obj |-> NULL]
  /\ mutex' = [mutex EXCEPT ![r] = "thread"]
  /\ IF rng[r].actual_loc # RAM THEN MoveOut(r) ELSE UNCHANGED <<rng, bo, fault>>
  /\ UNCHANGED <<wk, mm, leaked, relisted>>

\* svm_range_validate_svm_bo: an object of this GPU that is not being evicted is used
\* again; one that is, is waited for.  The count of an object that was freed is read too.
validate_svm_bo ==
  /\ th.pc = "validate"
  /\ LET r == th.range
         b == rng[r].svm_bo
         reuse == b # NULL /\ ~rng[r].ttm_res /\ bo[b].kref > 0
     IN IF b # NULL /\ Dangling(r) THEN fault' = "stale" /\ UNCHANGED <<rng, bo, th>> ELSE
        CASE b # NULL /\ rng[r].ttm_res ->
               th' = [th EXCEPT !.pc = "copy"] /\ UNCHANGED <<rng, bo, fault>>
          [] reuse /\ bo[b].gpu # th.gpu ->
               /\ rng' = [rng EXCEPT ![r].list = NULL]
               /\ th' = [th EXCEPT !.pc = "alloc"] /\ UNCHANGED <<bo, fault>>
          [] reuse /\ bo[b].gpu = th.gpu /\ bo[b].evicting ->
               th' = [th EXCEPT !.pc = "wait", !.obj = b] /\ UNCHANGED <<rng, bo, fault>>
          [] reuse /\ bo[b].gpu = th.gpu /\ ~bo[b].evicting ->
               /\ rng' = [rng EXCEPT ![r].ttm_res = TRUE]
               /\ bo' = [bo EXCEPT ![b].kref = @ + 1]
               /\ th' = [th EXCEPT !.pc = "copy"] /\ UNCHANGED fault
          [] OTHER -> th' = [th EXCEPT !.pc = "alloc"] /\ UNCHANGED <<rng, bo, fault>>
  /\ UNCHANGED <<wk, mutex, mm, leaked, relisted>>

\* No page of the range can be moved: svm_migrate_vma_to_vram copies nothing, makes no
\* object and succeeds.
to_vram_nothing ==
  /\ th.pc = "validate"
  /\ rng' = [rng EXCEPT ![th.range].actual_loc = th.gpu]
  /\ mutex' = [mutex EXCEPT ![th.range] = "free"]
  /\ th' = IdleThread
  /\ UNCHANGED <<bo, wk, mm, leaked, relisted, fault>>

\* dma_fence_wait on the fence of the object that is being evicted, then until the range
\* is off its list.
validate_wait ==
  /\ th.pc = "wait"
  /\ bo[th.obj].signaled
  /\ rng[th.range].list = NULL
  /\ th' = [th EXCEPT !.pc = "alloc"]
  /\ UNCHANGED <<rng, bo, wk, mutex, mm, leaked, relisted, fault>>

\* svm_range_vram_node_new: a new object, with one reference for the range, which goes on
\* its list, whether it is on another or not ...
vram_node_new ==
  /\ th.pc = "alloc"
  /\ \E b \in Bos :
       /\ bo[b].state = "none" /\ \A c \in Bos : c < b => bo[c].state # "none"
       /\ IF rng[th.range].list # NULL
          THEN fault' = "stale" /\ UNCHANGED <<rng, bo, th>>
          ELSE /\ bo' = [bo EXCEPT ![b] = [NoBo EXCEPT !.state = "live", !.kref = 1,
                                                       !.gpu = th.gpu]]
               /\ rng' = [rng EXCEPT ![th.range] = [@ EXCEPT !.svm_bo = b, !.ttm_res = TRUE,
                                                             !.list = b]]
               /\ th' = [th EXCEPT !.pc = "copy"] /\ UNCHANGED fault
  /\ UNCHANGED <<wk, mutex, mm, leaked, relisted>>

\* ... or none: only the later failures clear ttm_res.
vram_node_fails(early) ==
  /\ th.pc = "alloc"
  /\ rng' = [rng EXCEPT ![th.range].ttm_res = early /\ @]
  /\ mutex' = [mutex EXCEPT ![th.range] = "free"]
  /\ th' = IdleThread
  /\ UNCHANGED <<bo, wk, mm, leaked, relisted, fault>>

\* svm_migrate_ram_to_vram goes on: the pages are copied, a reference for each, or are not.
copy_to_vram(ok) ==
  /\ th.pc = "copy" /\ (ok \/ MoveMayFail)
  /\ LET r == th.range IN
       IF ok
       THEN /\ rng' = [rng EXCEPT ![r] = [@ EXCEPT !.pages = rng[r].size, !.home = rng[r].svm_bo,
                                                   !.actual_loc = th.gpu]]
            /\ bo' = [bo EXCEPT ![rng[r].svm_bo].kref = @ + rng[r].size]
       ELSE UNCHANGED <<rng, bo>>
  /\ mutex' = [mutex EXCEPT ![th.range] = "free"]
  /\ th' = IdleThread
  /\ UNCHANGED <<wk, mm, leaked, relisted, fault>>

\* svm_range_split of range r, whose record is x: part of it becomes a range of its own,
\* which shares the object, takes a reference and is put on the object's list
\* (svm_range_split_nodes).
Part(x) == [x EXCEPT !.size = 1, !.pages = IF @ = 0 THEN 0 ELSE 1]
Rest(x) == [x EXCEPT !.size = @ - 1, !.pages = IF @ = 0 THEN 0 ELSE @ - 1]
split_nodes(x, r, s) ==
  LET b == x.svm_bo IN
    IF x.actual_loc = RAM \/ ~x.ttm_res
    THEN /\ rng' = [rng EXCEPT ![r] = Rest(x),
                               ![s] = [Part(x) EXCEPT !.svm_bo = NULL, !.list = NULL,
                                                      !.ttm_res = FALSE]]
         /\ UNCHANGED <<bo, fault>>
    ELSE IF b = NULL
    THEN fault' = "null" /\ UNCHANGED <<rng, bo>>
    ELSE /\ rng' = [rng EXCEPT ![r] = Rest(x), ![s] = [Part(x) EXCEPT !.list = b]]
         /\ bo' = [bo EXCEPT ![b].kref = @ + 1]
         /\ UNCHANGED fault

Splits(r, s) ==
  /\ th.pc = "idle" /\ mutex[r] = "free" /\ mm
  /\ rng[r].exists /\ rng[r].size > 1 /\ ~rng[s].exists
  /\ \A q \in Ranges : q < s => rng[q].exists

split(r, s) ==
  /\ Splits(r, s)
  /\ split_nodes(rng[r], r, s)
  /\ UNCHANGED <<wk, th, mutex, mm, leaked, relisted>>

\* svm_range_clone: the clone takes a reference to the object, if there is one, and a place
\* on its list.
Clone(x) == [x EXCEPT !.list = x.svm_bo, !.ttm_res = @ /\ x.svm_bo # NULL]

\* svm_range_handle_overlap of a range that sticks out of the interval whose attributes
\* are set: its clone is split and stands for it; the old range leaves the list and puts
\* a reference, whether it has one or not.
handle_overlap(r, s) ==
  /\ Splits(r, s) /\ ~MmapReaders
  /\ LET b == rng[r].svm_bo
     IN IF Dangling(r)
        THEN fault' = "stale" /\ UNCHANGED <<rng, bo, relisted>>
        ELSE /\ split_nodes(Clone(rng[r]), r, s)
             /\ relisted' = IF b # NULL /\ bo[b].signaled /\ rng[r].list = NULL
                            THEN relisted \cup {r} ELSE relisted
  /\ UNCHANGED <<wk, th, mutex, mm, leaked>>

\* The clone cannot be split: it is freed, which does not take it off the list.
handle_overlap_fails(r, s) ==
  /\ Splits(r, s) /\ ~MmapReaders
  /\ rng[r].svm_bo # NULL
  /\ fault' = "stale"
  /\ UNCHANGED <<rng, bo, wk, th, mutex, mm, leaked, relisted>>

\* A range is unmapped: the kernel frees its pages, svm_range_unlink takes it off the list
\* and svm_range_free puts its object, whether the range has a reference or not.
free(r) ==
  /\ th.pc = "idle" /\ rng[r].exists /\ mutex[r] = "free" /\ ~MmapReaders
  /\ IF Dangling(r) THEN fault' = "stale" /\ UNCHANGED <<rng, bo, relisted>>
     ELSE LeaveVram(r, NoRange) /\ relisted' = relisted \ {r}
  /\ UNCHANGED <<wk, th, mutex, mm, leaked>>
-----------------------------------------------------------------------------
\* svm_range_schedule_evict_svm_bo.  The fence asks once (dma_fence enables signaling once).
schedule_evict_svm_bo(b) ==
  /\ bo[b].state = "live" /\ ~bo[b].signaled /\ ~bo[b].evicting
  /\ bo' = [bo EXCEPT ![b].evicting = TRUE, ![b].pending = TRUE]
  /\ UNCHANGED <<rng, wk, th, mutex, mm, leaked, relisted, fault>>

\* svm_range_evict_svm_bo_worker takes a reference.  Without an mm it returns with it.
worker_begin(b) ==
  /\ bo[b].pending /\ wk[b].pc = "idle" /\ bo[b].kref > 0
  /\ bo' = [bo EXCEPT ![b].pending = FALSE, ![b].kref = @ + 1]
  /\ IF mm THEN wk' = [wk EXCEPT ![b].pc = "walk"] /\ UNCHANGED leaked
     ELSE leaked' = [leaked EXCEPT ![b] = @ + 1] /\ UNCHANGED wk
  /\ UNCHANGED <<rng, th, mutex, mm, relisted, fault>>

\* The next range of the list is taken off it ...
worker_take(b, r) ==
  /\ wk[b].pc = "walk" /\ rng[r].list = b
  /\ rng' = [rng EXCEPT ![r].list = NULL]
  /\ wk' = [wk EXCEPT ![b] = [pc |-> "lock", range |-> r]]
  /\ UNCHANGED <<bo, th, mutex, mm, leaked, relisted, fault>>

\* ... and, under its migrate_mutex, moved to RAM.  The range forgets its object, also
\* when moving failed.
worker_move(b, ok) ==
  /\ wk[b].pc = "lock" /\ mutex[wk[b].range] = "free"
  /\ ok \/ MoveMayFail
  /\ LET r == wk[b].range
         c == rng[r].svm_bo
     IN IF rng[r].actual_loc # RAM /\ ok
        THEN LeaveVram(r, [InRam(r) EXCEPT !.svm_bo = NULL]) /\ UNCHANGED leaked
        ELSE /\ rng' = [rng EXCEPT ![r].svm_bo = NULL]
             /\ leaked' = IF rng[r].ttm_res /\ c # NULL THEN [leaked EXCEPT ![c] = @ + 1]
                          ELSE leaked
             /\ UNCHANGED <<bo, fault>>
  /\ wk' = [wk EXCEPT ![b].pc = "walk"]
  /\ UNCHANGED <<th, mutex, mm, relisted>>

\* Faulty variant: the fence signals while a range is on the list.
worker_end_early(b) ==
  /\ wk[b].pc = "walk"
  /\ bo' = IF bo[b].kref = 1
           THEN [bo EXCEPT ![b] = [@ EXCEPT !.state = "freed", !.kref = 0, !.signaled = TRUE]]
           ELSE [bo EXCEPT ![b].kref = @ - 1, ![b].signaled = TRUE]
  /\ wk' = [wk EXCEPT ![b].pc = "idle"]
  /\ UNCHANGED <<rng, th, mutex, mm, leaked, relisted, fault>>

\* Faulty variant: the worker keeps its reference.
worker_end_unreferenced(b) ==
  /\ wk[b].pc = "walk" /\ \A r \in Ranges : rng[r].list # b
  /\ bo' = [bo EXCEPT ![b].signaled = TRUE]
  /\ wk' = [wk EXCEPT ![b].pc = "idle"]
  /\ UNCHANGED <<rng, th, mutex, mm, leaked, relisted, fault>>

\* The list is empty: the fence signals and the reference of the worker is put.
worker_end(b) ==
  /\ wk[b].pc = "walk" /\ \A r \in Ranges : rng[r].list # b
  /\ bo' = IF bo[b].kref = 1
           THEN [bo EXCEPT ![b] = [@ EXCEPT !.state = "freed", !.kref = 0, !.signaled = TRUE]]
           ELSE [bo EXCEPT ![b].kref = @ - 1, ![b].signaled = TRUE]
  /\ wk' = [wk EXCEPT ![b].pc = "idle"]
  /\ UNCHANGED <<rng, th, mutex, mm, leaked, relisted, fault>>

\* The process exits: p->mm = NULL.
exit_mm ==
  /\ mm /\ th.pc = "idle" /\ ~MmapReaders
  /\ mm' = FALSE
  /\ UNCHANGED <<rng, bo, wk, th, mutex, leaked, relisted, fault>>
-----------------------------------------------------------------------------
BoStep ==
  \/ \E r \in Ranges : \/ to_ram(r) \/ free(r)
                       \/ \E g \in Gpus : to_vram_begin(r, g)
                       \/ \E s \in Ranges : \/ split(r, s) \/ handle_overlap(r, s)
                                             \/ handle_overlap_fails(r, s)
  \/ validate_svm_bo \/ to_vram_nothing \/ validate_wait \/ vram_node_new
  \/ \E early \in BOOLEAN : vram_node_fails(early)
  \/ \E ok \in BOOLEAN : copy_to_vram(ok)
  \/ \E b \in Bos : \/ schedule_evict_svm_bo(b) \/ worker_begin(b) \/ worker_end(b)
                    \/ \E r \in Ranges : worker_take(b, r)
                    \/ \E ok \in BOOLEAN : worker_move(b, ok)
  \/ exit_mm
BoNext == fault = "none" /\ BoStep

BoSpec == BoInit /\ [][BoNext]_bvars
-----------------------------------------------------------------------------
\* The shape of the state.
BoTypeOK ==
  /\ rng \in [Ranges -> [exists : BOOLEAN, size : 0 .. NPages, svm_bo : {NULL} \cup Bos,
                         ttm_res : BOOLEAN, actual_loc : {RAM} \cup Gpus,
                         list : {NULL} \cup Bos, pages : 0 .. NPages, home : {NULL} \cup Bos]]
  /\ bo \in [Bos -> [state : {"none", "live", "freed"}, kref : Int, gpu : {0} \cup Gpus,
                     evicting : BOOLEAN, signaled : BOOLEAN, pending : BOOLEAN]]
  /\ wk \in [Bos -> [pc : {"idle", "walk", "lock"}, range : Ranges]]
  /\ th \in [pc : {"idle", "validate", "wait", "alloc", "copy"}, range : Ranges,
             gpu : {0} \cup Gpus, obj : {NULL} \cup Bos]
  /\ mutex \in [Ranges -> {"free", "thread"}]
  /\ mm \in BOOLEAN /\ leaked \in [Bos -> Nat] /\ relisted \subseteq Ranges
  /\ fault \in {"none", "null", "put", "stale"}

UsedBy(b) == {r \in Ranges : rng[r].ttm_res /\ rng[r].svm_bo = b}
Inside(r, b) == rng[r].home = b /\ rng[r].pages > 0
PagesIn(b) == Cardinality({x \in Ranges \X (1 .. NPages) :
                             rng[x[1]].home = b /\ x[2] <= rng[x[1]].pages})

\* An object is referenced by the ranges that use it, by every page in it and by its
\* worker, plus the references that were lost: it is freed when the last of them is gone
\* and not before, through moves that fail, splits, reuse and eviction.
BoRefsExact ==
  BoTypeOK /\ \A b \in Bos : fault # "put" /\ bo[b].state # "none" =>
    bo[b].kref = Cardinality(UsedBy(b)) + PagesIn(b) + leaked[b]
                 + IF wk[b].pc = "idle" THEN 0 ELSE 1

\* A range puts only references it has: no object is freed under a range that uses it or
\* under its pages.
NoDoublePut == fault # "put"

\* When the fence of an object has signaled, the memory manager may move the object: no
\* page is in it any more, unless moving one failed.
FenceMeansEmpty ==
  \A b \in Bos : bo[b].signaled /\ leaked[b] = 0 => PagesIn(b) = 0

\* The same but for ranges that were taken off the list of the object for a move to another
\* GPU that failed, and that use the object again: the eviction does not find them.  Only
\* their pages are in the object when the fence signals or are moved into it afterwards (a
\* part that is split off later is on the list again, and so is the clone that set_attr
\* makes of such a range, with nobody to walk it).
FenceStep ==
  \A b \in Bos, r \in Ranges :
    /\ bo'[b].signaled /\ leaked'[b] = 0
    /\ rng[r].exists /\ Inside(r, b)' /\ ~(Inside(r, b) /\ bo[b].signaled)
    => rng'[r].svm_bo = b /\ (rng'[r].list = NULL \/ r \in relisted')
FenceMeansListedOut == [][FenceStep]_bvars

\* When all ranges are gone and the workers idle, every object is freed, except those
\* whose references were lost.
NoBoLeft ==
  (\A r \in Ranges : ~rng[r].exists) /\ (\A b \in Bos : wk[b].pc = "idle")
    => \A b \in Bos : bo[b].state # "live" \/ leaked[b] > 0

\* The thread does not wait for a fence that only a worker can signal which waits for the
\* migrate_mutex the thread holds.
NoMutualWait ==
  \A b \in Bos : ~(/\ th.pc = "wait" /\ th.obj = b
                   /\ wk[b].pc = "lock" /\ wk[b].range = th.range)
=============================================================================
