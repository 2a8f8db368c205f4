----------------------------- MODULE OpuProcess -----------------------------
(***************************************************************************)
(* Life of an opu_process (opu_process.c, opu_chardev.c, opu_pasid.c):     *)
(* created by the first open of /dev/opu of an mm, found through a hash    *)
(* table under SRCU by interrupt handlers, workers and fault paths, told   *)
(* of the end of its mm by an MMU notifier, and freed by a worker when the *)
(* last reference is dropped.  References are held by the notifier, by     *)
(* every open file and by whoever looked the process up.                   *)
(***************************************************************************)
EXTENDS Integers, FiniteSets
CONSTANTS
  Mms,         \* the address spaces that open the device
  Threads,     \* the threads that open it
  Home,        \* the address space of a thread
  Users,       \* contexts that look processes up
  Pasids,      \* the PASIDs there are, positive numbers
  EarlyLookups,  \* whether a lookup may meet a failing registration
  MaxProcs,    \* bound: processes created
  MaxFiles     \* bound: a process with so many files is not opened again
ASSUME EarlyAssumption == EarlyLookups \in BOOLEAN
ASSUME ProcSetsAssumption ==
  Mms # {} /\ Home \in [Threads -> Mms] /\ IsFiniteSet(Threads) /\ IsFiniteSet(Users)
ASSUME ProcBoundsAssumption == MaxProcs \in Nat \ {0} /\ MaxFiles \in Nat \ {0}
Procs == 1 .. MaxProcs
NoPasid == 0
Kinds == {"evict", "restore", "svm"}   \* eviction_work, restore_work, svms.restore_work
VARIABLES
  st,        \* of a process: "none", "hashed", "unhashed", "nomm" (p->mm = NULL), "freed"
  mmof,      \* its mm
  pasid,     \* its PASID
  ref,       \* its reference count
  notifier,  \* processes whose MMU notifier is registered (and holds a reference)
  extra,     \* those whose notifier has a second user
  files,     \* open files that hold a reference
  work,      \* the pending works, pairs of a process and a kind
  late,      \* ledger: those of them queued for a process not, or no longer, open
  mm,        \* of an mm: "live", "unhash", "sync", "evicted", "restored", "cancel"
             \* (opu_process_notifier_release under way), "gone"
  opener,    \* the threads in opu_open
  mutex,     \* the thread in opu_open that holds opu_processes_mutex, if any
  waits,     \* of a thread: lookups inside their SRCU section when it called
             \* synchronize_srcu
  readers,   \* of an mm: the same for its release
  user       \* the contexts that look up

vars == <<st, mmof, pasid, ref, notifier, extra, files, work, late, mm, opener, mutex,
          waits, readers, user>>
works == <<work, late>>
grace == <<waits, readers>>

Idle == [pc |-> "idle", proc |-> 1]

Init ==
  /\ st = [p \in Procs |-> "none"]
  /\ mmof = [p \in Procs |-> CHOOSE m \in Mms : TRUE]
  /\ pasid = [p \in Procs |-> NoPasid]
  /\ ref = [p \in Procs |-> 0]
  /\ notifier = {} /\ extra = {} /\ work = {} /\ late = {}
  /\ files = [p \in Procs |-> 0]
  /\ mm = [m \in Mms |-> "live"]
  /\ opener = [t \in Threads |-> Idle]
  /\ mutex = {}
  /\ waits = [t \in Threads |-> {}]
  /\ readers = [m \in Mms |-> {}]
  /\ user = [u \in Users |-> Idle]
-----------------------------------------------------------------------------
\* find_process_by_mm: what is in the table.
Hashed(m) == {p \in Procs : st[p] = "hashed" /\ mmof[p] = m}

\* The PASIDs that opu_pasid_alloc does not return.
UsedPasids == {pasid[p] : p \in {q \in Procs : st[q] \in {"hashed", "unhashed", "nomm"}}}
Reading == {u \in Users : user[u].pc = "found"}

\* mmu_notifier_get finds the notifier that opu_process_mmu_notifier_ops has in the mm.
Registered(m) == {p \in notifier : mmof[p] = m}

\* opu_create_process: the process is already there ...
open_find(t, p) ==
  /\ mm[Home[t]] = "live" /\ opener[t].pc = "idle" /\ mutex = {}
  /\ p \in Hashed(Home[t]) /\ files[p] < MaxFiles
  /\ ref' = [ref EXCEPT ![p] = @ + 1]
  /\ opener' = [opener EXCEPT ![t] = [pc |-> "check", proc |-> p]]
  /\ UNCHANGED <<st, mmof, pasid, notifier, extra, files, works, mm, mutex, grace, user>>

\* ... or create_process makes it, with a PASID, and puts it into the table.
open_create(t, p, q) ==
  /\ mm[Home[t]] = "live" /\ opener[t].pc = "idle" /\ mutex = {} /\ Hashed(Home[t]) = {}
  /\ st[p] = "none" /\ \A o \in Procs : o < p => st[o] # "none"
  /\ q \in Pasids \ UsedPasids
  /\ mutex' = {t}
  /\ st' = [st EXCEPT ![p] = "hashed"]
  /\ mmof' = [mmof EXCEPT ![p] = Home[t]]
  /\ pasid' = [pasid EXCEPT ![p] = q]
  /\ ref' = [ref EXCEPT ![p] = 1]
  /\ opener' = [opener EXCEPT ![t] = [pc |-> "register", proc |-> p]]
  /\ UNCHANGED <<notifier, extra, files, works, mm, grace, user>>

\* Faulty variant: the notifier takes no reference.
open_register_unreferenced(t) ==
  /\ opener[t].pc = "register" /\ Registered(Home[t]) = {}
  /\ notifier' = notifier \cup {opener[t].proc}
  /\ opener' = [opener EXCEPT ![t].pc = "check"]
  /\ mutex' = {}
  /\ UNCHANGED <<st, mmof, pasid, ref, extra, files, works, mm, grace, user>>

\* mmu_notifier_get succeeds; the opener takes a reference.
open_register(t) ==
  /\ opener[t].pc = "register" /\ Registered(Home[t]) = {}
  /\ LET p == opener[t].proc IN
       /\ notifier' = notifier \cup {p}
       /\ ref' = [ref EXCEPT ![p] = @ + 1]
  /\ opener' = [opener EXCEPT ![t].pc = "check"]
  /\ mutex' = {}
  /\ UNCHANGED <<st, mmof, pasid, extra, files, works, mm, grace, user>>

\* mmu_notifier_get finds the notifier of a process whose opening failed and that is out
\* of the table, but not yet put: BUG_ON, the thread dies with the mutex.
open_register_bug(t) ==
  /\ opener[t].pc = "register" /\ Registered(Home[t]) # {}
  /\ extra' = extra \cup Registered(Home[t])
  /\ opener' = [opener EXCEPT ![t].pc = "bug"]
  /\ UNCHANGED <<st, mmof, pasid, ref, notifier, files, works, mm, mutex, grace, user>>

\* mmu_notifier_get fails: hash_del_rcu and kfree with no grace period between them.
open_register_fails(t) ==
  /\ opener[t].pc = "register" /\ Registered(Home[t]) = {}
  /\ LET p == opener[t].proc IN
       /\ EarlyLookups \/ \A u \in Users : user[u].pc = "idle" \/ user[u].proc # p
       /\ st' = [st EXCEPT ![p] = "freed"]
       /\ ref' = [ref EXCEPT ![p] = 0]
  /\ opener' = [opener EXCEPT ![t] = Idle]
  /\ mutex' = {}
  /\ UNCHANGED <<mmof, pasid, notifier, extra, files, works, mm, grace, user>>

\* opu_process_init_cwsr_apu fails: the process leaves the table, the mutex is released ...
open_cwsr_fails(t) ==
  /\ opener[t].pc = "register" /\ Registered(Home[t]) = {}
  /\ notifier' = notifier \cup {opener[t].proc}
  /\ st' = [st EXCEPT ![opener[t].proc] = "unhashed"]
  /\ waits' = [waits EXCEPT ![t] = Reading]
  /\ opener' = [opener EXCEPT ![t].pc = "put"]
  /\ mutex' = {}
  /\ UNCHANGED <<mmof, pasid, ref, extra, files, works, mm, readers, user>>

\* ... and, after a grace period, mmu_notifier_put drops the first reference, unless the
\* notifier has another user.
open_put(t) ==
  /\ opener[t].pc = "put" /\ waits[t] = {}
  /\ LET p == opener[t].proc IN
       IF p \in extra THEN extra' = extra \ {p} /\ UNCHANGED <<notifier, ref>>
       ELSE /\ notifier' = notifier \ {p}
            /\ ref' = [ref EXCEPT ![p] = @ - 1]
            /\ UNCHANGED extra
  /\ opener' = [opener EXCEPT ![t] = Idle]
  /\ UNCHANGED <<st, mmof, pasid, files, works, mm, mutex, grace, user>>

\* The rest of opu_open: the file keeps the reference, or the driver is suspended and
\* the reference is dropped.
open_check(t, locked) ==
  /\ opener[t].pc = "check"
  /\ LET p == opener[t].proc IN
       IF locked THEN ref' = [ref EXCEPT ![p] = @ - 1] /\ UNCHANGED files
       ELSE files' = [files EXCEPT ![p] = @ + 1] /\ UNCHANGED ref
  /\ opener' = [opener EXCEPT ![t] = Idle]
  /\ UNCHANGED <<st, mmof, pasid, notifier, extra, works, mm, mutex, grace, user>>

\* opu_release
close(p) ==
  /\ files[p] > 0
  /\ files' = [files EXCEPT ![p] = @ - 1]
  /\ ref' = [ref EXCEPT ![p] = @ - 1]
  /\ UNCHANGED <<st, mmof, pasid, notifier, extra, works, mm, opener, mutex, grace, user>>
-----------------------------------------------------------------------------
\* opu_lookup_process_by_mm, _by_pasid: the process is found inside the SRCU section ...
lookup_find(u, p) ==
  /\ user[u].pc = "idle" /\ st[p] = "hashed"
  /\ user' = [user EXCEPT ![u] = [pc |-> "found", proc |-> p]]
  /\ UNCHANGED <<st, mmof, pasid, ref, notifier, extra, files, works, mm, opener, mutex, grace>>

\* ... and referenced.
lookup_get(u) ==
  /\ user[u].pc = "found"
  /\ ref' = [ref EXCEPT ![user[u].proc] = @ + 1]
  /\ user' = [user EXCEPT ![u].pc = "held"]
  /\ readers' = [m \in Mms |-> readers[m] \ {u}]
  /\ waits' = [t \in Threads |-> waits[t] \ {u}]
  /\ UNCHANGED <<st, mmof, pasid, notifier, extra, files, works, mm, opener, mutex>>

\* opu_unref_process
user_put(u) ==
  /\ user[u].pc = "held"
  /\ ref' = [ref EXCEPT ![user[u].proc] = @ - 1]
  /\ user' = [user EXCEPT ![u] = Idle]
  /\ UNCHANGED <<st, mmof, pasid, notifier, extra, files, works, mm, opener, mutex, grace>>

\* The work w is queued, in time or not; one that is pending stays as it is.
Queue(w, intime) ==
  /\ work' = work \cup {w}
  /\ late' = IF intime \/ w \in work THEN late ELSE late \cup {w}

\* The process is open and in the table: its release is still to cancel the works.
Open(p) == st[p] = "hashed" /\ p \in notifier

\* The holder schedules an eviction (kgd2opu_schedule_evict_and_restore_process), whether
\* or not the process is still in the table ...
user_queue(u) ==
  /\ user[u].pc = "held"
  /\ Queue(<<user[u].proc, "evict">>, Open(user[u].proc))
  /\ UNCHANGED <<st, mmof, pasid, ref, notifier, extra, files, mm, opener, mutex, grace, user>>

\* ... opu_resume_all_processes a restore of the processes it finds in the table, inside
\* its SRCU section ...
resume_queue(u) ==
  /\ user[u].pc = "found"
  /\ Queue(<<user[u].proc, "restore">>, Open(user[u].proc))
  /\ UNCHANGED <<st, mmof, pasid, ref, notifier, extra, files, mm, opener, mutex, grace, user>>

\* ... and svm_range_evict a restore of the ranges that were made while the process was
\* open, and whose notifiers stay until it is freed.
svm_queue(p) ==
  /\ \/ Open(p) \/ st[p] = "nomm"
     \/ st[p] = "unhashed" /\ p \in notifier /\ mm[mmof[p]] # "live"
  /\ Queue(<<p, "svm">>, Open(p))
  /\ UNCHANGED <<st, mmof, pasid, ref, notifier, extra, files, mm, opener, mutex, grace, user>>

\* evict_process_worker runs and, if it could stop the queues, queues restore_work.
evict_run(p, stopped) ==
  /\ <<p, "evict">> \in work /\ st[p] # "freed"
  /\ LET w == <<p, "evict">>  r == <<p, "restore">> IN
       /\ work' = (work \ {w}) \cup (IF stopped THEN {r} ELSE {})
       /\ late' = (late \ {w}) \cup (IF stopped /\ w \in late /\ r \notin work THEN {r} ELSE {})
  /\ UNCHANGED <<st, mmof, pasid, ref, notifier, extra, files, mm, opener, mutex, grace, user>>

\* restore_process_worker or svm_range_restore_work runs; one that queues itself again
\* stays pending.
restore_run(p, k) ==
  /\ k \in {"restore", "svm"} /\ <<p, k>> \in work /\ st[p] # "freed"
  /\ work' = work \ {<<p, k>>} /\ late' = late \ {<<p, k>>}
  /\ UNCHANGED <<st, mmof, pasid, ref, notifier, extra, files, mm, opener, mutex, grace, user>>
-----------------------------------------------------------------------------
\* The last thread of an mm exits; an mm without a process has nothing to do.
mm_exit(m) ==
  /\ mm[m] = "live" /\ \A t \in Threads : Home[t] = m => opener[t].pc \in {"idle", "bug"}
  /\ mm' = [mm EXCEPT ![m] = IF Hashed(m) = {} THEN "gone" ELSE "unhash"]
  /\ UNCHANGED <<st, mmof, pasid, ref, notifier, extra, files, works, opener, mutex, grace, user>>

\* Faulty variant: the release does not wait for readers of the table.
release_unhash_unsynchronized(m) ==
  /\ mm[m] = "unhash" /\ mutex = {}
  /\ st' = [p \in Procs |-> IF p \in Hashed(m) THEN "unhashed" ELSE st[p]]
  /\ mm' = [mm EXCEPT ![m] = "sync"]
  /\ UNCHANGED <<mmof, pasid, ref, notifier, extra, files, works, opener, mutex, grace, user>>

\* opu_process_notifier_release: hash_del_rcu under the mutex; synchronize_srcu begins.
release_unhash(m) ==
  /\ mm[m] = "unhash" /\ mutex = {}
  /\ st' = [p \in Procs |-> IF p \in Hashed(m) THEN "unhashed" ELSE st[p]]
  /\ readers' = [readers EXCEPT ![m] = Reading]
  /\ mm' = [mm EXCEPT ![m] = "sync"]
  /\ UNCHANGED <<mmof, pasid, ref, notifier, extra, files, works, opener, mutex, waits, user>>

Released(m) == {p \in notifier : mmof[p] = m /\ st[p] = "unhashed"}

\* Faulty variant: restore_work is cancelled before eviction_work.
cancel_swapped(m, from, k, to) ==
  /\ mm[m] = from
  /\ LET other == IF k = "evict" THEN "restore" ELSE IF k = "restore" THEN "evict" ELSE k IN
       /\ work' = work \ (Released(m) \X {other})
       /\ late' = late \ (Released(m) \X {other})
  /\ mm' = [mm EXCEPT ![m] = to]
  /\ UNCHANGED <<st, mmof, pasid, ref, notifier, extra, files, opener, mutex, grace, user>>

\* cancel_delayed_work_sync of one of the works.
cancel(m, from, k, to) ==
  /\ mm[m] = from
  /\ work' = work \ (Released(m) \X {k})
  /\ late' = late \ (Released(m) \X {k})
  /\ mm' = [mm EXCEPT ![m] = to]
  /\ UNCHANGED <<st, mmof, pasid, ref, notifier, extra, files, opener, mutex, grace, user>>

\* The works are cancelled after the grace period, each only after the ones that queue it.
release_cancel_eviction(m) == readers[m] = {} /\ cancel(m, "sync", "evict", "evicted")
release_cancel_restore(m) == cancel(m, "evicted", "restore", "restored")
release_cancel_svm(m) == cancel(m, "restored", "svm", "cancel")

\* Faulty variant: the notifier keeps its reference.
release_put_never(m) ==
  /\ mm[m] = "cancel"
  /\ st' = [p \in Procs |-> IF p \in Released(m) THEN "nomm" ELSE st[p]]
  /\ mm' = [mm EXCEPT ![m] = "gone"]
  /\ UNCHANGED <<mmof, pasid, ref, notifier, extra, files, works, opener, mutex, grace, user>>

\* The queues are destroyed, p->mm = NULL, and mmu_notifier_put drops the reference of
\* the notifier (opu_process_free_notifier).
release_put(m) ==
  /\ mm[m] = "cancel"
  /\ st' = [p \in Procs |-> IF p \in Released(m) THEN "nomm" ELSE st[p]]
  /\ ref' = [p \in Procs |-> IF p \in Released(m) THEN ref[p] - 1 ELSE ref[p]]
  /\ notifier' = notifier \ Released(m)
  /\ mm' = [mm EXCEPT ![m] = "gone"]
  /\ UNCHANGED <<mmof, pasid, extra, files, works, opener, mutex, grace, user>>

\* opu_process_wq_release, queued by opu_process_ref_release: everything is freed, the
\* PASID becomes available.
wq_release(p) ==
  /\ st[p] \in {"hashed", "unhashed", "nomm"} /\ ref[p] = 0
  /\ st' = [st EXCEPT ![p] = "freed"]
  /\ UNCHANGED <<mmof, pasid, ref, notifier, extra, files, works, mm, opener, mutex, grace, user>>
-----------------------------------------------------------------------------
Opening == \E t \in Threads :
  \/ \E p \in Procs : open_find(t, p) \/ \E q \in Pasids : open_create(t, p, q)
  \/ open_register(t) \/ open_register_bug(t) \/ open_register_fails(t)
  \/ open_cwsr_fails(t) \/ open_put(t)
  \/ \E locked \in BOOLEAN : open_check(t, locked)
Lookup == \E u \in Users :
  \/ \E p \in Procs : lookup_find(u, p)
  \/ lookup_get(u) \/ user_queue(u) \/ resume_queue(u) \/ user_put(u)
Exit == \E m \in Mms :
  \/ mm_exit(m) \/ release_unhash(m)
  \/ release_cancel_eviction(m) \/ release_cancel_restore(m) \/ release_cancel_svm(m)
  \/ release_put(m)
Work == \E p \in Procs :
  \/ svm_queue(p) \/ \E stopped \in BOOLEAN : evict_run(p, stopped)
  \/ \E k \in Kinds : restore_run(p, k)
Next == \/ Opening \/ Lookup \/ Exit \/ Work
        \/ \E p \in Procs : close(p) \/ wq_release(p)

\* Whoever looked a process up puts it; a release, once begun, and the work queue go on.
Fairness ==
  /\ \A u \in Users : WF_vars(lookup_get(u)) /\ WF_vars(user_put(u))
  /\ \A m \in Mms : /\ WF_vars(release_unhash(m)) /\ WF_vars(release_cancel_eviction(m))
                    /\ WF_vars(release_cancel_restore(m)) /\ WF_vars(release_cancel_svm(m))
                    /\ WF_vars(release_put(m))
  /\ \A p \in Procs : WF_vars(wq_release(p))

Spec == Init /\ [][Next]_vars /\ Fairness
-----------------------------------------------------------------------------
Ones(b) == IF b THEN 1 ELSE 0

\* The shape of the state.
ProcessTypeOK ==
  /\ st \in [Procs -> {"none", "hashed", "unhashed", "nomm", "freed"}]
  /\ mmof \in [Procs -> Mms] /\ pasid \in [Procs -> Pasids \cup {NoPasid}]
  /\ ref \in [Procs -> Nat] /\ files \in [Procs -> Nat]
  /\ notifier \subseteq Procs /\ extra \subseteq notifier
  /\ work \subseteq Procs \X Kinds /\ late \subseteq work
  /\ mm \in [Mms -> {"live", "unhash", "sync", "evicted", "restored", "cancel", "gone"}]
  /\ opener \in [Threads -> [pc : {"idle", "register", "check", "put", "bug"}, proc : Procs]]
  /\ mutex \subseteq Threads
  /\ waits \in [Threads -> SUBSET Users] /\ readers \in [Mms -> SUBSET Users]
  /\ user \in [Users -> [pc : {"idle", "found", "held"}, proc : Procs]]

\* Those who hold a reference; the first one is the notifier's, and nobody's if the thread
\* that was to register it died.
Holders(p) ==
  Ones(p \in notifier
       \/ \E t \in Threads : opener[t].pc \in {"register", "bug"} /\ opener[t].proc = p)
  + files[p]
  + Cardinality({t \in Threads : opener[t].pc = "check" /\ opener[t].proc = p})
  + Cardinality({u \in Users : user[u].pc = "held" /\ user[u].proc = p})

\* The count of a process is the number of those who hold a reference, along every error
\* path of opening, several threads of an mm opening at a time, so that it is freed
\* neither under a holder nor never.
RefsExact ==
  ProcessTypeOK /\ \A p \in Procs : ref[p] = Holders(p)

\* A lookup inside its SRCU section takes a reference of a process that is neither freed
\* nor about to be (kref_get of a count of zero): removal from the table, grace period
\* and release are in the right order.
FoundIsAlive ==
  \A u \in Users : user[u].pc = "found" =>
    st[user[u].proc] # "freed" /\ ref[user[u].proc] > 0

\* A work queued while its process was open is not pending once the process is freed,
\* although the works queue each other while they are cancelled; one queued later, by
\* somebody who looked the process up before, may be (late).
WorkHasProcess == \A w \in work \ late : st[w[1]] # "freed"

\* What the comments of both workers say ("during the lifetime of this thread, opu_process p
\* will be valid"), and what create_process is sure of (BUG_ON at opu_process.c:1332).
WorkAlwaysHasProcess == \A w \in work : st[w[1]] # "freed"
NoBug == \A t \in Threads : opener[t].pc # "bug"

\* A process whose mm is gone and whose files are closed is freed, and with it its PASID.
ProcessFreed ==
  \A p \in Procs : (st[p] = "nomm" /\ files[p] = 0) ~> (st[p] = "freed")
=============================================================================
