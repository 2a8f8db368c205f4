------------------------------ MODULE SvmRanges ------------------------------
(***************************************************************************)
(* The ranges of shared virtual memory (opu_svm.c): an interval tree of    *)
(* ranges with attributes, changed by the set_attr ioctl under the mmap    *)
(* write lock, by munmap and CPU page faults from callbacks that must not  *)
(* touch the tree, and by GPU faults on addresses without a range.         *)
(*                                                                         *)
(* A callback splits a range at once and leaves the new parts on the       *)
(* range's child list; the range goes on a list from which a worker brings *)
(* the tree up to date.  Until then the tree has the old extent of the     *)
(* range and the range a shorter one.  A range in the tree is a record     *)
(* with both; as tree intervals are disjoint, the tree interval is what    *)
(* identifies it, also on the worker's list.                               *)
(*                                                                         *)
(* A CPU fault whose second split fails leaves a range cut and off the     *)
(* list (opu_migrate.c:803): no worker comes for it and its child, it is   *)
(* torn, and set_attr loses the child.                                     *)
(*                                                                         *)
(* Ranges are mapped on the GPU by the ioctl and by the fault handler with *)
(* svms->lock and the mmap read lock held, but their pages are looked up   *)
(* without the lock that notifiers take.                                   *)
(*                                                                         *)
(* An attribute is one of two: cmp stands for those svm_range_is_same_attrs*)
(* compares (prefetch location, flags, granularity), acc for the others    *)
(* (preferred location, access).  ADD_RANGE_AND_MAP and                    *)
(* UPDATE_RANGE_NOTIFIER_AND_MAP do what the ops without MAP do.  A split  *)
(* that fails in a notifier ends in a NULL dereference (opu_svm.c:2039),   *)
(* after which there is nothing to model.                                  *)
(***************************************************************************)
EXTENDS Integers, FiniteSets, SequencesExt
CONSTANTS
  FirstPage, LastPage, \* the address space
  GRANULE,             \* 1 << prange->granularity
  AttrKinds            \* attributes that are set: a subset of {"cmp", "acc"}
Pages == FirstPage .. LastPage
ASSUME SpaceAssumption == FirstPage \in Nat \ {0} /\ LastPage \in Nat /\ GRANULE \in Nat \ {0}
ASSUME KindsAssumption == AttrKinds \subseteq {"cmp", "acc"}
VARIABLES
  tree,    \* svms->objects: ranges [it_s, it_l (tree), s, l (range), attr, op, kids
           \* (child_list: [s, l, attr, op])]
  list,    \* deferred_range_list: the tree intervals of its ranges
  mapped,  \* pages the CPU has in VMAs
  gpu,     \* pages mapped on the GPU
  wk,      \* svm_range_deferred_list_work: whether it has looked at the first range
  todo,    \* tree intervals of the ranges that the holder of svms->lock has yet to map
  got,     \* the one whose pages it has looked up: {} or {[id, valid]}, valid until a
           \* notifier of the range is called (mmu_interval_set_seq)
  torn,    \* ledger: a failing split has left a cut range that is not on the list
  want     \* ledger: the attributes last set for a page
rvars == <<tree, list, mapped, gpu, wk, todo, got, torn, want>>

\* svm_range_set_default_attributes; zero is what the ioctl compares when an attribute is
\* not among those to be set.
Default == [cmp |-> 1, acc |-> 0]

\* svm_range_new, linked into the tree.
NewRange(s, l, attr) == [it_s |-> s, it_l |-> l, s |-> s, l |-> l, attr |-> attr, op |-> "none",
                         kids |-> {}]

RangesInit ==
  /\ tree = {} /\ list = <<>> /\ mapped = Pages /\ gpu = {}
  /\ wk = "idle" /\ todo = {} /\ got = {} /\ torn = FALSE
  /\ want = [p \in Pages |-> Default]
-----------------------------------------------------------------------------
In(p, x)      == x.s <= p /\ p <= x.l
Overlap(n, s, l) == n.it_s <= l /\ s <= n.it_l
Parts(n)      == n.kids \cup {[s |-> n.s, l |-> n.l, attr |-> n.attr, op |-> n.op]}
Living(n)     == {x \in Parts(n) : x.op # "unmap"}
InLiving(p)   == \E n \in tree : \E x \in Living(n) : In(p, x)
At(p)         == {n \in tree : n.it_s <= p /\ p <= n.it_l}
Id(n)         == <<n.it_s, n.it_l>>
Listed(n)     == Id(n) \in ToSet(list)
Larger(a, b)  == IF a > b THEN a ELSE b
Smaller(a, b) == IF a < b THEN a ELSE b
-----------------------------------------------------------------------------
\* svm_range_apply_attrs
Apply(attr, k, v) == [attr EXCEPT ![k] = v]

\* svm_range_is_same_attrs, of a range and of the attributes to be set.
SameAttrs(attr, k, v) == attr.cmp = Apply([cmp |-> 0, acc |-> 0], k, v).cmp

\* svm_range_handle_overlap, one range of the tree: it is updated if all of it is within
\* s .. l, else cloned without its children, and what lies outside is cut off.
Overlapped(n, s, l, k, v) ==
  LET set == IF SameAttrs(n.attr, k, v) THEN n.attr ELSE Apply(n.attr, k, v)
  IN IF s <= n.it_s /\ n.it_l <= l THEN {[n EXCEPT !.attr = set]}
     ELSE {m \in {NewRange(Larger(n.s, s), Smaller(n.l, l), set), NewRange(n.s, s - 1, n.attr),
                  NewRange(l + 1, n.l, n.attr)} : m.s <= m.l}

\* Where it is cut by its interval in the tree the clone must be cut too (svm_range_split),
\* or the update fails.  Ranges that get empty are left out.
Splittable(n, s, l) ==
  /\ n.it_s < s => n.s <= s /\ s <= n.l + 1
  /\ n.it_l > l => l <= n.l /\ n.s <= l + 1

\* Faulty variant: a gap before a range gets no range.
Gaps_left(found, s, l) ==
  {g \in [s : s .. l, l : {l}] : /\ g.s = s \/ \E n \in found : g.s = n.it_l + 1
                                 /\ \A n \in found : n.it_l < g.s}

\* What the walk over the ranges found in s .. l, in the order of their addresses, finds
\* without a range: a gap begins at s or behind a range, which is where start has come to,
\* and ends before the next range or, with what is left, at l.
Gaps(found, s, l) ==
  {g \in [s : s .. l, l : s .. l] :
     /\ g.s <= g.l
     /\ g.s = s \/ \E n \in found : g.s = n.it_l + 1
     /\ g.l = l \/ \E n \in found : g.l = n.it_s - 1
     /\ \A n \in found : n.it_l < g.s \/ g.l < n.it_s}

\* svm_range_add: what was found is replaced, and gaps become ranges.
Found(s, l) == {n \in tree : Overlap(n, s, l)}
Replacing(s, l, k, v) ==
  (UNION {Overlapped(n, s, l, k, v) : n \in Found(s, l)})
  \cup {NewRange(g.s, g.l, Apply(Default, k, v)) : g \in Gaps(Found(s, l), s, l)}
RangeAdd(s, l, k, v) == (tree \ Found(s, l)) \cup Replacing(s, l, k, v)

\* The update list: gaps, and ranges whose attributes are not the same.
Updated(s, l, k, v) ==
  {Id(m) : m \in {u \in Replacing(s, l, k, v) : s <= u.it_s /\ u.it_l <= l}}
  \ {Id(m) : m \in UNION {Overlapped(n, s, l, k, v) :
                            n \in {f \in Found(s, l) : SameAttrs(f.attr, k, v)}}}

\* The mmap read lock and svms->lock are held by one who maps ranges.
Busy == todo # {} \/ got # {}

\* svm_range_list_lock_and_flush_work: the mmap write lock is held and nothing is deferred.
Flushed == ~Busy /\ list = <<>>

\* svm_range_set_attr of valid pages, up to the downgrade of the mmap lock; a failing
\* allocation or split changes nothing.  The update list is mapped after that.
set_attr(s, l, k, v) ==
  /\ s <= l /\ s .. l \subseteq mapped
  /\ Flushed
  /\ \A n \in Found(s, l) : Splittable(n, s, l)
  /\ tree' = RangeAdd(s, l, k, v)
  /\ todo' = Updated(s, l, k, v)
  /\ want' = [p \in Pages |-> IF p \in s .. l THEN Apply(want[p], k, v) ELSE want[p]]
  /\ UNCHANGED <<list, mapped, gpu, wk, got, torn>>
-----------------------------------------------------------------------------
\* Faulty variant: the last op counts.
AddListWork_last(n, op) == [n EXCEPT !.op = op]

\* svm_range_add_list_work: unmapping is not undone by a later op.
AddListWork(n, op) == [n EXCEPT !.op = IF Listed(n) /\ n.op = "unmap" THEN "unmap" ELSE op]

\* The list with the ranges ns behind it, which are called in the order of their addresses.
ListWith(ns) ==
  LET ids == {Id(n) : n \in {m \in ns : ~Listed(m)}}
  IN {list \o q : q \in {f \in [1 .. Cardinality(ids) -> ids] :
                           /\ ToSet(f) = ids
                           /\ \A i, j \in DOMAIN f : i < j => f[i][1] < f[j][1]}}

\* svm_range_unmap_split of a range or a child: what is left of it, and the parts that
\* become children.
UnmapSplit(x, s, l, isParent) ==
  LET part(a, b, o) == [s |-> a, l |-> b, attr |-> x.attr, op |-> o] IN
  IF x.op = "unmap" \/ s > x.l \/ l < x.s THEN [rest |-> x, kids |-> {}]
  ELSE IF s > x.s /\ l < x.l
  THEN [rest |-> [x EXCEPT !.l = s - 1], kids |-> {part(s, l, "unmap"), part(l + 1, x.l, "add")}]
  ELSE IF s > x.s THEN [rest |-> [x EXCEPT !.l = s - 1], kids |-> {part(s, x.l, "unmap")}]
  ELSE IF l < x.l THEN [rest |-> [x EXCEPT !.s = l + 1], kids |-> {part(x.s, l, "unmap")}]
  ELSE [rest |-> IF isParent THEN x ELSE [x EXCEPT !.op = "unmap"], kids |-> {}]

\* Faulty variant: the children are not looked at.
UnmapFromCpu_parent(n, s, l) ==
  LET u == UnmapSplit(n, s, l, TRUE)
      op == IF s <= n.s /\ l >= n.l THEN "unmap" ELSE "update"
  IN AddListWork([u.rest EXCEPT !.kids = n.kids \cup u.kids], op)

\* svm_range_unmap_from_cpu of a range, s and l within its notifier's interval.
UnmapFromCpu(n, s, l) ==
  LET kid == {UnmapSplit(x, s, l, FALSE) : x \in n.kids}
      kids == {u.rest : u \in kid} \cup (UNION {u.kids : u \in kid})
      u == UnmapSplit(n, s, l, TRUE)
      op == IF s <= n.s /\ l >= n.l THEN "unmap" ELSE "update"
  IN AddListWork([u.rest EXCEPT !.kids = kids \cup u.kids], op)

\* Pages s .. l that are in ranges lose their mapping on the GPU.
Unmapping(s, l) == {p \in gpu : ~(p \in s .. l /\ \E n \in At(p) : \E x \in Parts(n) : In(p, x))}

\* The notifiers of ranges in s .. l are called.
Invalidated(s, l) ==
  {[g EXCEPT !.valid = @ /\ ~(g.id[1] <= l /\ s <= g.id[2])] : g \in got}

\* munmap: the VMA goes, then the notifier of every range is called; the pages are
\* unmapped from the GPU.  It is let in between look-up and mapping, as the code expects
\* ("range split by unmap in parallel").
munmap(s, l) ==
  /\ s <= l /\ s .. l \subseteq mapped
  /\ mapped' = mapped \ (s .. l)
  /\ list' \in ListWith({n \in tree : Overlap(n, s, l)})
  /\ tree' = {IF Overlap(n, s, l)
              THEN UnmapFromCpu(n, Larger(s, n.it_s), Smaller(l, n.it_l)) ELSE n : n \in tree}
  /\ gpu' = Unmapping(s, l) /\ got' = Invalidated(s, l)
  /\ want' = [p \in Pages |-> IF p \in s .. l THEN Default ELSE want[p]]
  /\ UNCHANGED <<wk, todo, torn>>

\* svm_range_evict with xnack: pages are reclaimed or migrated.
invalidate(s, l) ==
  /\ s <= l
  /\ gpu' = Unmapping(s, l) /\ got' = Invalidated(s, l)
  /\ UNCHANGED <<tree, list, mapped, wk, todo, torn, want>>

\* The CPU maps fresh pages, under the mmap write lock.
mmap(s, l) ==
  /\ s <= l /\ s .. l \cap mapped = {} /\ ~Busy
  /\ mapped' = mapped \cup (s .. l)
  /\ UNCHANGED <<tree, list, gpu, wk, todo, got, torn, want>>

\* svm_migrate_to_ram, a CPU fault on a page in VRAM: the range or child is trimmed to an
\* aligned block (svm_range_split_by_granularity), head and tail become children, and
\* moving the pages, if it succeeds, unmaps them from the GPU.
Trim(x, p) ==
  LET a == (p \div GRANULE) * GRANULE
      b == a + GRANULE - 1
      part(c, d) == [s |-> c, l |-> d, attr |-> x.attr, op |-> "add"]
  IN [rest |-> [x EXCEPT !.s = Larger(x.s, a), !.l = Smaller(x.l, b)],
      kids |-> (IF a > x.s THEN {part(x.s, a - 1)} ELSE {})
               \cup (IF b < x.l THEN {part(b + 1, x.l)} ELSE {})]

\* The split of the tail fails, after the head has become a child.
TrimHead(x, p) ==
  LET t == Trim(x, p)
  IN [rest |-> [t.rest EXCEPT !.l = x.l], kids |-> {k \in t.kids : k.s = x.s}]

\* The range n and its children, with a split t of the range or of its child x.
OwnTrimmed(n, t)    == [t.rest EXCEPT !.kids = @ \cup t.kids]
KidTrimmed(n, x, t) == [n EXCEPT !.kids = (@ \ {x}) \cup {t.rest} \cup t.kids]

\* A page in system memory and a failing first split change nothing.
cpu_fault(p) ==
  /\ p \in mapped /\ ~Busy
  /\ \E n \in At(p) :
     /\ list' \in ListWith({n})
     /\ \/ /\ In(p, n) /\ n.op # "unmap"
           /\ LET t == Trim(n, p) IN
              /\ tree' = (tree \ {n}) \cup {AddListWork(OwnTrimmed(n, t), "update")}
              /\ gpu' \in {gpu, gpu \ (t.rest.s .. t.rest.l)}
        \/ \E x \in n.kids :
           /\ In(p, x) /\ x.op # "unmap"
           /\ LET t == Trim(x, p) IN
              /\ tree' = (tree \ {n}) \cup {AddListWork(KidTrimmed(n, x, t), "update")}
              /\ gpu' \in {gpu, gpu \ (t.rest.s .. t.rest.l)}
  /\ UNCHANGED <<mapped, wk, todo, got, torn, want>>

\* The same when the second split fails: svm_migrate_to_ram leaves without
\* svm_range_add_list_work.
cpu_fault_fails(p) ==
  /\ p \in mapped /\ ~Busy
  /\ \E n \in At(p) :
     /\ \/ /\ In(p, n) /\ n.op # "unmap" /\ Cardinality(Trim(n, p).kids) = 2
           /\ tree' = (tree \ {n}) \cup {OwnTrimmed(n, TrimHead(n, p))}
        \/ \E x \in n.kids :
           /\ In(p, x) /\ x.op # "unmap" /\ Cardinality(Trim(x, p).kids) = 2
           /\ tree' = (tree \ {n}) \cup {KidTrimmed(n, x, TrimHead(x, p))}
     /\ torn' = (torn \/ ~Listed(n))
  /\ UNCHANGED <<list, mapped, gpu, wk, todo, got, want>>
-----------------------------------------------------------------------------
\* svm_range_deferred_list_work looks at the first range of its list; if that is to be
\* unmapped it waits for the faults raised so far, of which any may still come.
deferred_peek ==
  /\ wk = "idle" /\ list # <<>>
  /\ wk' = "lock"
  /\ UNCHANGED <<tree, list, mapped, gpu, todo, got, torn, want>>

\* Faulty variant: the children are dropped.
Handled_childless(n) ==
  IF n.op = "unmap" THEN {} ELSE {NewRange(n.s, n.l, n.attr)}

\* svm_range_handle_list_op of the children and of the range.
Handled(n) ==
  {NewRange(x.s, x.l, x.attr) : x \in {y \in n.kids : y.op = "add"}}
  \cup (IF n.op = "unmap" THEN {} ELSE {NewRange(n.s, n.l, n.attr)})

\* Under the mmap write lock: off the list, and into the tree with its children.
deferred_handle ==
  /\ wk = "lock" /\ ~Busy
  /\ \E n \in tree :
       /\ Id(n) = Head(list)
       /\ tree' = (tree \ {n}) \cup Handled(n)
  /\ list' = Tail(list) /\ wk' = "idle"
  /\ UNCHANGED <<mapped, gpu, todo, got, torn, want>>
-----------------------------------------------------------------------------
\* Faulty variant: the range ends where the VMA does.
Boundaries_of_vma(p) ==
  {b \in [s : Pages, l : Pages] : /\ b.s <= p /\ p <= b.l /\ b.s .. b.l \subseteq mapped
                                  /\ b.s - 1 \notin mapped /\ b.l + 1 \notin mapped}

\* svm_range_get_range_boundaries: as far as the VMA goes in both directions and no range of
\* the tree is met (the address space is within one of the aligned blocks that limit them
\* further).
Boundaries(p) ==
  LET free == {q \in mapped : At(q) = {}}
  IN {b \in [s : Pages, l : Pages] : /\ b.s <= p /\ p <= b.l /\ b.s .. b.l \subseteq free
                                     /\ b.s - 1 \notin free /\ b.l + 1 \notin free}

\* svm_range_restore_pages, up to svm_range_validate_and_map: without a range one is made
\* under the mmap write lock, if there is a VMA.  A child, not yet in the tree, and a range
\* to be unmapped are left alone (svm_range_skip_recover).
restore_pages(p) ==
  /\ ~Busy
  /\ \/ /\ At(p) = {} /\ p \in mapped
        /\ \E b \in Boundaries(p) :
           /\ tree' = tree \cup {NewRange(b.s, b.l, Default)}
           /\ todo' = {<<b.s, b.l>>}
           /\ want' = [q \in Pages |-> IF q \in b.s .. b.l THEN Default ELSE want[q]]
     \/ /\ At(p) = {} /\ p \notin mapped
        /\ UNCHANGED <<tree, todo, want>>
     \/ /\ At(p) # {}
        /\ todo' = {Id(n) : n \in {m \in At(p) : In(p, m) /\ m.op # "unmap"}}
        /\ UNCHANGED <<tree, want>>
  /\ UNCHANGED <<list, mapped, gpu, wk, got, torn>>

\* svm_range_validate_and_map looks the pages of a range up without the range's lock; the
\* CPU must have them all.
get_pages ==
  /\ got = {}
  /\ \E n \in tree :
       /\ Id(n) \in todo /\ n.s .. n.l \subseteq mapped
       /\ todo' = todo \ {Id(n)}
       /\ got' = {[id |-> Id(n), valid |-> TRUE]}
  /\ UNCHANGED <<tree, list, mapped, gpu, wk, torn, want>>

\* No GPU has access, or the range was moved and the restore work will map it.
map_nothing ==
  /\ got = {}
  /\ \E id \in todo : todo' = todo \ {id}
  /\ UNCHANGED <<tree, list, mapped, gpu, wk, got, torn, want>>

\* Migration or the look-up fails: svm_range_set_attr leaves its loop.
get_fails ==
  /\ got = {} /\ todo # {}
  /\ todo' = {}
  /\ UNCHANGED <<tree, list, mapped, gpu, wk, got, torn, want>>

\* Faulty variant: what was invalidated or split since the look-up is not looked at.
map_pages_unchecked ==
  /\ \E n \in tree, g \in got : Id(n) = g.id /\ gpu' \in {gpu, gpu \cup (n.s .. n.l)}
  /\ got' = {}
  /\ todo' \in {todo, {}}
  /\ UNCHANGED <<tree, list, mapped, wk, torn, want>>

\* Under the range's lock: amdgpu_hmm_range_get_pages_done, the child list, and the mapping;
\* -EAGAIN and a failing update end the loop.
map_pages ==
  /\ \/ /\ \E n \in tree, g \in got : /\ Id(n) = g.id /\ g.valid /\ n.kids = {}
                                      /\ gpu' = gpu \cup (n.s .. n.l)
        /\ UNCHANGED todo
     \/ got # {} /\ todo' = {} /\ UNCHANGED gpu
  /\ got' = {}
  /\ UNCHANGED <<tree, list, mapped, wk, torn, want>>
-----------------------------------------------------------------------------
RangesNext ==
  \/ \E s, l \in Pages :
       \/ \E k \in AttrKinds, v \in {0, 1} : set_attr(s, l, k, v)
       \/ munmap(s, l) \/ invalidate(s, l) \/ mmap(s, l)
  \/ \E p \in Pages : cpu_fault(p) \/ cpu_fault_fails(p) \/ restore_pages(p)
  \/ get_pages \/ map_nothing \/ get_fails \/ map_pages
  \/ deferred_peek \/ deferred_handle

\* The work queue runs the worker, whoever maps ranges goes on, and the locks they want are
\* handed to who waits for them (rwsem and mutex have hand-off).
RangesSpec ==
  /\ RangesInit /\ [][RangesNext]_rvars
  /\ WF_rvars(get_fails) /\ WF_rvars(map_pages)
  /\ WF_rvars(deferred_peek) /\ SF_rvars(deferred_handle)
-----------------------------------------------------------------------------
Ops == {"none", "update", "add", "unmap"}
Attrs == [cmp : {0, 1}, acc : {0, 1}]

\* The shape of the state.
RangesTypeOK ==
  /\ \A n \in tree : /\ {n.it_s, n.it_l, n.s, n.l} \subseteq Pages
                     /\ n.s <= n.l /\ n.attr \in Attrs /\ n.op \in Ops
                     /\ \A x \in n.kids : /\ {x.s, x.l} \subseteq Pages /\ x.s <= x.l
                                          /\ x.attr \in Attrs /\ x.op \in {"add", "unmap"}
  /\ mapped \subseteq Pages /\ gpu \subseteq Pages
  /\ ToSet(list) \subseteq {Id(n) : n \in tree} /\ IsInjective(list)
  /\ todo \cup {g.id : g \in got} \subseteq {Id(n) : n \in tree}
  /\ Cardinality(got) <= 1 /\ torn \in BOOLEAN
  /\ want \in [Pages -> Attrs] /\ wk \in {"idle", "lock"}

\* Tree intervals are disjoint, and the range and its children divide the interval among
\* them: an address has one range, before and after the worker has run, also when ranges
\* are made on a fault while splits are waiting for it.
OneRangePerPage ==
  RangesTypeOK /\ \A p \in Pages :
    /\ Cardinality(At(p)) <= 1
    /\ \A n \in At(p) : Cardinality({x \in Parts(n) : In(p, x)}) = 1

\* No range that is not to be removed has a page the CPU has unmapped: munmap cuts ranges
\* and the children they had before exactly.
UnmappedIsGone == \A p \in Pages : InLiving(p) => p \in mapped

\* The GPU maps pages of ranges only, none that the CPU has unmapped, also when munmap comes
\* between look-up and mapping; until a range is torn, which set_attr takes pages from.
GpuMapsLiving == ~torn => \A p \in gpu : p \in mapped /\ InLiving(p)

\* Every page of a range has the attribute that was last set for it, through splits,
\* clones and the worker, and every page it was set for has a range; until a range is torn.
AttrsKept == ~torn =>
  /\ \A n \in tree : \A x \in Living(n) : \A p \in x.s .. x.l : x.attr.cmp = want[p].cmp
  /\ \A p \in mapped : want[p].cmp # Default.cmp => InLiving(p)

\* The two without the exception.
GpuMapsLivingAlways == \A p \in gpu : p \in mapped /\ InLiving(p)
AttrsKeptAlways     == \A p \in mapped : want[p].cmp # Default.cmp => InLiving(p)

\* The same of the attributes that svm_range_is_same_attrs does not compare.
AttrsApplied == \A n \in tree : \A x \in Living(n) : \A p \in x.s .. x.l : x.attr = want[p]

\* The tree gets up to date: what is deferred is done, and unmapped ranges are freed.
DeferredIsDone == \A p \in Pages : (At(p) # {} /\ p \notin mapped) ~> (At(p) = {} \/ p \in mapped)
=============================================================================
