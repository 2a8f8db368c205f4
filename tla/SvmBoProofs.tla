----------------------------- MODULE SvmBoProofs -----------------------------
(***************************************************************************)
(* The references of the buffer objects of SvmBo, for any number of        *)
(* ranges, pages, GPUs and objects.                                        *)
(*                                                                         *)
(* The heart is RefsChange: when one range changes its record, the number  *)
(* of references that ranges and pages hold to an object changes by the    *)
(* difference of the weights of the two records.  Everything else is who   *)
(* may change which range: the thread holds the migrate_mutex of the one   *)
(* it moves, and releasing an object changes only ranges without a         *)
(* reference to it.                                                        *)
(***************************************************************************)
EXTENDS SvmBo, FiniteSetTheorems, TLAPS

RangeRecords ==
  [exists : BOOLEAN, size : 0 .. NPages, svm_bo : {NULL} \cup Bos,
   ttm_res : BOOLEAN, actual_loc : {RAM} \cup Gpus,
   list : {NULL} \cup Bos, pages : 0 .. NPages, home : {NULL} \cup Bos]
BoRecords ==
  [state : {"none", "live", "freed"}, kref : Int, gpu : {0} \cup Gpus,
   evicting : BOOLEAN, signaled : BOOLEAN, pending : BOOLEAN]

\* The references to object b of a range with record x, and of all ranges.
Own(x, b)    == IF x.ttm_res /\ x.svm_bo = b THEN 1 ELSE 0
Held(x, b)   == IF x.home = b THEN x.pages ELSE 0
Users(rs, b) == {r \in Ranges : rs[r].ttm_res /\ rs[r].svm_bo = b}
Frames(rs, b) ==
  {x \in Ranges \X (1 .. NPages) : rs[x[1]].home = b /\ x[2] <= rs[x[1]].pages}
Refs(rs, b)  == Cardinality(Users(rs, b)) + Cardinality(Frames(rs, b))
Others(b)    == leaked[b] + IF wk[b].pc = "idle" THEN 0 ELSE 1
-----------------------------------------------------------------------------
(* The invariant. *)

\* What a range may be.
RangeInv(x) ==
  /\ ~x.exists => x = NoRange
  /\ x.actual_loc = RAM => x.pages = 0
  /\ x.pages > 0 => x.ttm_res \/ x.svm_bo = NULL
  /\ x.list # NULL => x.svm_bo \in {x.list, NULL}

\* What the thread relies on while it holds the migrate_mutex of its range.
Moving ==
  th.pc # "idle" /\ fault # "put" =>
    /\ th.gpu \in Gpus
    /\ mutex[th.range] = "thread"
    /\ rng[th.range].exists /\ rng[th.range].actual_loc = RAM
    /\ th.pc = "copy" => rng[th.range].svm_bo # NULL /\ rng[th.range].ttm_res
    /\ th.pc \in {"wait", "alloc"} => rng[th.range].svm_bo = NULL \/ ~rng[th.range].ttm_res

\* An object lives exactly as long as it has references.
Lives ==
  \A b \in Bos : /\ bo[b].state = "live" => bo[b].kref > 0
                 /\ fault # "put" /\ bo[b].state # "live" => bo[b].kref = 0

\* No reference is missing, and none is too much until one is put that nobody had.
Counted ==
  \A b \in Bos : IF fault = "put" THEN bo[b].state = "live" => bo[b].kref <= Refs(rng, b) + Others(b)
                 ELSE bo[b].kref = Refs(rng, b) + Others(b)

\* Pages are in the object their range uses, unless moving them out failed.
PagesHeld ==
  fault # "put" => \A b \in Bos, r \in Ranges : leaked[b] = 0 /\ Inside(r, b) => rng[r].svm_bo = b

\* Whoever evicts an object has marked it before; the mark stays when the fence has signaled.
Marked ==
  \A b \in Bos : /\ bo[b].pending \/ wk[b].pc # "idle" => bo[b].evicting
                 /\ bo[b].state = "live" /\ bo[b].signaled => bo[b].evicting

\* A range in RAM that still has a reference to an object whose fence has signaled is not on
\* its list, unless it was put there when its worker was done.
Unlisted ==
  \A b \in Bos, r \in Ranges :
    bo[b].signaled /\ rng[r].actual_loc = RAM /\ rng[r].ttm_res /\ rng[r].svm_bo = b
      => rng[r].list = NULL \/ r \in relisted

IInv ==
  /\ BoTypeOK /\ (\A r \in Ranges : RangeInv(rng[r]))
  /\ Moving /\ Lives /\ Counted /\ PagesHeld /\ Marked /\ Unlisted
-----------------------------------------------------------------------------
(* Sets of references and their sizes. *)

LEMMA Sizes == 0 \notin Bos /\ NULL = 0 /\ RAM = 0 /\ RAM \notin Gpus /\ 1 \in Ranges
BY SizesAssumption, GpusAssumption DEF Bos, NULL, RAM, Ranges

LEMMA NoRangeType == NoRange \in RangeRecords /\ RangeInv(NoRange)
BY SizesAssumption DEF NoRange, RangeRecords, RangeInv, NULL, RAM

\* Both sets of references are finite.
LEMMA FiniteRefs ==
  ASSUME NEW rs, NEW b
  PROVE  /\ IsFiniteSet(Users(rs, b)) /\ Cardinality(Users(rs, b)) \in Nat
         /\ IsFiniteSet(Frames(rs, b)) /\ Cardinality(Frames(rs, b)) \in Nat
<1>1. IsFiniteSet(Ranges)
  BY FS_Interval, SizesAssumption DEF Ranges
<1>2. IsFiniteSet(1 .. NPages)
  BY FS_Interval, SizesAssumption
<1>3. IsFiniteSet(Ranges \X (1 .. NPages))
  BY <1>1, <1>2, FS_Product
<1>4. Users(rs, b) \subseteq Ranges /\ Frames(rs, b) \subseteq Ranges \X (1 .. NPages)
  BY DEF Users, Frames
<1>5. IsFiniteSet(Users(rs, b)) /\ IsFiniteSet(Frames(rs, b))
  BY <1>1, <1>3, <1>4, FS_Subset
<1> QED BY <1>5, FS_CardinalityType

\* The users of an object are the other users and the range itself, if it is one.
LEMMA UsersOf ==
  ASSUME NEW rs \in [Ranges -> RangeRecords], NEW r \in Ranges, NEW b
  PROVE  /\ Cardinality(Users(rs, b) \ {r}) \in Nat
         /\ Cardinality(Users(rs, b)) = Cardinality(Users(rs, b) \ {r}) + Own(rs[r], b)
<1>1. IsFiniteSet(Users(rs, b))
  BY FiniteRefs
<1>2. IsFiniteSet(Users(rs, b) \ {r}) /\ Cardinality(Users(rs, b) \ {r}) \in Nat
        /\ Cardinality(Users(rs, b)) \in Nat
  BY <1>1, FS_Subset, FS_CardinalityType
<1>3. CASE r \in Users(rs, b)
  <2>1. Cardinality(Users(rs, b) \ {r}) = Cardinality(Users(rs, b)) - 1
    BY <1>1, <1>3, FS_RemoveElement
  <2>2. Own(rs[r], b) = 1
    BY <1>3 DEF Users, Own
  <2> QED BY <1>2, <2>1, <2>2
<1>4. CASE r \notin Users(rs, b)
  <2>1. Users(rs, b) \ {r} = Users(rs, b)
    BY <1>4
  <2>2. Own(rs[r], b) = 0
    BY <1>4 DEF Users, Own
  <2> QED BY <1>2, <2>1, <2>2
<1> QED BY <1>3, <1>4

OtherFrames(rs, r, b) == {x \in Frames(rs, b) : x[1] # r}

\* The pages in an object are those of the other ranges and of the range itself.
LEMMA FramesOf ==
  ASSUME NEW rs \in [Ranges -> RangeRecords], NEW r \in Ranges, NEW b
  PROVE  /\ Cardinality(OtherFrames(rs, r, b)) \in Nat
         /\ Cardinality(Frames(rs, b)) = Cardinality(OtherFrames(rs, r, b)) + Held(rs[r], b)
<1> DEFINE n    == Held(rs[r], b)
           Mine == {r} \X (1 .. n)
           Rest_ == OtherFrames(rs, r, b)
<1>1. rs[r].pages \in 0 .. NPages /\ n \in Nat /\ n <= NPages
  BY SizesAssumption DEF RangeRecords, Held
<1>2. Frames(rs, b) = Rest_ \cup Mine
  <2>1. \A x \in Frames(rs, b) : x \in Rest_ \/ x \in Mine
    BY <1>1 DEF Frames, OtherFrames, Held
  <2>2. \A x \in Mine : x \in Frames(rs, b)
    BY <1>1, SizesAssumption DEF Frames, Held
  <2> QED BY <2>1, <2>2 DEF OtherFrames
<1>3. Rest_ \cap Mine = {}
  BY DEF OtherFrames
<1>4. IsFiniteSet(Rest_) /\ Cardinality(Rest_) \in Nat
  <2>1. Rest_ \subseteq Frames(rs, b)
    BY DEF OtherFrames
  <2> QED BY <2>1, FiniteRefs, FS_Subset, FS_CardinalityType
<1>5. IsFiniteSet(Mine) /\ Cardinality(Mine) = n
  <2>1. IsFiniteSet({r}) /\ Cardinality({r}) = 1
    BY FS_Singleton
  <2>2. IsFiniteSet(1 .. n) /\ Cardinality(1 .. n) = n
    BY <1>1, FS_Interval
  <2>3. IsFiniteSet(Mine) /\ Cardinality(Mine) = Cardinality({r}) * Cardinality(1 .. n)
    BY <2>1, <2>2, FS_Product
  <2> QED BY <1>1, <2>1, <2>2, <2>3
<1>6. Cardinality(Rest_ \cup Mine) = Cardinality(Rest_) + Cardinality(Mine) - Cardinality(Rest_ \cap Mine)
  BY <1>4, <1>5, FS_Union
<1>7. Cardinality(Rest_ \cap Mine) = 0
  BY <1>3, FS_EmptySet
<1> HIDE DEF n, Mine, Rest_
<1>8. Cardinality(Frames(rs, b)) = Cardinality(Rest_) + n
  BY <1>1, <1>2, <1>4, <1>5, <1>6, <1>7
<1> QED BY <1>4, <1>8 DEF n, Rest_

\* When a range changes its record, the references to an object change by its own.
LEMMA RefsChange ==
  ASSUME NEW rs \in [Ranges -> RangeRecords], NEW r \in Ranges, NEW x \in RangeRecords, NEW b
  PROVE  /\ Refs(rs, b) \in Nat /\ Refs([rs EXCEPT ![r] = x], b) \in Nat
         /\ Refs([rs EXCEPT ![r] = x], b)
              = Refs(rs, b) - Own(rs[r], b) - Held(rs[r], b) + Own(x, b) + Held(x, b)
<1> DEFINE new == [rs EXCEPT ![r] = x]
<1>1. new \in [Ranges -> RangeRecords] /\ new[r] = x
  OBVIOUS
<1>2. Users(new, b) \ {r} = Users(rs, b) \ {r}
  BY DEF Users
<1>3. OtherFrames(new, r, b) = OtherFrames(rs, r, b)
  BY DEF OtherFrames, Frames
<1> HIDE DEF new
<1>4. Cardinality(Users(new, b)) = Cardinality(Users(rs, b) \ {r}) + Own(x, b)
  BY <1>1, <1>2, UsersOf
<1>5. Cardinality(Frames(new, b)) = Cardinality(OtherFrames(rs, r, b)) + Held(x, b)
  BY <1>1, <1>3, FramesOf
<1>6. /\ Cardinality(Users(rs, b)) = Cardinality(Users(rs, b) \ {r}) + Own(rs[r], b)
      /\ Cardinality(Frames(rs, b)) = Cardinality(OtherFrames(rs, r, b)) + Held(rs[r], b)
      /\ Cardinality(Users(rs, b) \ {r}) \in Nat /\ Cardinality(OtherFrames(rs, r, b)) \in Nat
  BY UsersOf, FramesOf
<1>7. Own(x, b) \in Nat /\ Held(x, b) \in Nat /\ Own(rs[r], b) \in Nat /\ Held(rs[r], b) \in Nat
  BY SizesAssumption DEF Own, Held, RangeRecords
<1> QED BY <1>4, <1>5, <1>6, <1>7 DEF Refs, new

\* What one range holds is among the references.
LEMMA RefsAtLeast ==
  ASSUME NEW rs \in [Ranges -> RangeRecords], NEW r \in Ranges, NEW b
  PROVE  /\ Refs(rs, b) \in Nat /\ Own(rs[r], b) \in {0, 1} /\ Held(rs[r], b) \in Nat
         /\ Own(rs[r], b) + Held(rs[r], b) <= Refs(rs, b)
<1>1. /\ Cardinality(Users(rs, b)) = Cardinality(Users(rs, b) \ {r}) + Own(rs[r], b)
      /\ Cardinality(Frames(rs, b)) = Cardinality(OtherFrames(rs, r, b)) + Held(rs[r], b)
      /\ Cardinality(Users(rs, b) \ {r}) \in Nat /\ Cardinality(OtherFrames(rs, r, b)) \in Nat
  BY UsersOf, FramesOf
<1>2. Own(rs[r], b) \in {0, 1} /\ Held(rs[r], b) \in Nat
  BY SizesAssumption DEF Own, Held, RangeRecords
<1> QED BY <1>1, <1>2 DEF Refs

\* The references depend only on who uses an object and on the pages in it.
LEMMA SameRefs ==
  ASSUME NEW rs, NEW rt, NEW b,
         \A q \in Ranges : /\ rs[q].ttm_res /\ rs[q].svm_bo = b <=> rt[q].ttm_res /\ rt[q].svm_bo = b
                           /\ rs[q].home = rt[q].home /\ rs[q].pages = rt[q].pages
  PROVE  Refs(rs, b) = Refs(rt, b)
<1>1. Users(rs, b) = Users(rt, b)
  BY DEF Users
<1>2. Frames(rs, b) = Frames(rt, b)
  BY DEF Frames
<1> QED BY <1>1, <1>2 DEF Refs

LEMMA Types ==
  BoTypeOK <=> /\ rng \in [Ranges -> RangeRecords] /\ bo \in [Bos -> BoRecords]
               /\ wk \in [Bos -> [pc : {"idle", "walk", "lock"}, range : Ranges]]
               /\ th \in [pc : {"idle", "validate", "wait", "alloc", "copy"}, range : Ranges,
                          gpu : {0} \cup Gpus, obj : {NULL} \cup Bos]
               /\ mutex \in [Ranges -> {"free", "thread"}]
               /\ mm \in BOOLEAN /\ leaked \in [Bos -> Nat] /\ relisted \subseteq Ranges
               /\ fault \in {"none", "null", "put", "stale"}
BY Zenon DEF BoTypeOK, RangeRecords, BoRecords
-----------------------------------------------------------------------------
(* A range leaves VRAM. *)

\* A range that forgets a released object.
LEMMA Forgetting ==
  ASSUME NEW x \in RangeRecords, NEW y, y = [x EXCEPT !.list = NULL, !.svm_bo = NULL]
  PROVE  /\ y \in RangeRecords /\ y.exists = x.exists /\ y.actual_loc = x.actual_loc
         /\ y.ttm_res = x.ttm_res /\ y.home = x.home /\ y.pages = x.pages
         /\ y.svm_bo = NULL /\ y.list = NULL
BY DEF RangeRecords

\* An object that is released, or loses references.
LEMMA Putting ==
  ASSUME NEW x \in BoRecords, NEW n \in Int
  PROVE  /\ [x EXCEPT !.state = "freed", !.kref = 0, !.signaled = TRUE, !.pending = FALSE] \in BoRecords
         /\ [x EXCEPT !.kref = x.kref - n] \in BoRecords
<1>1. x.kref - n \in Int /\ 0 \in Int
  BY DEF BoRecords
<1> QED BY <1>1 DEF BoRecords

\* What happens to the records when a range gives up its references: the references of the
\* objects stay exact unless the range put one it did not have, and the ranges that forget a
\* released object had none.
LEMMA Leaving ==
  ASSUME IInv, fault = "none", NEW r \in Ranges, NEW rest \in RangeRecords, RangeInv(rest),
         ~rest.ttm_res, rest.pages = 0, rest.actual_loc = RAM, LeaveVram(r, rest),
         relisted \ {r} \subseteq relisted', leaked' = leaked,
         \A b \in Bos : wk'[b].pc = "idle" <=> wk[b].pc = "idle"
  PROVE  /\ rng' \in [Ranges -> RangeRecords] /\ bo' \in [Bos -> BoRecords]
         /\ fault' \in {"none", "put"}
         /\ rng'[r].exists = rest.exists /\ rng'[r].actual_loc = RAM
         /\ \A q \in Ranges \ {r} :
              /\ rng'[q].exists = rng[q].exists /\ rng'[q].actual_loc = rng[q].actual_loc
              /\ rng'[q].ttm_res = rng[q].ttm_res /\ rng'[q].svm_bo \in {rng[q].svm_bo, NULL}
              /\ fault' # "put" /\ rng[q].ttm_res => rng'[q].svm_bo = rng[q].svm_bo
         /\ \A q \in Ranges : RangeInv(rng'[q])
         /\ Lives' /\ Counted' /\ PagesHeld' /\ Marked' /\ Unlisted' /\ FenceStep
<1> DEFINE P   == Puts(r)
           R   == Released(P)
           mid == [rng EXCEPT ![r] = rest]
<1>1. /\ rng \in [Ranges -> RangeRecords] /\ bo \in [Bos -> BoRecords]
      /\ leaked \in [Bos -> Nat] /\ rng[r] \in RangeRecords
      /\ \A q \in Ranges : RangeInv(rng[q])
  BY Types DEF IInv
<1>2. mid \in [Ranges -> RangeRecords] /\ mid[r] = rest /\ \A q \in Ranges \ {r} : mid[q] = rng[q]
  BY <1>1
<1>3. \A q \in Ranges : mid[q] \in RangeRecords /\ RangeInv(mid[q])
  BY <1>1, <1>2
<1>4. R \subseteq Bos
  BY DEF Released
<1>5. /\ rng' = Forget(mid, R) /\ bo' = Put(P)
      /\ fault' = IF rng[r].svm_bo # NULL /\ ~rng[r].ttm_res THEN "put" ELSE "none"
  BY DEF LeaveVram
<1>6. \A b \in Bos :
        /\ P[b] \in Nat
        /\ P[b] >= Own(rng[r], b) + Held(rng[r], b)
        /\ P[b] <= Own(rng[r], b) + Held(rng[r], b) + 1
        /\ fault' # "put" => P[b] = Own(rng[r], b) + Held(rng[r], b)
  BY <1>1, <1>5, Sizes, SizesAssumption DEF Puts, Own, Held, RangeRecords
<1>7. \A b \in Bos : /\ Refs(rng, b) \in Nat /\ Refs(mid, b) \in Nat
                     /\ Own(rng[r], b) \in Nat /\ Held(rng[r], b) \in Nat
                     /\ Refs(mid, b) = Refs(rng, b) - Own(rng[r], b) - Held(rng[r], b)
  <2> TAKE b \in Bos
  <2>1. Own(rest, b) = 0 /\ Held(rest, b) = 0
    BY DEF Own, Held
  <2> HIDE DEF mid
  <2>2. /\ Refs(rng, b) \in Nat /\ Refs(mid, b) \in Nat
        /\ Refs(mid, b) = Refs(rng, b) - Own(rng[r], b) - Held(rng[r], b) + Own(rest, b) + Held(rest, b)
    BY <1>1, RefsChange DEF mid
  <2>3. Own(rng[r], b) \in {0, 1} /\ Held(rng[r], b) \in Nat
    BY <1>1, RefsAtLeast
  <2> QED BY <2>1, <2>2, <2>3
<1>8. \A b \in Bos : Others(b) \in Nat /\ bo[b].kref = Refs(rng, b) + Others(b) /\ Others(b)' = Others(b)
  BY <1>1 DEF IInv, Counted, Others
<1>9. \A b \in R : /\ Refs(mid, b) + Others(b) <= 1
                   /\ fault' # "put" => Refs(mid, b) = 0 /\ Others(b) = 0
  <2> TAKE b \in R
  <2>1. b \in Bos /\ bo[b].kref <= P[b]
    BY DEF Released
  <2> HIDE DEF P, R, mid
  <2> QED BY <1>6, <1>7, <1>8, <2>1
<1>10. \A q \in Ranges :
         rng'[q] = IF mid[q].list \in R THEN [mid[q] EXCEPT !.list = NULL, !.svm_bo = NULL] ELSE mid[q]
  BY <1>5 DEF Forget
<1>11. \A q \in Ranges :
         /\ rng'[q] \in RangeRecords
         /\ rng'[q].exists = mid[q].exists /\ rng'[q].actual_loc = mid[q].actual_loc
         /\ rng'[q].ttm_res = mid[q].ttm_res /\ rng'[q].home = mid[q].home /\ rng'[q].pages = mid[q].pages
         /\ mid[q].list \in R => rng'[q].svm_bo = NULL /\ rng'[q].list = NULL
         /\ mid[q].list \notin R => rng'[q] = mid[q]
  <2> HIDE DEF mid, R, P
  <2> TAKE q \in Ranges
  <2>1. CASE mid[q].list \in R
    <3>1. rng'[q] = [mid[q] EXCEPT !.list = NULL, !.svm_bo = NULL]
      BY <1>10, <2>1
    <3>2. mid[q] \in RangeRecords
      BY <1>3
    <3>3. /\ rng'[q] \in RangeRecords
          /\ rng'[q].exists = mid[q].exists /\ rng'[q].actual_loc = mid[q].actual_loc
          /\ rng'[q].ttm_res = mid[q].ttm_res /\ rng'[q].home = mid[q].home
          /\ rng'[q].pages = mid[q].pages /\ rng'[q].svm_bo = NULL /\ rng'[q].list = NULL
      BY <3>1, <3>2, Forgetting, Zenon
    <3> QED BY <2>1, <3>3
  <2>2. CASE mid[q].list \notin R
    BY <1>3, <1>10, <2>2
  <2> QED BY <2>1, <2>2
<1>12. rng' \in [Ranges -> RangeRecords]
  <2> HIDE DEF mid, R, P
  <2> DEFINE new(q) == IF mid[q].list \in R THEN [mid[q] EXCEPT !.list = NULL, !.svm_bo = NULL]
                       ELSE mid[q]
  <2>1. rng' = [q \in Ranges |-> new(q)]
    BY <1>5, Zenon DEF Forget
  <2>2. \A q \in Ranges : new(q) \in RangeRecords
    BY <1>10, <1>11
  <2> HIDE DEF new
  <2> QED BY <2>1, <2>2
<1>13. \A q \in Ranges : mid[q].list \in R => mid[q].svm_bo \in {mid[q].list, NULL} /\ mid[q].list # NULL
  BY <1>3, <1>4, Sizes DEF RangeInv
<1>14. \A q \in Ranges : RangeInv(rng'[q])
  <2> TAKE q \in Ranges
  <2>1. CASE mid[q].list \in R
    <3>1. mid[q].exists
      BY <1>3, <1>13, <2>1 DEF RangeInv, NoRange
    <3> QED BY <1>3, <1>11, <2>1, <3>1 DEF RangeInv
  <2>2. CASE mid[q].list \notin R
    BY <1>3, <1>11, <2>2
  <2> QED BY <2>1, <2>2
<1>15. \A b \in Bos : b \notin R \/ fault' # "put" => Refs(rng', b) = Refs(mid, b)
  <2> SUFFICES ASSUME NEW b \in Bos, b \notin R \/ fault' # "put"
               PROVE  Refs(rng', b) = Refs(mid, b)
    OBVIOUS
  <2> HIDE DEF mid, R, P
  <2>1. ASSUME NEW q \in Ranges
        PROVE  rng'[q].ttm_res /\ rng'[q].svm_bo = b <=> mid[q].ttm_res /\ mid[q].svm_bo = b
    <3>1. CASE mid[q].list \notin R
      BY <1>11, <3>1
    <3>2. CASE mid[q].list \in R /\ b \notin R
      BY <1>11, <1>13, <3>2, Sizes
    <3>3. CASE mid[q].list \in R /\ b \in R
      <4>1. Refs(mid, b) = 0
        BY <1>9, <3>3
      <4>2. Own(mid[q], b) = 0
        BY <1>2, <4>1, RefsAtLeast
      <4> QED BY <1>11, <3>3, <4>2, Sizes DEF Own
    <3> QED BY <3>1, <3>2, <3>3
  <2> QED BY <1>11, <2>1, SameRefs
<1>16. \A b \in Bos :
         /\ bo'[b].evicting = bo[b].evicting /\ bo'[b].gpu = bo[b].gpu
         /\ b \in R => bo'[b].state = "freed" /\ bo'[b].kref = 0 /\ bo'[b].signaled /\ ~bo'[b].pending
         /\ b \notin R => /\ bo'[b].state = bo[b].state /\ bo'[b].kref = bo[b].kref - P[b]
                          /\ bo'[b].signaled = bo[b].signaled /\ bo'[b].pending = bo[b].pending
  <2> TAKE b \in Bos
  <2> HIDE DEF P, R
  <2>1. bo'[b] = IF b \in R THEN [bo[b] EXCEPT !.state = "freed", !.kref = 0, !.signaled = TRUE,
                                              !.pending = FALSE]
                 ELSE [bo[b] EXCEPT !.kref = @ - P[b]]
    BY <1>5 DEF Put, R
  <2>2. bo[b] \in BoRecords
    BY <1>1
  <2> QED BY <2>1, <2>2 DEF BoRecords
<1>17. bo' \in [Bos -> BoRecords]
  <2> HIDE DEF P
  <2>1. \A b \in Bos : bo[b] \in BoRecords /\ P[b] \in Int
    BY <1>1, <1>6
  <2> QED BY <1>5, <2>1, Putting DEF Put
<1>18. Lives'
  <2> SUFFICES ASSUME NEW b \in Bos
               PROVE  /\ bo'[b].state = "live" => bo'[b].kref > 0
                      /\ fault' # "put" /\ bo'[b].state # "live" => bo'[b].kref = 0
    BY DEF Lives
  <2>1. CASE b \in R
    BY <1>16, <2>1
  <2>2. CASE b \notin R /\ bo[b].state = "live"
    <3>1. P[b] = 0 \/ bo[b].kref > P[b]
      <4>1. P[b] \in Nat /\ bo[b].kref \in Int
        BY <1>1, <1>6 DEF BoRecords
      <4>2. ~(P[b] > 0 /\ bo[b].kref <= P[b])
        BY <2>2 DEF Released
      <4> HIDE DEF P, R
      <4> QED BY <4>1, <4>2
    <3>2. bo[b].kref > 0 /\ bo[b].kref \in Int
      BY <1>1, <2>2 DEF IInv, Lives, BoRecords
    <3> HIDE DEF P, R, mid
    <3> QED BY <1>6, <1>16, <2>2, <3>1, <3>2
  <2>3. CASE b \notin R /\ bo[b].state # "live"
    <3>1. bo[b].kref = 0
      BY <2>3 DEF IInv, Lives
    <3>2. fault' # "put" => P[b] = 0
      <4> HIDE DEF P, R, mid
      <4> QED BY <1>6, <1>7, <1>8, <3>1
    <3> HIDE DEF P, R, mid
    <3> QED BY <1>16, <2>3, <3>1, <3>2
  <2> QED BY <2>1, <2>2, <2>3
<1>19. Counted'
  <2> HIDE DEF P, R, mid
  <2>1. ASSUME NEW b \in Bos, fault' # "put"
        PROVE  bo'[b].kref = Refs(rng', b) + Others(b)'
    <3>1. CASE b \in R
      BY <1>8, <1>9, <1>15, <1>16, <2>1, <3>1
    <3>2. CASE b \notin R
      BY <1>6, <1>7, <1>8, <1>15, <1>16, <2>1, <3>2
    <3> QED BY <3>1, <3>2
  <2>2. ASSUME NEW b \in Bos, fault' = "put", bo'[b].state = "live"
        PROVE  bo'[b].kref <= Refs(rng', b) + Others(b)'
    <3>1. b \notin R
      BY <1>16, <2>2
    <3> QED BY <1>6, <1>7, <1>8, <1>15, <1>16, <3>1
  <2> QED BY <2>1, <2>2 DEF Counted
<1>20. \A q \in Ranges, b \in Bos :
         Inside(q, b)' => /\ q # r /\ Inside(q, b) /\ mid[q] = rng[q]
                          /\ rng[q].ttm_res \/ rng[q].svm_bo = NULL
  <2> TAKE q \in Ranges, b \in Bos
  <2>1. Inside(q, b)' <=> mid[q].home = b /\ mid[q].pages > 0
    <3> HIDE DEF mid, R
    <3> QED BY <1>11 DEF Inside
  <2>2. q = r => ~Inside(q, b)'
    BY <1>2, <2>1
  <2>3. q # r => mid[q] = rng[q]
    BY <1>2
  <2> HIDE DEF mid
  <2> QED BY <1>1, <2>1, <2>2, <2>3 DEF Inside, RangeInv
<1>21. \A q \in Ranges, b \in R : Inside(q, b)' => rng[q].svm_bo # b
  <2> SUFFICES ASSUME NEW q \in Ranges, NEW b \in R, Inside(q, b)', rng[q].svm_bo = b
               PROVE  FALSE
    OBVIOUS
  <2>1. Inside(q, b) /\ rng[q].ttm_res /\ mid[q] = rng[q]
    <3> HIDE DEF mid, R, P
    <3> QED BY <1>4, <1>20, Sizes
  <2>2. Own(mid[q], b) = 1 /\ Held(mid[q], b) > 0
    <3> HIDE DEF mid
    <3> QED BY <2>1 DEF Own, Held, Inside
  <2>3. Refs(mid, b) <= 1
    <3> HIDE DEF mid, R
    <3> QED BY <1>4, <1>7, <1>8, <1>9
  <2> HIDE DEF mid, R
  <2>4. /\ Refs(mid, b) \in Nat /\ Held(mid[q], b) \in Nat
        /\ Own(mid[q], b) + Held(mid[q], b) <= Refs(mid, b)
    BY <1>2, RefsAtLeast
  <2> QED BY <2>2, <2>3, <2>4
<1>22. PagesHeld'
  <2> SUFFICES ASSUME NEW b \in Bos, NEW q \in Ranges, leaked'[b] = 0, Inside(q, b)'
               PROVE  rng'[q].svm_bo = b
    BY DEF PagesHeld
  <2>1. rng[q].svm_bo = b /\ mid[q] = rng[q]
    BY <1>20 DEF IInv, PagesHeld
  <2> HIDE DEF mid, R, P
  <2>2. mid[q].list \notin R
    BY <1>13, <1>21, <2>1, Sizes
  <2> QED BY <1>11, <2>1, <2>2
<1>23. Marked'
  <2> HIDE DEF R
  <2> QED BY <1>16 DEF IInv, Marked
<1>24. Unlisted'
  <2> SUFFICES ASSUME NEW b \in Bos, NEW q \in Ranges, bo'[b].signaled, rng'[q].actual_loc = RAM,
                      rng'[q].ttm_res, rng'[q].svm_bo = b, rng'[q].list # NULL,
                      q \notin relisted'
               PROVE  FALSE
    BY DEF Unlisted
  <2>1. q # r
    BY <1>2, <1>11
  <2>2. mid[q] = rng[q]
    BY <1>2, <2>1
  <2> HIDE DEF mid, R, P
  <2>3. mid[q].list \notin R /\ rng'[q] = rng[q]
    BY <1>11, <2>2, Sizes
  <2>4. rng[q].list = b
    BY <1>1, <2>3, Sizes DEF RangeInv
  <2>5. bo[b].signaled
    BY <1>16, <2>2, <2>3, <2>4
  <2> QED BY <2>1, <2>3, <2>5 DEF IInv, Unlisted
<1>25. FenceStep
  <2> SUFFICES ASSUME NEW b \in Bos, NEW q \in Ranges, bo'[b].signaled, leaked'[b] = 0,
                      Inside(q, b)', ~(Inside(q, b) /\ bo[b].signaled)
               PROVE  FALSE
    BY DEF FenceStep
  <2>1. Inside(q, b) /\ b \in R
    <3> HIDE DEF mid, R, P
    <3> QED BY <1>16, <1>20
  <2>2. rng[q].svm_bo = b
    BY <2>1 DEF IInv, PagesHeld
  <2> QED BY <1>21, <2>1, <2>2
<1>26. \A q \in Ranges \ {r} :
              /\ rng'[q].exists = rng[q].exists /\ rng'[q].actual_loc = rng[q].actual_loc
              /\ rng'[q].ttm_res = rng[q].ttm_res /\ rng'[q].svm_bo \in {rng[q].svm_bo, NULL}
              /\ fault' # "put" /\ rng[q].ttm_res => rng'[q].svm_bo = rng[q].svm_bo
  <2> TAKE q \in Ranges \ {r}
  <2>1. mid[q] = rng[q]
    BY <1>2
  <2> HIDE DEF mid, R, P
  <2>2. ASSUME fault' # "put", rng[q].ttm_res, mid[q].list \in R
        PROVE  rng[q].svm_bo = NULL
    <3>1. rng[q].svm_bo \in {mid[q].list, NULL}
      BY <1>13, <2>1, <2>2
    <3>2. Refs(mid, mid[q].list) = 0
      BY <1>9, <2>2
    <3>3. Own(mid[q], mid[q].list) = 0
      <4>1. /\ Own(mid[q], mid[q].list) \in {0, 1} /\ Held(mid[q], mid[q].list) \in Nat
            /\ Own(mid[q], mid[q].list) + Held(mid[q], mid[q].list) <= Refs(mid, mid[q].list)
        BY <1>2, RefsAtLeast
      <4> QED BY <3>2, <4>1
    <3> QED BY <2>1, <2>2, <3>1, <3>3 DEF Own
  <2> QED BY <1>11, <2>1, <2>2
<1>27. rng'[r].exists = rest.exists /\ rng'[r].actual_loc = RAM
  BY <1>2, <1>11
<1> QED BY <1>5, <1>12, <1>14, <1>17, <1>18, <1>19, <1>22, <1>23, <1>24, <1>25, <1>26, <1>27
-----------------------------------------------------------------------------
(* One lemma for each action. *)

\* The parts of the invariant that a step can disturb are the ones about what it changes.
LEMMA Facts ==
  ASSUME IInv
  PROVE  /\ rng \in [Ranges -> RangeRecords] /\ bo \in [Bos -> BoRecords]
         /\ wk \in [Bos -> [pc : {"idle", "walk", "lock"}, range : Ranges]]
         /\ th \in [pc : {"idle", "validate", "wait", "alloc", "copy"}, range : Ranges,
                    gpu : {0} \cup Gpus, obj : {NULL} \cup Bos]
         /\ mutex \in [Ranges -> {"free", "thread"}] /\ leaked \in [Bos -> Nat] /\ mm \in BOOLEAN
         /\ relisted \subseteq Ranges
         /\ \A r \in Ranges : rng[r] \in RangeRecords /\ RangeInv(rng[r])
         /\ \A b \in Bos : Refs(rng, b) \in Nat /\ Others(b) \in Nat /\ bo[b].kref \in Int
         /\ fault = "none" => \A b \in Bos : bo[b].kref = Refs(rng, b) + Others(b)
<1>1. /\ rng \in [Ranges -> RangeRecords] /\ bo \in [Bos -> BoRecords]
      /\ leaked \in [Bos -> Nat]
  BY Types DEF IInv
<1>2. \A b \in Bos : Refs(rng, b) \in Nat
  BY <1>1, Sizes, RefsAtLeast
<1>3. \A b \in Bos : Others(b) \in Nat /\ bo[b].kref \in Int
  BY <1>1 DEF Others, BoRecords
<1>4. fault = "none" => \A b \in Bos : bo[b].kref = Refs(rng, b) + Others(b)
  BY DEF IInv, Counted
<1> QED BY <1>1, <1>2, <1>3, <1>4, Types DEF IInv

\* After a fault nothing else has changed.
LEMMA FaultStep ==
  ASSUME IInv, fault = "none", fault' \in {"null", "stale"},
         UNCHANGED <<rng, bo, wk, th, mutex, mm, leaked, relisted>>
  PROVE  IInv' /\ FenceStep
<1>1. BoTypeOK' /\ Moving'
  BY DEF IInv, BoTypeOK, Moving
<1>2. /\ \A q \in Ranges : RangeInv(rng'[q])
      /\ Lives' /\ PagesHeld' /\ Marked' /\ Unlisted'
  BY DEF IInv, Lives, PagesHeld, Inside, Marked, Unlisted
<1>3. Counted'
  BY DEF IInv, Counted, Others
<1>4. FenceStep
  BY DEF FenceStep, Inside
<1> QED BY <1>1, <1>2, <1>3, <1>4 DEF IInv

LEMMA ExitMmStep ==
  ASSUME IInv, fault = "none", exit_mm
  PROVE  IInv' /\ FenceStep
<1>1. UNCHANGED <<rng, bo, wk, th, mutex, leaked, relisted, fault>> /\ mm' \in BOOLEAN
  BY DEF exit_mm
<1>2. BoTypeOK'
  BY <1>1 DEF IInv, BoTypeOK
<1>3. (\A r \in Ranges : RangeInv(rng'[r])) /\ Moving' /\ Lives' /\ PagesHeld' /\ Marked' /\ Unlisted'
  BY <1>1 DEF IInv, Moving, Lives, PagesHeld, Inside, Marked, Unlisted
<1>4. Counted'
  BY <1>1 DEF IInv, Counted, Others
<1>5. FenceStep
  BY <1>1 DEF FenceStep, Inside
<1> QED BY <1>2, <1>3, <1>4, <1>5 DEF IInv

LEMMA ScheduleEvictStep ==
  ASSUME IInv, fault = "none", NEW b \in Bos, schedule_evict_svm_bo(b)
  PROVE  IInv' /\ FenceStep
<1>1. /\ UNCHANGED <<rng, wk, th, mutex, mm, leaked, relisted, fault>>
      /\ bo' = [bo EXCEPT ![b].evicting = TRUE, ![b].pending = TRUE]
  BY DEF schedule_evict_svm_bo
<1>2. bo \in [Bos -> BoRecords]
  BY Facts
<1>3. /\ bo' \in [Bos -> BoRecords]
      /\ \A c \in Bos : /\ bo'[c].state = bo[c].state /\ bo'[c].kref = bo[c].kref
                        /\ bo'[c].signaled = bo[c].signaled
                        /\ c # b => bo'[c] = bo[c]
      /\ bo'[b].evicting
  BY <1>1, <1>2 DEF BoRecords
<1>4. BoTypeOK'
  BY <1>1, <1>3 DEF IInv, BoTypeOK, BoRecords
<1>5. (\A r \in Ranges : RangeInv(rng'[r])) /\ Moving' /\ PagesHeld'
  BY <1>1 DEF IInv, Moving, PagesHeld, Inside
<1>6. Lives' /\ Marked' /\ Unlisted'
  BY <1>1, <1>3 DEF IInv, Lives, Marked, Unlisted
<1>7. Counted'
  BY <1>1, <1>3 DEF IInv, Counted, Others
<1>8. FenceStep
  BY <1>1, <1>3 DEF FenceStep, Inside
<1> QED BY <1>4, <1>5, <1>6, <1>7, <1>8 DEF IInv

LEMMA WorkerBeginStep ==
  ASSUME IInv, fault = "none", NEW b \in Bos, worker_begin(b)
  PROVE  IInv' /\ FenceStep
<1>1. /\ UNCHANGED <<rng, th, mutex, mm, relisted, fault>> /\ bo[b].pending /\ wk[b].pc = "idle"
      /\ bo[b].kref > 0 /\ bo' = [bo EXCEPT ![b].pending = FALSE, ![b].kref = @ + 1]
      /\ \/ wk' = [wk EXCEPT ![b].pc = "walk"] /\ UNCHANGED leaked
         \/ leaked' = [leaked EXCEPT ![b] = @ + 1] /\ UNCHANGED wk
  BY DEF worker_begin
<1>2. /\ bo \in [Bos -> BoRecords] /\ leaked \in [Bos -> Nat]
      /\ wk \in [Bos -> [pc : {"idle", "walk", "lock"}, range : Ranges]]
  BY Facts
<1>3. /\ bo' \in [Bos -> BoRecords]
      /\ \A c \in Bos : /\ bo'[c].state = bo[c].state /\ bo'[c].evicting = bo[c].evicting
                        /\ bo'[c].signaled = bo[c].signaled
                        /\ c # b => bo'[c] = bo[c]
      /\ bo'[b].kref = bo[b].kref + 1
  BY <1>1, <1>2 DEF BoRecords
<1>4. /\ wk' \in [Bos -> [pc : {"idle", "walk", "lock"}, range : Ranges]]
      /\ leaked' \in [Bos -> Nat]
      /\ \A c \in Bos : leaked'[c] >= leaked[c] /\ (c # b => wk'[c] = wk[c] /\ leaked'[c] = leaked[c])
  <2>1. CASE wk' = [wk EXCEPT ![b].pc = "walk"] /\ UNCHANGED leaked
    BY <1>2, <2>1
  <2>2. CASE leaked' = [leaked EXCEPT ![b] = @ + 1] /\ UNCHANGED wk
    BY <1>2, <2>2
  <2> QED BY <1>1, <2>1, <2>2
<1>5. \A c \in Bos : Others(c)' = IF c = b THEN Others(c) + 1 ELSE Others(c)
  <2>1. \A c \in Bos : c # b => Others(c)' = Others(c)
    BY <1>4 DEF Others
  <2>2. Others(b)' = Others(b) + 1
    BY <1>1, <1>2 DEF Others
  <2> QED BY <2>1, <2>2
<1>6. BoTypeOK'
  BY <1>1, <1>3, <1>4 DEF IInv, BoTypeOK, BoRecords
<1>7. (\A r \in Ranges : RangeInv(rng'[r])) /\ Moving'
  BY <1>1 DEF IInv, Moving
<1>8. PagesHeld'
  BY <1>1, <1>2, <1>4 DEF IInv, PagesHeld, Inside
<1>9. Marked' /\ Unlisted'
  BY <1>1, <1>3, <1>4 DEF IInv, Marked, Unlisted
<1>10. Lives'
  BY <1>1, <1>3, Facts DEF IInv, Lives
<1>11. Counted'
  BY <1>1, <1>3, <1>5, Facts DEF Counted
<1>12. FenceStep
  BY <1>1, <1>3 DEF FenceStep, Inside
<1> QED BY <1>6, <1>7, <1>8, <1>9, <1>10, <1>11, <1>12 DEF IInv

LEMMA WorkerTakeStep ==
  ASSUME IInv, fault = "none", NEW b \in Bos, NEW r \in Ranges, worker_take(b, r)
  PROVE  IInv' /\ FenceStep
<1>1. /\ UNCHANGED <<bo, th, mutex, mm, leaked, relisted, fault>> /\ wk[b].pc = "walk" /\ rng[r].list = b
      /\ rng' = [rng EXCEPT ![r].list = NULL]
      /\ wk' = [wk EXCEPT ![b] = [pc |-> "lock", range |-> r]]
  BY DEF worker_take
<1>2. /\ rng \in [Ranges -> RangeRecords]
      /\ wk \in [Bos -> [pc : {"idle", "walk", "lock"}, range : Ranges]]
      /\ \A q \in Ranges : rng[q] \in RangeRecords /\ RangeInv(rng[q])
  BY Facts
<1>3. /\ rng' \in [Ranges -> RangeRecords]
      /\ \A q \in Ranges :
           /\ rng'[q].exists = rng[q].exists /\ rng'[q].svm_bo = rng[q].svm_bo
           /\ rng'[q].ttm_res = rng[q].ttm_res /\ rng'[q].actual_loc = rng[q].actual_loc
           /\ rng'[q].pages = rng[q].pages /\ rng'[q].home = rng[q].home
           /\ q # r => rng'[q] = rng[q]
      /\ rng'[r].list = NULL
  BY <1>1, <1>2 DEF RangeRecords
<1>4. /\ wk' \in [Bos -> [pc : {"idle", "walk", "lock"}, range : Ranges]]
      /\ \A c \in Bos : wk'[c].pc = "idle" <=> wk[c].pc = "idle"
  BY <1>1, <1>2
<1>5. BoTypeOK'
  BY <1>1, <1>3, <1>4 DEF IInv, BoTypeOK, RangeRecords
<1>6. \A q \in Ranges : RangeInv(rng'[q])
  <2>1. rng[r].exists
    BY <1>1, <1>2, Sizes DEF RangeInv, NoRange
  <2>2. RangeInv(rng'[r])
    BY <1>2, <1>3, <2>1 DEF RangeInv
  <2> QED BY <1>2, <1>3, <2>2
<1>7. Moving'
  BY <1>1, <1>3, Facts DEF IInv, Moving
<1>8. PagesHeld' /\ Unlisted'
  BY <1>1, <1>3 DEF IInv, PagesHeld, Inside, Unlisted
<1>9. Lives' /\ Marked'
  BY <1>1, <1>4 DEF IInv, Lives, Marked
<1>10. Counted'
  <2>1. \A c \in Bos : Refs(rng', c) = Refs(rng, c)
    BY <1>3, SameRefs
  <2>2. \A c \in Bos : Others(c)' = Others(c)
    BY <1>1, <1>4 DEF Others
  <2> QED BY <1>1, <2>1, <2>2 DEF IInv, Counted
<1>11. FenceStep
  BY <1>1, <1>3 DEF FenceStep, Inside
<1> QED BY <1>5, <1>6, <1>7, <1>8, <1>9, <1>10, <1>11 DEF IInv

\* An object whose fence signals.
LEMMA Ending ==
  ASSUME NEW x \in BoRecords, NEW y
  PROVE  /\ y = [x EXCEPT !.state = "freed", !.kref = 0, !.signaled = TRUE]
              => /\ y \in BoRecords /\ y.evicting = x.evicting /\ y.kref = 0
                 /\ y.signaled /\ y.state = "freed"
         /\ y = [x EXCEPT !.kref = x.kref - 1, !.signaled = TRUE]
              => /\ y \in BoRecords /\ y.evicting = x.evicting /\ y.kref = x.kref - 1
                 /\ y.signaled /\ y.state = x.state
<1>1. x.kref - 1 \in Int
  BY DEF BoRecords
<1>2. ASSUME y = [x EXCEPT !.state = "freed", !.kref = 0, !.signaled = TRUE]
      PROVE  /\ y \in BoRecords /\ y.evicting = x.evicting /\ y.kref = 0
             /\ y.signaled = TRUE /\ y.state = "freed"
  <2>1. y = [state |-> "freed", kref |-> 0, gpu |-> x.gpu, evicting |-> x.evicting,
             signaled |-> TRUE, pending |-> x.pending]
    BY <1>2 DEF BoRecords
  <2> QED BY <2>1 DEF BoRecords
<1>3. ASSUME y = [x EXCEPT !.kref = x.kref - 1, !.signaled = TRUE]
      PROVE  /\ y \in BoRecords /\ y.evicting = x.evicting /\ y.kref = x.kref - 1
             /\ y.signaled = TRUE /\ y.state = x.state
  BY <1>1, <1>3 DEF BoRecords
<1> QED BY <1>2, <1>3

LEMMA WorkerEndStep ==
  ASSUME IInv, fault = "none", NEW b \in Bos, worker_end(b)
  PROVE  IInv' /\ FenceStep
<1>1. /\ UNCHANGED <<rng, th, mutex, mm, leaked, relisted, fault>> /\ wk[b].pc = "walk"
      /\ \A r \in Ranges : rng[r].list # b
      /\ bo' = IF bo[b].kref = 1
               THEN [bo EXCEPT ![b] = [@ EXCEPT !.state = "freed", !.kref = 0, !.signaled = TRUE]]
               ELSE [bo EXCEPT ![b].kref = @ - 1, ![b].signaled = TRUE]
      /\ wk' = [wk EXCEPT ![b].pc = "idle"]
  BY DEF worker_end
<1>2. /\ bo \in [Bos -> BoRecords] /\ leaked \in [Bos -> Nat]
      /\ wk \in [Bos -> [pc : {"idle", "walk", "lock"}, range : Ranges]]
      /\ \A q \in Ranges : rng[q] \in RangeRecords /\ RangeInv(rng[q])
  BY Facts
<1>3. /\ bo' \in [Bos -> BoRecords]
      /\ \A c \in Bos : /\ bo'[c].evicting = bo[c].evicting
                        /\ c # b => bo'[c] = bo[c]
      /\ bo'[b].kref = bo[b].kref - 1 /\ bo'[b].signaled
      /\ bo'[b].state = IF bo[b].kref = 1 THEN "freed" ELSE bo[b].state
  <2> DEFINE y == IF bo[b].kref = 1
                  THEN [bo[b] EXCEPT !.state = "freed", !.kref = 0, !.signaled = TRUE]
                  ELSE [bo[b] EXCEPT !.kref = bo[b].kref - 1, !.signaled = TRUE]
  <2>1. bo' = [bo EXCEPT ![b] = y]
    BY <1>1, <1>2
  <2>2. bo[b] \in BoRecords /\ bo[b].kref \in Int
    BY <1>2 DEF BoRecords
  <2>3. CASE bo[b].kref = 1
    <3>1. y = [bo[b] EXCEPT !.state = "freed", !.kref = 0, !.signaled = TRUE]
      BY <2>3
    <3> HIDE DEF y
    <3>2. /\ y \in BoRecords /\ y.evicting = bo[b].evicting /\ y.kref = 0
          /\ y.signaled /\ y.state = "freed"
      BY <2>2, <3>1, Ending
    <3> QED BY <1>2, <2>1, <2>3, <3>2
  <2>4. CASE bo[b].kref # 1
    <3>1. y = [bo[b] EXCEPT !.kref = bo[b].kref - 1, !.signaled = TRUE]
      BY <2>4
    <3> HIDE DEF y
    <3>2. /\ y \in BoRecords /\ y.evicting = bo[b].evicting /\ y.kref = bo[b].kref - 1
          /\ y.signaled /\ y.state = bo[b].state
      BY <2>2, <3>1, Ending
    <3> QED BY <1>2, <2>1, <2>4, <3>2
  <2> QED BY <2>3, <2>4
<1>4. /\ wk' \in [Bos -> [pc : {"idle", "walk", "lock"}, range : Ranges]]
      /\ wk'[b].pc = "idle" /\ \A c \in Bos : c # b => wk'[c] = wk[c]
  BY <1>1, <1>2
<1>5. \A c \in Bos : Others(c)' = IF c = b THEN Others(c) - 1 ELSE Others(c)
  <2>1. \A c \in Bos : c # b => Others(c)' = Others(c)
    BY <1>1, <1>4 DEF Others
  <2>2. Others(b)' = Others(b) - 1
    BY <1>1, <1>2, <1>4 DEF Others
  <2> QED BY <2>1, <2>2
<1>6. BoTypeOK'
  BY <1>1, <1>3, <1>4 DEF IInv, BoTypeOK, BoRecords
<1>7. (\A r \in Ranges : RangeInv(rng'[r])) /\ Moving' /\ PagesHeld'
  BY <1>1 DEF IInv, Moving, PagesHeld, Inside
<1>8. bo[b].kref >= 1 /\ bo[b].state = "live" /\ bo[b].evicting
  <2>1. Others(b) >= 1
    BY <1>1, <1>2 DEF Others
  <2>2. bo[b].kref >= 1
    <3>1. Refs(rng, b) \in Nat /\ Others(b) \in Nat /\ bo[b].kref = Refs(rng, b) + Others(b)
      BY Facts
    <3> QED BY <2>1, <3>1
  <2>3. bo[b].state # "live" => bo[b].kref = 0
    BY DEF IInv, Lives
  <2> QED BY <1>1, <2>2, <2>3 DEF IInv, Marked
<1>9. Lives'
  <2>1. \A c \in Bos : c # b => bo'[c] = bo[c]
    BY <1>3
  <2>2. bo'[b].state = "live" => bo'[b].kref > 0
    BY <1>3, <1>8, Facts
  <2>3. bo'[b].state # "live" => bo'[b].kref = 0
    BY <1>3, <1>8, Facts
  <2> QED BY <1>1, <2>1, <2>2, <2>3 DEF IInv, Lives
<1>10. Marked'
  BY <1>1, <1>3, <1>4, <1>8 DEF IInv, Marked
<1>11. Unlisted'
  BY <1>1, <1>2, <1>3, Sizes DEF IInv, Unlisted, RangeInv
<1>12. Counted'
  BY <1>1, <1>3, <1>5, Facts DEF Counted
<1>13. FenceStep
  <2> SUFFICES ASSUME NEW c \in Bos, NEW r \in Ranges, bo'[c].signaled, leaked'[c] = 0,
                      Inside(r, c)', ~(Inside(r, c) /\ bo[c].signaled)
               PROVE  rng'[r].svm_bo = c /\ rng'[r].list = NULL
    BY DEF FenceStep
  <2>1. c = b /\ Inside(r, b)
    BY <1>1, <1>3 DEF Inside
  <2>2. rng[r].svm_bo = b
    BY <1>1, <2>1 DEF IInv, PagesHeld
  <2> QED BY <1>1, <1>2, <2>1, <2>2, Sizes DEF RangeInv
<1> QED BY <1>6, <1>7, <1>9, <1>10, <1>11, <1>12, <1>13 DEF IInv

\* A range that is emptied, and keeps or forgets its object.
LEMMA Emptying ==
  ASSUME NEW z \in RangeRecords, NEW y, NEW x,
         y = [z EXCEPT !.ttm_res = FALSE, !.actual_loc = RAM, !.pages = 0, !.home = NULL],
         x = y \/ x = [y EXCEPT !.svm_bo = NULL]
  PROVE  /\ x \in RangeRecords /\ x.exists = z.exists /\ x.ttm_res = FALSE /\ x.pages = 0
         /\ x.actual_loc = RAM /\ x.list = z.list /\ x.svm_bo \in {z.svm_bo, NULL}
<1>1. y = [exists |-> z.exists, size |-> z.size, svm_bo |-> z.svm_bo, ttm_res |-> FALSE,
           actual_loc |-> RAM, list |-> z.list, pages |-> 0, home |-> NULL]
  BY DEF RangeRecords
<1>2. PICK s \in {z.svm_bo, NULL} :
        x = [exists |-> z.exists, size |-> z.size, svm_bo |-> s, ttm_res |-> FALSE,
             actual_loc |-> RAM, list |-> z.list, pages |-> 0, home |-> NULL]
  BY <1>1
<1>3. 0 \in 0 .. NPages
  BY SizesAssumption
<1> QED BY <1>2, <1>3 DEF RangeRecords

LEMMA InRamFits ==
  ASSUME IInv, NEW r \in Ranges, rng[r].exists, NEW x,
         x = InRam(r) \/ x = [InRam(r) EXCEPT !.svm_bo = NULL]
  PROVE  /\ x \in RangeRecords /\ RangeInv(x) /\ ~x.ttm_res /\ x.pages = 0
         /\ x.actual_loc = RAM /\ x.exists
<1>1. rng[r] \in RangeRecords /\ RangeInv(rng[r])
  BY Facts
<1>2. InRam(r) = [rng[r] EXCEPT !.ttm_res = FALSE, !.actual_loc = RAM, !.pages = 0, !.home = NULL]
  BY DEF InRam
<1>3. /\ x \in RangeRecords /\ x.exists = rng[r].exists /\ x.ttm_res = FALSE /\ x.pages = 0
      /\ x.actual_loc = RAM /\ x.list = rng[r].list /\ x.svm_bo \in {rng[r].svm_bo, NULL}
  BY <1>1, <1>2, Emptying, Zenon
<1> QED BY <1>1, <1>3 DEF RangeInv

LEMMA ToRamStep ==
  ASSUME IInv, fault = "none", NEW r \in Ranges, to_ram(r)
  PROVE  IInv' /\ FenceStep
<1>1. /\ UNCHANGED <<wk, th, mutex, mm, leaked, relisted>> /\ th.pc = "idle" /\ rng[r].exists
      /\ LeaveVram(r, InRam(r))
  BY DEF to_ram, MoveOut
<1>2. /\ InRam(r) \in RangeRecords /\ RangeInv(InRam(r)) /\ ~InRam(r).ttm_res
      /\ InRam(r).pages = 0 /\ InRam(r).actual_loc = RAM
  BY <1>1, InRamFits
<1>3. /\ rng' \in [Ranges -> RangeRecords] /\ bo' \in [Bos -> BoRecords]
      /\ fault' \in {"none", "put"}
      /\ \A q \in Ranges : RangeInv(rng'[q])
      /\ Lives' /\ Counted' /\ PagesHeld' /\ Marked' /\ Unlisted' /\ FenceStep
  BY <1>1, <1>2, Leaving
<1>4. BoTypeOK'
  BY <1>1, <1>3 DEF IInv, BoTypeOK, RangeRecords, BoRecords
<1>5. Moving'
  BY <1>1 DEF Moving
<1> QED BY <1>3, <1>4, <1>5 DEF IInv

LEMMA FreeStep ==
  ASSUME IInv, fault = "none", NEW r \in Ranges, free(r)
  PROVE  IInv' /\ FenceStep
<1>1. UNCHANGED <<wk, th, mutex, mm, leaked>> /\ th.pc = "idle"
  BY DEF free
<1>2. CASE fault' = "stale" /\ UNCHANGED <<rng, bo, relisted>>
  BY <1>1, <1>2, FaultStep
<1>3. CASE LeaveVram(r, NoRange) /\ relisted' = relisted \ {r}
  <2>1. /\ NoRange \in RangeRecords /\ RangeInv(NoRange) /\ ~NoRange.ttm_res
        /\ NoRange.pages = 0 /\ NoRange.actual_loc = RAM
    BY NoRangeType DEF NoRange
  <2>2. /\ rng' \in [Ranges -> RangeRecords] /\ bo' \in [Bos -> BoRecords]
        /\ fault' \in {"none", "put"}
        /\ \A q \in Ranges : RangeInv(rng'[q])
        /\ Lives' /\ Counted' /\ PagesHeld' /\ Marked' /\ Unlisted' /\ FenceStep
    BY <1>1, <1>3, <2>1, Leaving
  <2>3. BoTypeOK'
    BY <1>1, <1>3, <2>2 DEF IInv, BoTypeOK, RangeRecords, BoRecords
  <2>4. Moving'
    BY <1>1 DEF Moving
  <2> QED BY <2>2, <2>3, <2>4 DEF IInv
<1> QED BY <1>2, <1>3 DEF free

LEMMA ToVramBeginStep ==
  ASSUME IInv, fault = "none", NEW r \in Ranges, NEW g \in Gpus, to_vram_begin(r, g)
  PROVE  IInv' /\ FenceStep
<1>1. /\ UNCHANGED <<wk, mm, leaked, relisted>> /\ rng[r].exists
      /\ th' = [pc |-> "validate", range |-> r, gpu |-> g, obj |-> NULL]
      /\ mutex' = [mutex EXCEPT ![r] = "thread"]
      /\ \/ rng[r].actual_loc # RAM /\ LeaveVram(r, InRam(r))
         \/ rng[r].actual_loc = RAM /\ UNCHANGED <<rng, bo, fault>>
  BY DEF to_vram_begin, MoveOut
<1>2. mutex' \in [Ranges -> {"free", "thread"}] /\ mutex'[r] = "thread"
  BY <1>1, Facts
<1>3. CASE rng[r].actual_loc = RAM /\ UNCHANGED <<rng, bo, fault>>
  <2>1. BoTypeOK'
    BY <1>1, <1>2, <1>3 DEF IInv, BoTypeOK
  <2>2. Moving'
    BY <1>1, <1>2, <1>3 DEF Moving
  <2>3. (\A q \in Ranges : RangeInv(rng'[q])) /\ Lives' /\ PagesHeld' /\ Marked' /\ Unlisted'
    BY <1>1, <1>3 DEF IInv, Lives, PagesHeld, Inside, Marked, Unlisted
  <2>4. Counted'
    BY <1>1, <1>3 DEF IInv, Counted, Others
  <2>5. FenceStep
    BY <1>3 DEF FenceStep, Inside
  <2> QED BY <2>1, <2>2, <2>3, <2>4, <2>5 DEF IInv
<1>4. CASE rng[r].actual_loc # RAM /\ LeaveVram(r, InRam(r))
  <2>1. /\ InRam(r) \in RangeRecords /\ RangeInv(InRam(r)) /\ ~InRam(r).ttm_res
        /\ InRam(r).pages = 0 /\ InRam(r).actual_loc = RAM /\ InRam(r).exists
    BY <1>1, InRamFits
  <2>2. /\ rng' \in [Ranges -> RangeRecords] /\ bo' \in [Bos -> BoRecords]
        /\ fault' \in {"none", "put"}
        /\ rng'[r].exists = InRam(r).exists /\ rng'[r].actual_loc = RAM
        /\ \A q \in Ranges : RangeInv(rng'[q])
        /\ Lives' /\ Counted' /\ PagesHeld' /\ Marked' /\ Unlisted' /\ FenceStep
    BY <1>1, <1>4, <2>1, Leaving
  <2>3. BoTypeOK'
    BY <1>1, <1>2, <2>2 DEF IInv, BoTypeOK, RangeRecords, BoRecords
  <2>4. Moving'
    BY <1>1, <1>2, <2>1, <2>2 DEF Moving
  <2> QED BY <2>2, <2>3, <2>4 DEF IInv
<1> QED BY <1>1, <1>3, <1>4

LEMMA WorkerMoveStep ==
  ASSUME IInv, fault = "none", NEW b \in Bos, NEW ok \in BOOLEAN, worker_move(b, ok)
  PROVE  IInv' /\ FenceStep
<1> DEFINE r == wk[b].range
           c == rng[r].svm_bo
<1>1. /\ UNCHANGED <<th, mutex, mm, relisted>> /\ wk[b].pc = "lock" /\ mutex[r] = "free"
      /\ wk' = [wk EXCEPT ![b].pc = "walk"]
      /\ \/ /\ rng[r].actual_loc # RAM /\ leaked' = leaked
            /\ LeaveVram(r, [InRam(r) EXCEPT !.svm_bo = NULL])
         \/ /\ rng' = [rng EXCEPT ![r].svm_bo = NULL] /\ UNCHANGED <<bo, fault>>
            /\ leaked' = IF rng[r].ttm_res /\ c # NULL THEN [leaked EXCEPT ![c] = @ + 1] ELSE leaked
  BY DEF worker_move
<1>2. r \in Ranges
  BY Facts
<1>3. /\ wk' \in [Bos -> [pc : {"idle", "walk", "lock"}, range : Ranges]]
      /\ \A d \in Bos : wk'[d].pc = "idle" <=> wk[d].pc = "idle"
  BY <1>1, Facts
<1>4. th.pc # "idle" => th.range # r /\ th.range \in Ranges
  BY <1>1, Facts DEF IInv, Moving
<1> HIDE DEF r
<1>5. CASE rng[r].actual_loc # RAM /\ leaked' = leaked
           /\ LeaveVram(r, [InRam(r) EXCEPT !.svm_bo = NULL])
  <2> DEFINE x == [InRam(r) EXCEPT !.svm_bo = NULL]
  <2>1. rng[r].exists
    BY <1>2, <1>5, Facts DEF RangeInv, NoRange
  <2> HIDE DEF c
  <2>2. /\ x \in RangeRecords /\ RangeInv(x) /\ ~x.ttm_res /\ x.pages = 0 /\ x.actual_loc = RAM
        /\ LeaveVram(r, x)
    BY <1>2, <1>5, <2>1, InRamFits
  <2> HIDE DEF x
  <2>3. /\ rng' \in [Ranges -> RangeRecords] /\ bo' \in [Bos -> BoRecords]
        /\ fault' \in {"none", "put"}
        /\ \A q \in Ranges \ {r} :
              /\ rng'[q].exists = rng[q].exists /\ rng'[q].actual_loc = rng[q].actual_loc
              /\ rng'[q].ttm_res = rng[q].ttm_res /\ rng'[q].svm_bo \in {rng[q].svm_bo, NULL}
              /\ fault' # "put" /\ rng[q].ttm_res => rng'[q].svm_bo = rng[q].svm_bo
        /\ \A q \in Ranges : RangeInv(rng'[q])
        /\ Lives' /\ Counted' /\ PagesHeld' /\ Marked' /\ Unlisted' /\ FenceStep
    BY <1>1, <1>2, <1>3, <1>5, <2>2, Leaving
  <2>4. BoTypeOK'
    BY <1>1, <1>3, <1>5, <2>3 DEF IInv, BoTypeOK, RangeRecords, BoRecords
  <2>5. Moving'
    BY <1>1, <1>4, <2>3 DEF IInv, Moving
  <2> QED BY <2>3, <2>4, <2>5 DEF IInv
<1>6. CASE /\ rng' = [rng EXCEPT ![r].svm_bo = NULL] /\ UNCHANGED <<bo, fault>>
           /\ leaked' = IF rng[r].ttm_res /\ c # NULL THEN [leaked EXCEPT ![c] = @ + 1] ELSE leaked
  <2> DEFINE x == [rng[r] EXCEPT !.svm_bo = NULL]
  <2>1. rng[r] \in RangeRecords /\ RangeInv(rng[r]) /\ rng \in [Ranges -> RangeRecords]
    BY <1>2, Facts
  <2>2. /\ x \in RangeRecords /\ x.svm_bo = NULL
        /\ x.exists = rng[r].exists /\ x.ttm_res = rng[r].ttm_res /\ x.list = rng[r].list
        /\ x.actual_loc = rng[r].actual_loc /\ x.pages = rng[r].pages /\ x.home = rng[r].home
    BY <2>1 DEF RangeRecords
  <2>3. RangeInv(x)
    <3>1. ~rng[r].exists => x = NoRange
      BY <2>1 DEF RangeInv, NoRange
    <3> QED BY <2>1, <2>2, <3>1 DEF RangeInv
  <2>4. rng' = [rng EXCEPT ![r] = x]
    BY <1>6
  <2> HIDE DEF x
  <2>5. /\ rng' \in [Ranges -> RangeRecords] /\ rng'[r] = x
        /\ \A q \in Ranges \ {r} : rng'[q] = rng[q]
    BY <1>2, <2>1, <2>2, <2>4
  <2>6. c \in {NULL} \cup Bos
    BY <2>1 DEF RangeRecords
  <2>7. leaked \in [Bos -> Nat]
    BY Facts
  <2>8. /\ leaked' \in [Bos -> Nat]
        /\ \A d \in Bos : leaked'[d] = leaked[d] + Own(rng[r], d)
    <3>1. CASE rng[r].ttm_res /\ c # NULL
      <4>1. leaked' = [leaked EXCEPT ![c] = @ + 1] /\ c \in Bos
        BY <1>6, <2>6, <3>1
      <4>2. \A d \in Bos : Own(rng[r], d) = IF d = c THEN 1 ELSE 0
        BY <3>1 DEF Own
      <4> HIDE DEF c
      <4> QED BY <2>7, <4>1, <4>2
    <3>2. CASE ~(rng[r].ttm_res /\ c # NULL)
      <4>1. leaked' = leaked
        BY <1>6, <3>2
      <4>2. \A d \in Bos : Own(rng[r], d) = 0
        BY <3>2, Sizes DEF Own
      <4> QED BY <2>7, <4>1, <4>2
    <3> QED BY <3>1, <3>2
  <2>9. BoTypeOK'
    BY <1>1, <1>3, <1>6, <2>5, <2>8 DEF IInv, BoTypeOK, RangeRecords
  <2>10. \A q \in Ranges : RangeInv(rng'[q])
    BY <2>3, <2>5, Facts
  <2>11. Moving'
    BY <1>1, <1>4, <1>6, <2>5 DEF IInv, Moving
  <2>12. Lives' /\ Marked'
    BY <1>3, <1>6 DEF IInv, Lives, Marked
  <2>13. Unlisted'
    BY <1>1, <1>6, <2>2, <2>5, Sizes DEF IInv, Unlisted
  <2>14. Counted'
    <3>1. ASSUME NEW d \in Bos
          PROVE  /\ Refs(rng', d) = Refs(rng, d) - Own(rng[r], d)
                 /\ Own(rng[r], d) \in {0, 1} /\ Refs(rng, d) \in Nat
      <4>1. Refs(rng', d) = Refs(rng, d) - Own(rng[r], d) - Held(rng[r], d) + Own(x, d) + Held(x, d)
        BY <1>2, <2>1, <2>2, <2>4, RefsChange
      <4>2. Held(x, d) = Held(rng[r], d) /\ Own(x, d) = 0
        BY <2>2, Sizes DEF Held, Own
      <4>3. /\ Own(rng[r], d) \in {0, 1} /\ Held(rng[r], d) \in Nat
            /\ Refs(rng, d) \in Nat
        BY <1>2, <2>1, RefsAtLeast
      <4> QED BY <4>1, <4>2, <4>3
    <3>2. \A d \in Bos : Others(d)' = Others(d) + Own(rng[r], d)
      BY <1>3, <2>7, <2>8, <3>1 DEF Others
    <3>3. \A d \in Bos : bo[d].kref = Refs(rng, d) + Others(d) /\ Others(d) \in Nat
      BY Facts
    <3>4. \A d \in Bos : bo'[d].kref = Refs(rng', d) + Others(d)'
      <4> TAKE d \in Bos
      <4>1. bo'[d].kref = Refs(rng, d) + Others(d)
        BY <1>6, <3>3
      <4>2. Refs(rng', d) = Refs(rng, d) - Own(rng[r], d) /\ Own(rng[r], d) \in {0, 1} /\ Refs(rng, d) \in Nat
        BY <3>1
      <4>3. Others(d)' = Others(d) + Own(rng[r], d) /\ Others(d) \in Nat
        BY <3>2, <3>3
      <4> QED BY <4>1, <4>2, <4>3
    <3> QED BY <1>6, <3>4 DEF Counted
  <2>15. PagesHeld'
    <3> SUFFICES ASSUME NEW d \in Bos, NEW q \in Ranges, leaked'[d] = 0, Inside(q, d)'
                 PROVE  rng'[q].svm_bo = d
      BY DEF PagesHeld
    <3>1. leaked[d] = 0 /\ Own(rng[r], d) = 0
      <4>1. leaked[d] \in Nat /\ Own(rng[r], d) \in {0, 1} /\ leaked'[d] = leaked[d] + Own(rng[r], d)
        BY <2>7, <2>8 DEF Own
      <4> QED BY <4>1
    <3>2. Inside(q, d)
      BY <1>2, <2>2, <2>5 DEF Inside
    <3>3. rng[q].svm_bo = d
      BY <3>1, <3>2 DEF IInv, PagesHeld
    <3>4. rng[q].ttm_res
      BY <3>2, <3>3, Sizes, Facts DEF RangeInv, Inside
    <3>5. q # r
      BY <3>1, <3>3, <3>4 DEF Own
    <3> QED BY <2>5, <3>3, <3>5
  <2>16. FenceStep
    BY <1>6, <2>2, <2>5 DEF FenceStep, Inside
  <2> QED BY <1>6, <2>9, <2>10, <2>11, <2>12, <2>13, <2>14, <2>15, <2>16 DEF IInv
<1> QED BY <1>1, <1>5, <1>6

\* The thread goes on and nothing else changes.
LEMMA ThreadOnly ==
  ASSUME IInv, fault = "none", UNCHANGED <<rng, bo, wk, leaked, relisted, fault>>
  PROVE  /\ \A q \in Ranges : RangeInv(rng'[q])
         /\ Lives' /\ Counted' /\ PagesHeld' /\ Marked' /\ Unlisted' /\ FenceStep
<1>1. (\A q \in Ranges : RangeInv(rng'[q])) /\ Lives' /\ PagesHeld' /\ Marked' /\ Unlisted'
  BY DEF IInv, Lives, PagesHeld, Inside, Marked, Unlisted
<1>2. Counted'
  BY DEF IInv, Counted, Others
<1>3. FenceStep
  BY DEF FenceStep, Inside
<1> QED BY <1>1, <1>2, <1>3

\* The references when a range with record x becomes one with record y.
Balance(x, y) ==
  \A d \in Bos :
    /\ Refs(rng', d) = Refs(rng, d) - Own(x, d) - Held(x, d) + Own(y, d) + Held(y, d)
    /\ Refs(rng, d) \in Nat /\ Own(x, d) \in {0, 1} /\ Held(x, d) \in Nat
    /\ Own(x, d) + Held(x, d) <= Refs(rng, d)
    /\ Others(d)' = Others(d) /\ Others(d) \in Nat
    /\ bo[d].kref = Refs(rng, d) + Others(d)

\* One range changes its record.
LEMMA OneRange ==
  ASSUME IInv, fault = "none", NEW r \in Ranges, NEW x \in RangeRecords, RangeInv(x),
         rng' = [rng EXCEPT ![r] = x], wk' = wk, leaked' = leaked
  PROVE  /\ rng' \in [Ranges -> RangeRecords] /\ rng'[r] = x
         /\ \A q \in Ranges \ {r} : rng'[q] = rng[q]
         /\ \A q \in Ranges : RangeInv(rng'[q])
         /\ Balance(rng[r], x)
<1>1. rng \in [Ranges -> RangeRecords] /\ \A q \in Ranges : RangeInv(rng[q])
  BY Facts
<1>2. /\ rng' \in [Ranges -> RangeRecords] /\ rng'[r] = x
      /\ \A q \in Ranges \ {r} : rng'[q] = rng[q]
  BY <1>1
<1>3. \A q \in Ranges : RangeInv(rng'[q])
  BY <1>1, <1>2
<1>4. ASSUME NEW d \in Bos
      PROVE  /\ Refs(rng', d) = Refs(rng, d) - Own(rng[r], d) - Held(rng[r], d) + Own(x, d) + Held(x, d)
             /\ Refs(rng, d) \in Nat /\ Own(rng[r], d) \in {0, 1} /\ Held(rng[r], d) \in Nat
             /\ Own(rng[r], d) + Held(rng[r], d) <= Refs(rng, d)
  <2>1. Refs([rng EXCEPT ![r] = x], d)
          = Refs(rng, d) - Own(rng[r], d) - Held(rng[r], d) + Own(x, d) + Held(x, d)
    BY <1>1, RefsChange
  <2> QED BY <1>1, <2>1, RefsAtLeast
<1>5. \A d \in Bos : /\ Others(d)' = Others(d) /\ Others(d) \in Nat
                     /\ bo[d].kref = Refs(rng, d) + Others(d)
  <2>1. \A d \in Bos : Others(d)' = Others(d)
    BY DEF Others
  <2> QED BY <2>1, Facts
<1> QED BY <1>2, <1>3, <1>4, <1>5 DEF Balance

\* A record that holds the same references.
LEMMA SameBalance ==
  ASSUME NEW x, NEW y, Balance(x, y), bo' = bo, fault' = fault, fault = "none",
         \A d \in Bos : Own(y, d) = Own(x, d) /\ Held(y, d) = Held(x, d)
  PROVE  Counted'
<1>1. \A d \in Bos : bo'[d].kref = Refs(rng', d) + Others(d)'
  <2> TAKE d \in Bos
  <2>1. /\ Refs(rng', d) = Refs(rng, d) - Own(x, d) - Held(x, d) + Own(x, d) + Held(x, d)
        /\ Refs(rng, d) \in Nat /\ Own(x, d) \in {0, 1} /\ Held(x, d) \in Nat
        /\ Others(d)' = Others(d) /\ bo'[d].kref = Refs(rng, d) + Others(d)
    BY DEF Balance
  <2> QED BY <2>1
<1> QED BY <1>1 DEF Counted

\* What the thread knows of the range whose migrate_mutex it holds.
LEMMA ThreadFacts ==
  ASSUME IInv, fault = "none", th.pc # "idle"
  PROVE  /\ th.range \in Ranges /\ th.gpu \in Gpus /\ th.gpu # RAM
         /\ rng[th.range] \in RangeRecords /\ RangeInv(rng[th.range])
         /\ rng[th.range].exists /\ rng[th.range].actual_loc = RAM /\ rng[th.range].pages = 0
         /\ mutex[th.range] = "thread"
         /\ th.pc = "copy" => rng[th.range].svm_bo \in Bos /\ rng[th.range].ttm_res
         /\ th.pc \in {"wait", "alloc"} => rng[th.range].svm_bo = NULL \/ ~rng[th.range].ttm_res
<1>1. /\ th.gpu \in Gpus /\ mutex[th.range] = "thread"
      /\ rng[th.range].exists /\ rng[th.range].actual_loc = RAM
      /\ th.pc = "copy" => rng[th.range].svm_bo # NULL /\ rng[th.range].ttm_res
      /\ th.pc \in {"wait", "alloc"} => rng[th.range].svm_bo = NULL \/ ~rng[th.range].ttm_res
  BY DEF IInv, Moving
<1>2. th.range \in Ranges
  BY Facts
<1>3. rng[th.range] \in RangeRecords /\ RangeInv(rng[th.range])
  BY <1>2, Facts
<1>4. rng[th.range].svm_bo \in {NULL} \cup Bos
  BY <1>3 DEF RangeRecords
<1> QED BY <1>1, <1>2, <1>3, <1>4, Sizes DEF RangeInv

LEMMA IdleIsThread ==
  IdleThread \in [pc : {"idle", "validate", "wait", "alloc", "copy"}, range : Ranges,
                  gpu : {0} \cup Gpus, obj : {NULL} \cup Bos]
BY Sizes DEF IdleThread

LEMMA ValidateStep ==
  ASSUME IInv, fault = "none", validate_svm_bo
  PROVE  IInv' /\ FenceStep
<1> DEFINE r == th.range
           b == rng[r].svm_bo
           reuse == b # NULL /\ ~rng[r].ttm_res /\ bo[b].kref > 0
<1>1. th.pc = "validate" /\ UNCHANGED <<wk, mutex, mm, leaked, relisted>>
  BY DEF validate_svm_bo
<1> SUFFICES ASSUME UNCHANGED fault
             PROVE  IInv' /\ FenceStep
  <2>1. UNCHANGED fault \/ (fault' = "stale" /\ UNCHANGED <<rng, bo, th>>)
    BY Zenon DEF validate_svm_bo
  <2> QED BY <1>1, <2>1, FaultStep
<1>2. /\ r \in Ranges /\ rng[r] \in RangeRecords /\ RangeInv(rng[r]) /\ rng[r].exists
      /\ rng[r].actual_loc = RAM /\ rng[r].pages = 0 /\ b \in {NULL} \cup Bos
      /\ mutex[r] = "thread" /\ th.gpu \in Gpus
  BY <1>1, ThreadFacts DEF RangeRecords
<1>3. \/ /\ b # NULL /\ rng[r].ttm_res
         /\ th' = [th EXCEPT !.pc = "copy"] /\ UNCHANGED <<rng, bo>>
      \/ /\ reuse /\ rng' = [rng EXCEPT ![r].list = NULL]
         /\ th' = [th EXCEPT !.pc = "alloc"] /\ UNCHANGED bo
      \/ /\ reuse /\ th' = [th EXCEPT !.pc = "wait", !.obj = b] /\ UNCHANGED <<rng, bo>>
      \/ /\ reuse /\ ~bo[b].evicting /\ rng' = [rng EXCEPT ![r].ttm_res = TRUE]
         /\ bo' = [bo EXCEPT ![b].kref = @ + 1]
         /\ th' = [th EXCEPT !.pc = "copy"]
      \/ /\ ~(b # NULL /\ rng[r].ttm_res)
         /\ th' = [th EXCEPT !.pc = "alloc"] /\ UNCHANGED <<rng, bo>>
  <2>1. fault' # "stale"
    OBVIOUS
  <2> QED BY <2>1, Zenon DEF validate_svm_bo
<1>4. /\ th' \in [pc : {"idle", "validate", "wait", "alloc", "copy"}, range : Ranges,
                  gpu : {0} \cup Gpus, obj : {NULL} \cup Bos]
      /\ th'.range = r /\ th'.gpu = th.gpu /\ th'.pc \in {"copy", "alloc", "wait"}
      /\ th'.pc = "copy" => b # NULL
  <2>1. th \in [pc : {"idle", "validate", "wait", "alloc", "copy"}, range : Ranges,
                gpu : {0} \cup Gpus, obj : {NULL} \cup Bos]
    BY Facts
  <2> HIDE DEF b
  <2>2. \/ th' = [th EXCEPT !.pc = "copy"] /\ b # NULL
        \/ th' = [th EXCEPT !.pc = "alloc"]
        \/ th' = [th EXCEPT !.pc = "wait", !.obj = b]
    BY <1>3
  <2> QED BY <1>2, <2>1, <2>2
<1>5. CASE /\ UNCHANGED <<rng, bo>>
           /\ th'.pc = "copy" => rng[r].ttm_res
           /\ th'.pc # "copy" => b = NULL \/ ~rng[r].ttm_res
  <2>1. BoTypeOK'
    BY <1>1, <1>4, <1>5 DEF IInv, BoTypeOK
  <2>2. Moving'
    BY <1>1, <1>2, <1>4, <1>5 DEF Moving
  <2> QED BY <1>1, <1>5, <2>1, <2>2, ThreadOnly DEF IInv
<1>6. CASE /\ reuse /\ rng' = [rng EXCEPT ![r].list = NULL]
           /\ th' = [th EXCEPT !.pc = "alloc"] /\ UNCHANGED bo
  <2> DEFINE x == [rng[r] EXCEPT !.list = NULL]
  <2>1. /\ x \in RangeRecords /\ x.list = NULL
        /\ x.exists = rng[r].exists /\ x.ttm_res = rng[r].ttm_res /\ x.svm_bo = b
        /\ x.actual_loc = RAM /\ x.pages = 0 /\ x.home = rng[r].home
    BY <1>2 DEF RangeRecords
  <2>2. RangeInv(x)
    BY <1>2, <2>1 DEF RangeInv
  <2>3. rng' = [rng EXCEPT ![r] = x]
    BY <1>6
  <2>4. th'.pc = "alloc"
    BY <1>6, Facts
  <2> HIDE DEF x
  <2>5. /\ rng' \in [Ranges -> RangeRecords] /\ rng'[r] = x
        /\ \A q \in Ranges \ {r} : rng'[q] = rng[q]
        /\ \A q \in Ranges : RangeInv(rng'[q])
        /\ Balance(rng[r], x)
    BY <1>1, <1>2, <2>1, <2>2, <2>3, OneRange
  <2>6. BoTypeOK'
    BY <1>1, <1>4, <1>6, <2>5 DEF IInv, BoTypeOK, RangeRecords
  <2>7. Moving'
    BY <1>1, <1>2, <1>4, <1>6, <2>1, <2>4, <2>5 DEF Moving
  <2>8. Lives' /\ Marked'
    BY <1>1, <1>6 DEF IInv, Lives, Marked
  <2>9. Counted'
    <3>1. \A d \in Bos : Own(x, d) = Own(rng[r], d) /\ Held(x, d) = Held(rng[r], d)
      BY <1>2, <2>1 DEF Own, Held
    <3> QED BY <1>1, <1>6, <2>5, <3>1, SameBalance
  <2>10. PagesHeld' /\ Unlisted' /\ FenceStep
    BY <1>1, <1>2, <1>6, <2>1, <2>5 DEF IInv, PagesHeld, Unlisted, FenceStep, Inside
  <2> QED BY <2>5, <2>6, <2>7, <2>8, <2>9, <2>10 DEF IInv
<1>7. CASE /\ reuse /\ ~bo[b].evicting /\ rng' = [rng EXCEPT ![r].ttm_res = TRUE]
           /\ bo' = [bo EXCEPT ![b].kref = @ + 1]
           /\ th' = [th EXCEPT !.pc = "copy"]
  <2> DEFINE x == [rng[r] EXCEPT !.ttm_res = TRUE]
  <2>1. /\ x \in RangeRecords /\ x.list = rng[r].list
        /\ x.exists = rng[r].exists /\ x.ttm_res = TRUE /\ x.svm_bo = b
        /\ x.actual_loc = RAM /\ x.pages = 0 /\ x.home = rng[r].home
    BY <1>2 DEF RangeRecords
  <2>2. RangeInv(x)
    BY <1>2, <2>1 DEF RangeInv
  <2>3. rng' = [rng EXCEPT ![r] = x]
    BY <1>7
  <2>4. b \in Bos /\ ~rng[r].ttm_res /\ bo \in [Bos -> BoRecords]
    BY <1>2, <1>7, Facts
  <2> HIDE DEF x
  <2>5. /\ rng' \in [Ranges -> RangeRecords] /\ rng'[r] = x
        /\ \A q \in Ranges \ {r} : rng'[q] = rng[q]
        /\ \A q \in Ranges : RangeInv(rng'[q])
        /\ Balance(rng[r], x)
    BY <1>1, <1>2, <2>1, <2>2, <2>3, OneRange
  <2>6. bo[b].state = "live" /\ ~bo[b].signaled
    BY <1>1, <1>7, <2>4 DEF IInv, Lives, Marked
  <2>7. \A d \in Bos : Own(x, d) = Own(rng[r], d) + (IF d = b THEN 1 ELSE 0) /\ Held(x, d) = Held(rng[r], d)
    BY <1>2, <2>1, <2>4 DEF Own, Held
  <2> HIDE DEF b
  <2>8. /\ bo' \in [Bos -> BoRecords]
        /\ bo'[b].kref = bo[b].kref + 1
        /\ \A d \in Bos : /\ bo'[d].state = bo[d].state /\ bo'[d].evicting = bo[d].evicting
                          /\ bo'[d].signaled = bo[d].signaled /\ bo'[d].pending = bo[d].pending
                          /\ d # b => bo'[d] = bo[d]
    BY <1>7, <2>4 DEF BoRecords
  <2>9. BoTypeOK'
    BY <1>1, <1>4, <2>5, <2>8 DEF IInv, BoTypeOK, RangeRecords, BoRecords
  <2>10. Moving'
    BY <1>1, <1>2, <1>4, <1>7, <2>1, <2>5, Facts DEF Moving
  <2>11. Lives'
    <3>1. bo[b].kref > 0 /\ bo[b].kref \in Int
      BY <1>7, <2>4, Facts
    <3> QED BY <1>1, <2>4, <2>6, <2>8, <3>1 DEF IInv, Lives
  <2>12. Marked'
    BY <1>1, <2>8 DEF IInv, Marked
  <2>13. Counted'
    BY <1>1, <2>4, <2>5, <2>7, <2>8 DEF Counted, Balance
  <2>14. PagesHeld' /\ FenceStep
    BY <1>1, <1>2, <2>1, <2>5, <2>8 DEF IInv, PagesHeld, FenceStep, Inside
  <2>15. Unlisted'
    BY <1>1, <2>1, <2>5, <2>6, <2>8 DEF IInv, Unlisted
  <2> QED BY <2>5, <2>9, <2>10, <2>11, <2>12, <2>13, <2>14, <2>15 DEF IInv
<1>8. /\ th' = [th EXCEPT !.pc = "copy"] => th'.pc = "copy"
      /\ th' = [th EXCEPT !.pc = "alloc"] => th'.pc = "alloc"
      /\ th' = [th EXCEPT !.pc = "wait", !.obj = b] => th'.pc = "wait"
  BY Facts
<1> QED BY <1>3, <1>5, <1>6, <1>7, <1>8

LEMMA ValidateWaitStep ==
  ASSUME IInv, fault = "none", validate_wait
  PROVE  IInv' /\ FenceStep
<1>1. /\ th.pc = "wait" /\ UNCHANGED <<rng, bo, wk, mutex, mm, leaked, relisted, fault>>
      /\ th' = [th EXCEPT !.pc = "alloc"]
  BY DEF validate_wait
<1>2. /\ th' \in [pc : {"idle", "validate", "wait", "alloc", "copy"}, range : Ranges,
                  gpu : {0} \cup Gpus, obj : {NULL} \cup Bos]
      /\ th'.pc = "alloc" /\ th'.range = th.range /\ th'.gpu = th.gpu
  BY <1>1, Facts
<1>3. BoTypeOK'
  BY <1>1, <1>2 DEF IInv, BoTypeOK
<1>4. Moving'
  BY <1>1, <1>2, ThreadFacts DEF Moving
<1> QED BY <1>1, <1>3, <1>4, ThreadOnly DEF IInv

LEMMA ToVramNothingStep ==
  ASSUME IInv, fault = "none", to_vram_nothing
  PROVE  IInv' /\ FenceStep
<1> DEFINE r == th.range
           x == [rng[r] EXCEPT !.actual_loc = th.gpu]
<1>1. /\ th.pc = "validate" /\ rng' = [rng EXCEPT ![r] = x]
      /\ mutex' = [mutex EXCEPT ![r] = "free"] /\ th' = IdleThread
      /\ UNCHANGED <<bo, wk, mm, leaked, relisted, fault>>
  BY DEF to_vram_nothing
<1>2. /\ r \in Ranges /\ rng[r] \in RangeRecords /\ RangeInv(rng[r]) /\ rng[r].exists
      /\ rng[r].pages = 0 /\ th.gpu \in Gpus /\ th.gpu # RAM
  BY <1>1, ThreadFacts
<1>3. /\ x \in RangeRecords /\ x.list = rng[r].list
      /\ x.exists = rng[r].exists /\ x.ttm_res = rng[r].ttm_res /\ x.svm_bo = rng[r].svm_bo
      /\ x.actual_loc = th.gpu /\ x.pages = 0 /\ x.home = rng[r].home
  BY <1>2 DEF RangeRecords
<1>4. RangeInv(x)
  BY <1>2, <1>3 DEF RangeInv
<1> HIDE DEF x
<1>5. /\ rng' \in [Ranges -> RangeRecords] /\ rng'[r] = x
      /\ \A q \in Ranges \ {r} : rng'[q] = rng[q]
      /\ \A q \in Ranges : RangeInv(rng'[q])
      /\ Balance(rng[r], x)
  BY <1>1, <1>2, <1>3, <1>4, OneRange
<1>6. mutex' \in [Ranges -> {"free", "thread"}]
  BY <1>1, Facts
<1>7. BoTypeOK'
  BY <1>1, <1>5, <1>6, IdleIsThread DEF IInv, BoTypeOK, RangeRecords
<1>8. Moving'
  BY <1>1 DEF Moving, IdleThread
<1>9. Lives' /\ Marked'
  BY <1>1 DEF IInv, Lives, Marked
<1>10. Counted'
  <2>1. \A d \in Bos : Own(x, d) = Own(rng[r], d) /\ Held(x, d) = Held(rng[r], d)
    BY <1>2, <1>3 DEF Own, Held
  <2> QED BY <1>1, <1>5, <2>1, SameBalance
<1>11. PagesHeld' /\ Unlisted' /\ FenceStep
  BY <1>1, <1>2, <1>3, <1>5 DEF IInv, PagesHeld, Unlisted, FenceStep, Inside
<1> QED BY <1>5, <1>7, <1>8, <1>9, <1>10, <1>11 DEF IInv

LEMMA VramNodeFailsStep ==
  ASSUME IInv, fault = "none", NEW early \in BOOLEAN, vram_node_fails(early)
  PROVE  IInv' /\ FenceStep
<1> DEFINE r == th.range
           t == early /\ rng[r].ttm_res
           x == [rng[r] EXCEPT !.ttm_res = t]
<1>1. /\ th.pc = "alloc" /\ rng' = [rng EXCEPT ![r] = x]
      /\ mutex' = [mutex EXCEPT ![r] = "free"] /\ th' = IdleThread
      /\ UNCHANGED <<bo, wk, mm, leaked, relisted, fault>>
  BY DEF vram_node_fails
<1>2. /\ r \in Ranges /\ rng[r] \in RangeRecords /\ RangeInv(rng[r]) /\ rng[r].exists
      /\ rng[r].actual_loc = RAM /\ rng[r].pages = 0
      /\ rng[r].svm_bo = NULL \/ ~rng[r].ttm_res
  BY <1>1, ThreadFacts
<1>3. t \in BOOLEAN /\ (t => rng[r].svm_bo = NULL)
  BY <1>2
<1> HIDE DEF t
<1>4. /\ x \in RangeRecords /\ x.list = rng[r].list
      /\ x.exists = rng[r].exists /\ x.ttm_res = t /\ x.svm_bo = rng[r].svm_bo
      /\ x.actual_loc = RAM /\ x.pages = 0 /\ x.home = rng[r].home
  BY <1>2, <1>3 DEF RangeRecords
<1>5. RangeInv(x)
  BY <1>2, <1>4 DEF RangeInv
<1> HIDE DEF x
<1>6. /\ rng' \in [Ranges -> RangeRecords] /\ rng'[r] = x
      /\ \A q \in Ranges \ {r} : rng'[q] = rng[q]
      /\ \A q \in Ranges : RangeInv(rng'[q])
      /\ Balance(rng[r], x)
  BY <1>1, <1>2, <1>4, <1>5, OneRange
<1>7. mutex' \in [Ranges -> {"free", "thread"}]
  BY <1>1, Facts
<1>8. BoTypeOK'
  BY <1>1, <1>6, <1>7, IdleIsThread DEF IInv, BoTypeOK, RangeRecords
<1>9. Moving'
  BY <1>1 DEF Moving, IdleThread
<1>10. Lives' /\ Marked'
  BY <1>1 DEF IInv, Lives, Marked
<1>11. Counted'
  <2>1. \A d \in Bos : Own(x, d) = Own(rng[r], d) /\ Held(x, d) = Held(rng[r], d)
    BY <1>2, <1>3, <1>4, Sizes DEF Own, Held
  <2> QED BY <1>1, <1>6, <2>1, SameBalance
<1>12. PagesHeld' /\ Unlisted' /\ FenceStep
  BY <1>1, <1>2, <1>3, <1>4, <1>6, Sizes DEF IInv, PagesHeld, Unlisted, FenceStep, Inside
<1> QED BY <1>6, <1>8, <1>9, <1>10, <1>11, <1>12 DEF IInv

\* The record of a new object.
LEMMA Beginning ==
  ASSUME NEW g \in Gpus, NEW z \in BoRecords, NEW y,
         y = [z EXCEPT !.state = "live", !.kref = 1, !.gpu = g]
  PROVE  /\ y \in BoRecords /\ y.state = "live" /\ y.kref = 1 /\ y.evicting = z.evicting
         /\ y.signaled = z.signaled /\ y.pending = z.pending
<1>1. y = [state |-> "live", kref |-> 1, gpu |-> g, evicting |-> z.evicting,
           signaled |-> z.signaled, pending |-> z.pending]
  BY DEF BoRecords
<1> QED BY <1>1 DEF BoRecords

LEMMA VramNodeNewStep ==
  ASSUME IInv, fault = "none", vram_node_new
  PROVE  IInv' /\ FenceStep
<1> DEFINE r == th.range
<1> SUFFICES ASSUME ~(fault' = "stale" /\ UNCHANGED <<rng, bo, th>>)
             PROVE  IInv' /\ FenceStep
  <2>1. UNCHANGED <<wk, mutex, mm, leaked, relisted>>
    BY DEF vram_node_new
  <2> QED BY <2>1, FaultStep
<1>1. /\ th.pc = "alloc" /\ th' = [th EXCEPT !.pc = "copy"]
      /\ UNCHANGED <<wk, mutex, mm, leaked, relisted, fault>>
  BY DEF vram_node_new
<1>2. PICK b \in Bos :
        /\ bo[b].state = "none"
        /\ bo' = [bo EXCEPT ![b] = [NoBo EXCEPT !.state = "live", !.kref = 1, !.gpu = th.gpu]]
        /\ rng' = [rng EXCEPT ![r] = [@ EXCEPT !.svm_bo = b, !.ttm_res = TRUE, !.list = b]]
  BY DEF vram_node_new
<1>3. /\ r \in Ranges /\ rng[r] \in RangeRecords /\ RangeInv(rng[r]) /\ rng[r].exists
      /\ rng[r].actual_loc = RAM /\ rng[r].pages = 0 /\ mutex[r] = "thread" /\ th.gpu \in Gpus
      /\ rng[r].svm_bo = NULL \/ ~rng[r].ttm_res
  BY <1>1, ThreadFacts
<1>4. /\ bo \in [Bos -> BoRecords] /\ rng \in [Ranges -> RangeRecords]
      /\ wk \in [Bos -> [pc : {"idle", "walk", "lock"}, range : Ranges]]
      /\ leaked \in [Bos -> Nat]
  BY Facts
<1>5. /\ th' \in [pc : {"idle", "validate", "wait", "alloc", "copy"}, range : Ranges,
                  gpu : {0} \cup Gpus, obj : {NULL} \cup Bos]
      /\ th'.pc = "copy" /\ th'.range = r /\ th'.gpu = th.gpu
  BY <1>1, Facts
<1> DEFINE x == [rng[r] EXCEPT !.svm_bo = b, !.ttm_res = TRUE, !.list = b]
           y == [NoBo EXCEPT !.state = "live", !.kref = 1, !.gpu = th.gpu]
<1>6. /\ x \in RangeRecords /\ x.list = b /\ x.exists = rng[r].exists /\ x.ttm_res = TRUE
      /\ x.svm_bo = b /\ x.actual_loc = RAM /\ x.pages = 0 /\ x.home = rng[r].home
  <2>1. b \in {NULL} \cup Bos
    OBVIOUS
  <2> QED BY <1>3, <2>1 DEF RangeRecords
<1>7. RangeInv(x)
  BY <1>3, <1>6 DEF RangeInv
<1>8. rng' = [rng EXCEPT ![r] = x]
  BY <1>2
<1>9. bo' = [bo EXCEPT ![b] = y]
  BY <1>2
<1>10. /\ y \in BoRecords /\ y.state = "live" /\ y.kref = 1 /\ y.evicting = FALSE
       /\ y.signaled = FALSE /\ y.pending = FALSE
  <2>1. NoBo \in BoRecords
    BY DEF NoBo, BoRecords
  <2>2. NoBo.evicting = FALSE /\ NoBo.signaled = FALSE /\ NoBo.pending = FALSE
    BY DEF NoBo
  <2>3. /\ y \in BoRecords /\ y.state = "live" /\ y.kref = 1 /\ y.evicting = NoBo.evicting
        /\ y.signaled = NoBo.signaled /\ y.pending = NoBo.pending
    <3>1. y = [NoBo EXCEPT !.state = "live", !.kref = 1, !.gpu = th.gpu]
      OBVIOUS
    <3> HIDE DEF y
    <3>2. th.gpu \in Gpus
      BY <1>3
    <3> QED BY <2>1, <3>1, <3>2, Beginning, ZenonT(30)
  <2> QED BY <2>2, <2>3
<1> HIDE DEF x, y
<1>11. bo' \in [Bos -> BoRecords] /\ bo'[b] = y /\ \A d \in Bos : d # b => bo'[d] = bo[d]
  BY <1>4, <1>9, <1>10
<1> HIDE DEF r
<1>12. /\ rng' \in [Ranges -> RangeRecords] /\ rng'[r] = x
       /\ \A q \in Ranges \ {r} : rng'[q] = rng[q]
       /\ \A q \in Ranges : RangeInv(rng'[q])
       /\ Balance(rng[r], x)
  BY <1>1, <1>3, <1>6, <1>7, <1>8, OneRange
<1>13. bo[b].kref = 0
  BY <1>2 DEF IInv, Lives
<1>14. \A d \in Bos : /\ Own(rng[r], d) = 0 /\ Held(rng[r], d) = 0 /\ Held(x, d) = 0
                      /\ Own(x, d) = IF d = b THEN 1 ELSE 0
  BY <1>3, <1>6, Sizes DEF Own, Held
<1>15. Refs(rng, b) = 0 /\ Others(b) = 0
  BY <1>12, <1>13 DEF Balance
<1>16. wk[b].pc = "idle"
  BY <1>4, <1>15 DEF Others
<1>17. BoTypeOK'
  BY <1>1, <1>5, <1>11, <1>12 DEF IInv, BoTypeOK, RangeRecords, BoRecords
<1>18. Moving'
  <2>1. rng'[th'.range] = x /\ mutex'[th'.range] = "thread" /\ th'.gpu \in Gpus
    BY <1>1, <1>3, <1>5, <1>12
  <2>2. x.svm_bo # NULL /\ x.exists
    BY <1>3, <1>6, Sizes
  <2> QED BY <1>5, <1>6, <2>1, <2>2 DEF Moving
<1>19. Lives'
  BY <1>1, <1>10, <1>11 DEF IInv, Lives
<1>20. Marked'
  BY <1>1, <1>10, <1>11, <1>16 DEF IInv, Marked
<1>21. Counted'
  <2> SUFFICES ASSUME NEW d \in Bos
               PROVE  bo'[d].kref = Refs(rng', d) + Others(d)'
    BY <1>1 DEF Counted
  <2>1. Refs(rng', d) = Refs(rng, d) + (IF d = b THEN 1 ELSE 0) /\ Refs(rng, d) \in Nat
    BY <1>12, <1>14 DEF Balance
  <2>2. /\ Others(d)' = Others(d) /\ Others(d) \in Nat
        /\ bo[d].kref = Refs(rng, d) + Others(d)
    BY <1>12 DEF Balance
  <2>3. CASE d = b
    BY <1>10, <1>11, <1>15, <2>1, <2>2, <2>3
  <2>4. CASE d # b
    BY <1>11, <2>1, <2>2, <2>4
  <2> QED BY <2>3, <2>4
<1>22. PagesHeld'
  BY <1>1, <1>6, <1>12 DEF IInv, PagesHeld, Inside
<1>23. Unlisted'
  BY <1>1, <1>6, <1>10, <1>11, <1>12 DEF IInv, Unlisted
<1>24. FenceStep
  BY <1>1, <1>6, <1>10, <1>11, <1>12 DEF FenceStep, Inside
<1> QED BY <1>12, <1>17, <1>18, <1>19, <1>20, <1>21, <1>22, <1>23, <1>24 DEF IInv

LEMMA CopyStep ==
  ASSUME IInv, fault = "none", NEW ok \in BOOLEAN, copy_to_vram(ok)
  PROVE  IInv' /\ FenceStep
<1> DEFINE r == th.range
           b == rng[r].svm_bo
           n == rng[r].size
<1>1. /\ th.pc = "copy" /\ th' = IdleThread /\ mutex' = [mutex EXCEPT ![r] = "free"]
      /\ UNCHANGED <<wk, mm, leaked, relisted, fault>>
      /\ \/ UNCHANGED <<rng, bo>>
         \/ /\ rng' = [rng EXCEPT ![r] = [@ EXCEPT !.pages = n, !.home = b, !.actual_loc = th.gpu]]
            /\ bo' = [bo EXCEPT ![b].kref = @ + n]
  BY DEF copy_to_vram
<1>2. /\ r \in Ranges /\ rng[r] \in RangeRecords /\ RangeInv(rng[r]) /\ rng[r].exists
      /\ rng[r].actual_loc = RAM /\ rng[r].pages = 0 /\ th.gpu \in Gpus /\ th.gpu # RAM
      /\ b \in Bos /\ rng[r].ttm_res
  BY <1>1, ThreadFacts
<1>3. mutex' \in [Ranges -> {"free", "thread"}]
  BY <1>1, Facts
<1>4. Moving'
  BY <1>1 DEF Moving, IdleThread
<1>5. CASE UNCHANGED <<rng, bo>>
  <2>1. BoTypeOK'
    BY <1>1, <1>3, <1>5, IdleIsThread DEF IInv, BoTypeOK
  <2> QED BY <1>1, <1>4, <1>5, <2>1, ThreadOnly DEF IInv
<1>6. CASE /\ rng' = [rng EXCEPT ![r] = [@ EXCEPT !.pages = n, !.home = b, !.actual_loc = th.gpu]]
           /\ bo' = [bo EXCEPT ![b].kref = @ + n]
  <2> DEFINE x == [rng[r] EXCEPT !.pages = n, !.home = b, !.actual_loc = th.gpu]
  <2>1. n \in 0 .. NPages /\ n \in Nat
    BY <1>2, SizesAssumption DEF RangeRecords
  <2>2. bo \in [Bos -> BoRecords] /\ leaked \in [Bos -> Nat]
    BY Facts
  <2>3. rng' = [rng EXCEPT ![r] = x]
    BY <1>6
  <2> HIDE DEF n
  <2>4. /\ x \in RangeRecords /\ x.list = rng[r].list /\ x.exists = rng[r].exists
        /\ x.ttm_res = TRUE /\ x.svm_bo = b /\ x.actual_loc = th.gpu /\ x.pages = n /\ x.home = b
    BY <1>2, <2>1 DEF RangeRecords
  <2>5. RangeInv(x)
    BY <1>2, <2>4 DEF RangeInv
  <2> HIDE DEF x, b, r
  <2>6. /\ rng' \in [Ranges -> RangeRecords] /\ rng'[r] = x
        /\ \A q \in Ranges \ {r} : rng'[q] = rng[q]
        /\ \A q \in Ranges : RangeInv(rng'[q])
        /\ Balance(rng[r], x)
    BY <1>1, <1>2, <2>3, <2>4, <2>5, OneRange
  <2>7. /\ bo' \in [Bos -> BoRecords] /\ bo'[b].kref = bo[b].kref + n
        /\ \A d \in Bos : /\ bo'[d].state = bo[d].state /\ bo'[d].evicting = bo[d].evicting
                          /\ bo'[d].signaled = bo[d].signaled /\ bo'[d].pending = bo[d].pending
                          /\ d # b => bo'[d] = bo[d]
    BY <1>2, <1>6, <2>1, <2>2 DEF BoRecords
  <2>8. \A d \in Bos : /\ Own(rng[r], d) = IF d = b THEN 1 ELSE 0
                       /\ Own(x, d) = IF d = b THEN 1 ELSE 0
                       /\ Held(rng[r], d) = 0
                       /\ Held(x, d) = IF d = b THEN n ELSE 0
    BY <1>2, <2>4, Sizes DEF Own, Held, b
  <2>9. BoTypeOK'
    BY <1>1, <1>3, <2>6, <2>7, IdleIsThread DEF IInv, BoTypeOK, RangeRecords, BoRecords
  <2>10. bo[b].kref > 0 /\ bo[b].kref \in Int /\ bo[b].state = "live"
    <3>1. Refs(rng, b) \in Nat /\ Others(b) \in Nat /\ bo[b].kref = Refs(rng, b) + Others(b)
          /\ Refs(rng, b) >= 1
      BY <1>2, <2>6, <2>8 DEF Balance
    <3>2. bo[b].kref > 0 /\ bo[b].kref \in Int
      BY <3>1
    <3> QED BY <1>1, <1>2, <3>2 DEF IInv, Lives
  <2>11. Lives'
    <3>1. bo'[b].kref > 0
      BY <2>1, <2>7, <2>10
    <3> QED BY <1>1, <1>2, <2>7, <2>10, <3>1 DEF IInv, Lives
  <2>12. Marked'
    BY <1>1, <2>7 DEF IInv, Marked
  <2>13. Counted'
    <3> SUFFICES ASSUME NEW d \in Bos
                 PROVE  bo'[d].kref = Refs(rng', d) + Others(d)'
      BY <1>1 DEF Counted
    <3>1. Refs(rng', d) = Refs(rng, d) + (IF d = b THEN n ELSE 0) /\ Refs(rng, d) \in Nat
      BY <2>1, <2>6, <2>8 DEF Balance
    <3>2. /\ Others(d)' = Others(d) /\ Others(d) \in Nat
          /\ bo[d].kref = Refs(rng, d) + Others(d)
      BY <2>6 DEF Balance
    <3>3. CASE d = b
      BY <2>1, <2>7, <3>1, <3>2, <3>3
    <3>4. CASE d # b
      BY <2>7, <3>1, <3>2, <3>4
    <3> QED BY <3>3, <3>4
  <2>14. PagesHeld'
    BY <1>1, <2>4, <2>6 DEF IInv, PagesHeld, Inside
  <2>15. Unlisted'
    BY <1>1, <1>2, <2>4, <2>6, <2>7 DEF IInv, Unlisted
  <2>16. FenceStep
    <3> SUFFICES ASSUME NEW d \in Bos, NEW q \in Ranges, bo'[d].signaled,
                        Inside(q, d)', ~(Inside(q, d) /\ bo[d].signaled)
                 PROVE  rng'[q].svm_bo = d /\ (rng'[q].list = NULL \/ q \in relisted')
      BY DEF FenceStep
    <3>1. bo[d].signaled
      BY <2>7
    <3>2. q = r
      BY <2>6, <3>1 DEF Inside
    <3>3. d = b
      BY <2>4, <2>6, <3>2 DEF Inside
    <3>4. rng[r].list = NULL \/ r \in relisted
      BY <1>2, <3>1, <3>3 DEF IInv, Unlisted, b
    <3> QED BY <1>1, <2>4, <2>6, <3>2, <3>3, <3>4
  <2> QED BY <1>4, <2>6, <2>9, <2>11, <2>12, <2>13, <2>14, <2>15, <2>16 DEF IInv
<1> QED BY <1>1, <1>5, <1>6

\* What the two parts of a range hold is what the range held.
LEMMA Parts ==
  ASSUME NEW z \in RangeRecords, z.exists, z.size > 1
  PROVE  /\ Part(z) \in RangeRecords /\ Rest(z) \in RangeRecords
         /\ Part(z).exists = TRUE /\ Part(z).svm_bo = z.svm_bo /\ Part(z).ttm_res = z.ttm_res
         /\ Part(z).actual_loc = z.actual_loc /\ Part(z).home = z.home
         /\ Part(z).list = z.list
         /\ Rest(z).exists = TRUE /\ Rest(z).svm_bo = z.svm_bo /\ Rest(z).ttm_res = z.ttm_res
         /\ Rest(z).actual_loc = z.actual_loc /\ Rest(z).home = z.home
         /\ Rest(z).list = z.list
         /\ z.pages = Part(z).pages + Rest(z).pages
         /\ Part(z).pages \in Nat /\ Rest(z).pages \in Nat
<1> DEFINE n == IF z.pages = 0 THEN 0 ELSE 1
           m == IF z.pages = 0 THEN 0 ELSE z.pages - 1
<1>1. z \in RangeRecords /\ z.exists = TRUE /\ z.size > 1
  BY DEF RangeRecords
<1>2. /\ 1 \in 0 .. NPages /\ z.size - 1 \in 0 .. NPages
      /\ n \in 0 .. NPages /\ m \in 0 .. NPages /\ z.pages = n + m /\ n \in Nat /\ m \in Nat
  BY <1>1, SizesAssumption DEF RangeRecords
<1>3. Part(z) = [z EXCEPT !.size = 1, !.pages = n] /\ Rest(z) = [z EXCEPT !.size = z.size - 1, !.pages = m]
  BY DEF Part, Rest
<1> HIDE DEF n, m
<1>4. Part(z) = [exists |-> z.exists, size |-> 1, svm_bo |-> z.svm_bo, ttm_res |-> z.ttm_res,
                 actual_loc |-> z.actual_loc, list |-> z.list, pages |-> n, home |-> z.home]
  BY <1>1, <1>3 DEF RangeRecords
<1>5. Rest(z) = [exists |-> z.exists, size |-> z.size - 1, svm_bo |-> z.svm_bo, ttm_res |-> z.ttm_res,
                 actual_loc |-> z.actual_loc, list |-> z.list, pages |-> m, home |-> z.home]
  BY <1>1, <1>3 DEF RangeRecords
<1>6. Part(z) \in RangeRecords
  BY <1>1, <1>2, <1>4 DEF RangeRecords
<1>7. Rest(z) \in RangeRecords
  BY <1>1, <1>2, <1>5 DEF RangeRecords
<1> QED BY <1>1, <1>2, <1>4, <1>5, <1>6, <1>7

\* A range or its clone is split: the range itself, or one that is on the list of the object.
StandsFor(z, r) ==
  /\ z \in RangeRecords /\ RangeInv(z)
  /\ z.exists = rng[r].exists /\ z.size = rng[r].size /\ z.svm_bo = rng[r].svm_bo
  /\ z.actual_loc = rng[r].actual_loc /\ z.home = rng[r].home /\ z.pages = rng[r].pages
  /\ z.svm_bo # NULL => z.ttm_res = rng[r].ttm_res
  /\ z.svm_bo # NULL /\ bo[z.svm_bo].signaled /\ rng[r].list = NULL
       => z.list = NULL \/ r \in relisted'

LEMMA Splitting ==
  ASSUME IInv, fault = "none", NEW r \in Ranges, NEW s \in Ranges, NEW z, StandsFor(z, r),
         Splits(r, s), split_nodes(z, r, s), UNCHANGED <<wk, th, mutex, mm, leaked>>,
         relisted \subseteq relisted', relisted' \subseteq Ranges,
         fault' = "null" => relisted' = relisted
  PROVE  IInv' /\ FenceStep
<1> DEFINE b == rng[r].svm_bo
<1>1. /\ th.pc = "idle" /\ UNCHANGED <<wk, th, mutex, mm, leaked>>
      /\ rng[r].exists /\ rng[r].size > 1 /\ ~rng[s].exists /\ split_nodes(z, r, s)
  BY DEF Splits
<1>0. /\ z \in RangeRecords /\ RangeInv(z) /\ z.exists /\ z.size > 1
      /\ z.svm_bo = b /\ z.actual_loc = rng[r].actual_loc
      /\ z.home = rng[r].home /\ z.pages = rng[r].pages
      /\ b # NULL => z.ttm_res = rng[r].ttm_res
      /\ b # NULL /\ bo[b].signaled /\ rng[r].list = NULL => z.list = NULL \/ r \in relisted'
  BY <1>1 DEF StandsFor
<1>2. Moving'
  BY <1>1 DEF Moving
<1>3. /\ rng \in [Ranges -> RangeRecords] /\ rng[r] \in RangeRecords /\ RangeInv(rng[r])
      /\ rng[s] = NoRange /\ r # s /\ b \in {NULL} \cup Bos /\ bo \in [Bos -> BoRecords]
  BY <1>1, Facts DEF RangeInv, RangeRecords
<1>4. CASE fault' = "null" /\ UNCHANGED <<rng, bo>>
  BY <1>1, <1>4, FaultStep
<1> DEFINE alone  == /\ z.actual_loc = RAM \/ ~z.ttm_res
                     /\ UNCHANGED <<bo, fault>>
           shared == /\ z.actual_loc # RAM /\ z.ttm_res /\ b # NULL
                     /\ bo' = [bo EXCEPT ![b].kref = @ + 1] /\ UNCHANGED fault
<1>5. ASSUME NEW y,
             rng' = [rng EXCEPT ![r] = Rest(z), ![s] = y],
             \/ alone /\ y = [Part(z) EXCEPT !.svm_bo = NULL, !.list = NULL, !.ttm_res = FALSE]
             \/ shared /\ y = [Part(z) EXCEPT !.list = b]
      PROVE  IInv' /\ FenceStep
  <2> DEFINE x == Rest(z)
             mid == [rng EXCEPT ![r] = x]
             one(d) == IF shared /\ d = b THEN 1 ELSE 0
  <2>1. /\ x \in RangeRecords /\ x.exists = TRUE /\ x.svm_bo = b /\ x.ttm_res = z.ttm_res
        /\ x.actual_loc = rng[r].actual_loc /\ x.home = rng[r].home /\ x.list = z.list
        /\ Part(z).pages \in Nat /\ x.pages \in Nat
        /\ rng[r].pages = Part(z).pages + x.pages
    BY <1>0, Parts
  <2>2. /\ y \in RangeRecords /\ y.exists = TRUE /\ y.home = rng[r].home
        /\ y.actual_loc = rng[r].actual_loc /\ y.pages = Part(z).pages
        /\ \/ alone /\ y.list = NULL /\ y.svm_bo = NULL /\ y.ttm_res = FALSE
           \/ shared /\ y.list = b /\ y.svm_bo = b /\ y.ttm_res = z.ttm_res
    <3>1. /\ Part(z) \in RangeRecords /\ Part(z).exists = TRUE /\ Part(z).home = rng[r].home
          /\ Part(z).actual_loc = rng[r].actual_loc /\ Part(z).svm_bo = b
          /\ Part(z).ttm_res = z.ttm_res
      BY <1>0, Parts
    <3> HIDE DEF b
    <3>2. CASE alone /\ y = [Part(z) EXCEPT !.svm_bo = NULL, !.list = NULL, !.ttm_res = FALSE]
      <4> DEFINE u == Part(z)
      <4>1. u \in RangeRecords /\ y = [u EXCEPT !.svm_bo = NULL, !.list = NULL, !.ttm_res = FALSE]
        BY <3>1, <3>2
      <4> HIDE DEF u, alone, shared
      <4>2. /\ y \in RangeRecords /\ y.exists = u.exists /\ y.actual_loc = u.actual_loc
            /\ y.home = u.home /\ y.pages = u.pages
            /\ y.list = NULL /\ y.svm_bo = NULL /\ y.ttm_res = FALSE
        <5>1. y = [exists |-> u.exists, size |-> u.size, svm_bo |-> NULL, ttm_res |-> FALSE,
                   actual_loc |-> u.actual_loc, list |-> NULL, pages |-> u.pages, home |-> u.home]
          BY <4>1 DEF RangeRecords
        <5> QED BY <4>1, <5>1 DEF RangeRecords
      <4> QED BY <3>1, <3>2, <4>2 DEF u
    <3>3. CASE shared /\ y = [Part(z) EXCEPT !.list = b]
      <4> DEFINE u == Part(z)
      <4>1. u \in RangeRecords /\ y = [u EXCEPT !.list = b] /\ b \in Bos
        BY <1>3, <3>1, <3>3
      <4> HIDE DEF u, alone, shared
      <4>2. /\ y \in RangeRecords /\ y.exists = u.exists /\ y.actual_loc = u.actual_loc
            /\ y.home = u.home /\ y.pages = u.pages
            /\ y.list = b /\ y.svm_bo = u.svm_bo /\ y.ttm_res = u.ttm_res
        <5>1. y = [exists |-> u.exists, size |-> u.size, svm_bo |-> u.svm_bo, ttm_res |-> u.ttm_res,
                   actual_loc |-> u.actual_loc, list |-> b, pages |-> u.pages, home |-> u.home]
          BY <4>1 DEF RangeRecords
        <5> QED BY <4>1, <5>1 DEF RangeRecords
      <4> QED BY <3>1, <3>3, <4>2 DEF u
    <3> QED BY <1>5, <3>2, <3>3
  <2> HIDE DEF x
  <2>3. /\ mid \in [Ranges -> RangeRecords] /\ mid[s] = NoRange
        /\ rng' = [mid EXCEPT ![s] = y]
    BY <1>3, <1>5, <2>1 DEF x
  <2>4. /\ rng' \in [Ranges -> RangeRecords] /\ rng'[r] = x /\ rng'[s] = y
        /\ \A q \in Ranges \ {r, s} : rng'[q] = rng[q]
    BY <1>3, <2>1, <2>2, <2>3
  <2> HIDE DEF b
  <2>5. \A d \in Bos : /\ Refs(rng', d) = Refs(rng, d) + one(d) /\ Refs(rng, d) \in Nat
                       /\ Own(rng[r], d) <= Refs(rng, d)
    <3> TAKE d \in Bos
    <3>1. /\ Refs(mid, d) = Refs(rng, d) - Own(rng[r], d) - Held(rng[r], d) + Own(x, d) + Held(x, d)
          /\ Refs(rng, d) \in Nat
      BY <1>3, <2>1, RefsChange
    <3>2. Refs(rng', d) = Refs(mid, d) - Own(mid[s], d) - Held(mid[s], d) + Own(y, d) + Held(y, d)
      <4> HIDE DEF mid
      <4>1. Refs([mid EXCEPT ![s] = y], d)
              = Refs(mid, d) - Own(mid[s], d) - Held(mid[s], d) + Own(y, d) + Held(y, d)
        BY <2>2, <2>3, RefsChange
      <4> QED BY <2>3, <4>1
    <3>3. Own(mid[s], d) = 0 /\ Held(mid[s], d) = 0
      <4> HIDE DEF mid
      <4>1. NoRange.ttm_res = FALSE /\ NoRange.home = NULL
        BY DEF NoRange
      <4> QED BY <2>3, <4>1, Sizes DEF Own, Held
    <3>4. Held(rng[r], d) = Held(x, d) + Held(y, d) /\ Held(x, d) \in Nat /\ Held(y, d) \in Nat
      BY <2>1, <2>2 DEF Held
    <3>5. Own(x, d) = Own(rng[r], d) /\ Own(rng[r], d) \in {0, 1}
      BY <1>0, <2>1, Sizes DEF Own, b
    <3>6. Own(y, d) = one(d)
      BY <2>2, Sizes DEF Own
    <3>7. Own(rng[r], d) + Held(rng[r], d) <= Refs(rng, d) /\ Held(rng[r], d) \in Nat
      BY <1>3, RefsAtLeast
    <3>8. one(d) \in Nat
      OBVIOUS
    <3> HIDE DEF one, mid
    <3> QED BY <3>1, <3>2, <3>3, <3>4, <3>5, <3>6, <3>7, <3>8
  <2>6. fault' = fault
    BY <1>5
  <2>7. /\ bo' \in [Bos -> BoRecords]
        /\ \A d \in Bos : /\ bo'[d].state = bo[d].state /\ bo'[d].evicting = bo[d].evicting
                          /\ bo'[d].signaled = bo[d].signaled /\ bo'[d].pending = bo[d].pending
                          /\ bo'[d].kref = bo[d].kref + one(d)
    <3>1. CASE alone
      <4>1. bo' = bo /\ \A d \in Bos : one(d) = 0 /\ bo[d].kref \in Int
        <5>1. ~shared
          BY <3>1
        <5> QED BY <3>1, <5>1, Facts
      <4> HIDE DEF one
      <4> QED BY <1>3, <4>1
    <3>2. CASE shared
      <4>1. b \in Bos /\ bo' = [bo EXCEPT ![b].kref = @ + 1] /\ \A d \in Bos : one(d) = IF d = b THEN 1 ELSE 0
        BY <1>3, <3>2 DEF b
      <4>2. bo \in [Bos -> BoRecords]
        BY <1>3
      <4> HIDE DEF one
      <4> QED BY <4>1, <4>2 DEF BoRecords
    <3> QED BY <1>5, <3>1, <3>2
  <2>8. BoTypeOK'
    BY <1>1, <2>4, <2>6, <2>7 DEF IInv, BoTypeOK, RangeRecords, BoRecords
  <2>9. \A q \in Ranges : RangeInv(rng'[q])
    <3>1. RangeInv(x)
      BY <1>0, <1>3, <2>1 DEF RangeInv, b
    <3>2. RangeInv(y)
      <4>1. y.actual_loc = RAM => y.pages = 0
        BY <1>3, <2>1, <2>2 DEF RangeInv
      <4>2. y.pages > 0 => y.ttm_res \/ y.svm_bo = NULL
        BY <1>3, <2>1, <2>2, Sizes DEF RangeInv
      <4>3. y.list # NULL => y.svm_bo \in {y.list, NULL}
        BY <2>2
      <4> QED BY <2>2, <4>1, <4>2, <4>3 DEF RangeInv
    <3> QED BY <2>4, <3>1, <3>2, Facts
  <2>10. Lives'
    <3> SUFFICES ASSUME NEW d \in Bos
                 PROVE  /\ bo'[d].state = "live" => bo'[d].kref > 0
                        /\ bo'[d].state # "live" => bo'[d].kref = 0
      BY DEF Lives
    <3>1. /\ bo[d].state = "live" => bo[d].kref > 0
          /\ bo[d].state # "live" => bo[d].kref = 0
          /\ bo[d].kref = Refs(rng, d) + Others(d) /\ Others(d) \in Nat
      BY Facts DEF IInv, Lives
    <3>2. one(d) = 1 => bo[d].kref > 0
      <4>1. one(d) = 1 => Own(rng[r], d) = 1
        BY <1>0 DEF Own, b
      <4> HIDE DEF one
      <4> QED BY <2>5, <3>1, <4>1
    <3>3. one(d) \in {0, 1}
      OBVIOUS
    <3>4. bo[d].kref \in Int
      BY Facts
    <3> HIDE DEF one
    <3> QED BY <2>7, <3>1, <3>2, <3>3, <3>4
  <2>11. Counted'
    <3> SUFFICES ASSUME NEW d \in Bos
                 PROVE  bo'[d].kref = Refs(rng', d) + Others(d)'
      BY <2>6 DEF Counted
    <3>1. Others(d)' = Others(d) /\ Others(d) \in Nat /\ bo[d].kref = Refs(rng, d) + Others(d)
      BY <1>1, Facts DEF Others
    <3>2. one(d) \in {0, 1}
      OBVIOUS
    <3> HIDE DEF one
    <3> QED BY <2>5, <2>7, <3>1, <3>2
  <2>12. PagesHeld'
    <3> SUFFICES ASSUME NEW d \in Bos, NEW q \in Ranges, leaked'[d] = 0, Inside(q, d)'
                 PROVE  rng'[q].svm_bo = d
      BY DEF PagesHeld
    <3>1. CASE q # r /\ q # s
      BY <1>1, <2>4, <3>1 DEF IInv, PagesHeld, Inside
    <3>2. CASE q = r
      <4>1. Inside(r, d)
        BY <2>1, <2>4, <3>2 DEF Inside
      <4> QED BY <1>1, <2>1, <2>4, <3>2, <4>1 DEF IInv, PagesHeld, b
    <3>3. CASE q = s
      <4>1. Inside(r, d) /\ y.pages > 0
        BY <2>1, <2>2, <2>4, <3>3 DEF Inside
      <4>2. rng[r].svm_bo = d
        BY <1>1, <4>1 DEF IInv, PagesHeld
      <4>3. ~alone
        BY <1>0, <1>3, <4>1, <4>2, Sizes DEF RangeInv, Inside, b
      <4> QED BY <2>2, <2>4, <3>3, <4>2, <4>3 DEF b
    <3> QED BY <3>1, <3>2, <3>3
  <2>13. Marked'
    BY <1>1, <2>7 DEF IInv, Marked
  <2>14. Unlisted'
    <3> SUFFICES ASSUME NEW d \in Bos, NEW q \in Ranges, bo'[d].signaled, rng'[q].actual_loc = RAM,
                        rng'[q].ttm_res, rng'[q].svm_bo = d
                 PROVE  rng'[q].list = NULL \/ q \in relisted'
      BY DEF Unlisted
    <3>1. bo[d].signaled
      BY <2>7
    <3>2. CASE q # r /\ q # s
      BY <2>4, <3>1, <3>2 DEF IInv, Unlisted
    <3>3. CASE q = r
      <4>1. x.actual_loc = RAM /\ x.ttm_res /\ x.svm_bo = d /\ b = d /\ b # NULL
        BY <2>1, <2>4, <3>3, Sizes
      <4>2. rng[r].list = NULL \/ r \in relisted
        BY <1>0, <2>1, <3>1, <4>1 DEF IInv, Unlisted, b
      <4>3. rng'[r].list = z.list /\ (r \in relisted => r \in relisted')
        BY <2>1, <2>4
      <4>4. CASE r \in relisted
        BY <3>3, <4>3, <4>4
      <4>5. CASE rng[r].list = NULL
        <5>1. z.list = NULL \/ r \in relisted'
          BY <1>0, <3>1, <4>1, <4>5
        <5> QED BY <3>3, <4>3, <5>1
      <4> QED BY <4>2, <4>4, <4>5
    <3>4. CASE q = s
      BY <1>0, <2>2, <2>4, <3>4
    <3> QED BY <3>2, <3>3, <3>4
  <2>15. FenceStep
    <3> SUFFICES ASSUME NEW d \in Bos, NEW q \in Ranges, bo'[d].signaled, rng[q].exists,
                        Inside(q, d)', ~(Inside(q, d) /\ bo[d].signaled)
                 PROVE  FALSE
      BY DEF FenceStep
    <3>1. bo[d].signaled
      BY <2>7
    <3>2. q # s
      BY <1>1
    <3>3. CASE q # r
      BY <2>4, <3>1, <3>2, <3>3 DEF Inside
    <3>4. CASE q = r
      BY <2>1, <2>4, <3>1, <3>4 DEF Inside
    <3> QED BY <3>3, <3>4
  <2> QED BY <1>2, <2>8, <2>9, <2>10, <2>11, <2>12, <2>13, <2>14, <2>15 DEF IInv
<1>6. \/ fault' = "null" /\ UNCHANGED <<rng, bo>>
      \/ /\ alone
         /\ rng' = [rng EXCEPT ![r] = Rest(z),
                               ![s] = [Part(z) EXCEPT !.svm_bo = NULL, !.list = NULL, !.ttm_res = FALSE]]
      \/ /\ shared
         /\ rng' = [rng EXCEPT ![r] = Rest(z), ![s] = [Part(z) EXCEPT !.list = b]]
  <2> HIDE DEF b
  <2>1. z.svm_bo = b
    BY <1>0
  <2> QED BY <1>1, <2>1, Zenon DEF split_nodes
<1> HIDE DEF alone, shared, b
<1> QED BY <1>4, <1>5, <1>6

LEMMA SplitStep ==
  ASSUME IInv, fault = "none", NEW r \in Ranges, NEW s \in Ranges, split(r, s)
  PROVE  IInv' /\ FenceStep
<1>1. Splits(r, s) /\ split_nodes(rng[r], r, s) /\ UNCHANGED <<wk, th, mutex, mm, leaked, relisted>>
  BY DEF split
<1>2. StandsFor(rng[r], r)
  BY Facts DEF StandsFor
<1> QED BY <1>1, <1>2, Splitting, Facts

\* The clone of a range, on the list of its object.
LEMMA Cloning ==
  ASSUME NEW x \in RangeRecords, RangeInv(x), x.exists
  PROVE  /\ Clone(x) \in RangeRecords /\ RangeInv(Clone(x))
         /\ Clone(x).exists = x.exists /\ Clone(x).size = x.size /\ Clone(x).svm_bo = x.svm_bo
         /\ Clone(x).actual_loc = x.actual_loc /\ Clone(x).home = x.home
         /\ Clone(x).pages = x.pages
         /\ x.svm_bo # NULL => Clone(x).ttm_res = x.ttm_res
<1> DEFINE t == x.ttm_res /\ x.svm_bo # NULL
<1>1. Clone(x) = [exists |-> x.exists, size |-> x.size, svm_bo |-> x.svm_bo, ttm_res |-> t,
                  actual_loc |-> x.actual_loc, list |-> x.svm_bo, pages |-> x.pages,
                  home |-> x.home]
  <2>1. Clone(x) = [x EXCEPT !.list = x.svm_bo, !.ttm_res = t]
    BY DEF Clone
  <2> HIDE DEF t
  <2> QED BY <2>1 DEF RangeRecords
<1>2. t \in BOOLEAN /\ (x.svm_bo # NULL => t = x.ttm_res)
  BY DEF RangeRecords
<1> HIDE DEF t
<1>3. Clone(x) \in RangeRecords
  BY <1>1, <1>2 DEF RangeRecords
<1>4. RangeInv(Clone(x))
  BY <1>1, <1>2 DEF RangeInv
<1> QED BY <1>1, <1>2, <1>3, <1>4

LEMMA HandleOverlapStep ==
  ASSUME IInv, fault = "none", NEW r \in Ranges, NEW s \in Ranges, handle_overlap(r, s)
  PROVE  IInv' /\ FenceStep
<1>1. Splits(r, s) /\ UNCHANGED <<wk, th, mutex, mm, leaked>>
  BY DEF handle_overlap
<1>2. CASE fault' = "stale" /\ UNCHANGED <<rng, bo, relisted>>
  BY <1>1, <1>2, FaultStep
<1>3. CASE /\ split_nodes(Clone(rng[r]), r, s)
           /\ relisted' = IF /\ rng[r].svm_bo # NULL /\ bo[rng[r].svm_bo].signaled
                             /\ rng[r].list = NULL
                          THEN relisted \cup {r} ELSE relisted
  <2>1. rng[r] \in RangeRecords /\ RangeInv(rng[r]) /\ rng[r].exists /\ relisted \subseteq Ranges
    BY <1>1, Facts DEF Splits
  <2>2. StandsFor(Clone(rng[r]), r)
    BY <1>3, <2>1, Cloning DEF StandsFor
  <2>3. relisted \subseteq relisted' /\ relisted' \subseteq Ranges
    BY <1>3, <2>1
  <2>4. fault' # "null"
    <3>1. Clone(rng[r]).svm_bo = NULL => ~Clone(rng[r]).ttm_res
      BY <2>1 DEF Clone, RangeRecords
    <3> QED BY <1>3, <3>1 DEF split_nodes
  <2> QED BY <1>1, <1>3, <2>2, <2>3, <2>4, Splitting
<1> QED BY <1>2, <1>3, Zenon DEF handle_overlap
-----------------------------------------------------------------------------
(* The theorems. *)

\* The range that exists at first.
LEMMA Opening ==
  ASSUME NEW z \in RangeRecords, NEW y, y = [z EXCEPT !.exists = TRUE, !.size = NPages]
  PROVE  /\ y \in RangeRecords /\ y.exists = TRUE /\ y.ttm_res = z.ttm_res
         /\ y.pages = z.pages /\ y.list = z.list
<1>1. y = [exists |-> TRUE, size |-> NPages, svm_bo |-> z.svm_bo, ttm_res |-> z.ttm_res,
           actual_loc |-> z.actual_loc, list |-> z.list, pages |-> z.pages, home |-> z.home]
  BY DEF RangeRecords
<1>2. NPages \in 0 .. NPages
  BY SizesAssumption
<1> QED BY <1>1, <1>2 DEF RangeRecords

LEMMA InitIInv == BoInit => IInv
<1> SUFFICES ASSUME BoInit PROVE IInv
  OBVIOUS
<1> DEFINE first == [NoRange EXCEPT !.exists = TRUE, !.size = NPages]
<1>1. /\ rng = [r \in Ranges |-> IF r = 1 THEN first ELSE NoRange]
      /\ bo = [b \in Bos |-> NoBo] /\ wk = [b \in Bos |-> [pc |-> "idle", range |-> 1]]
      /\ th = IdleThread /\ mutex = [r \in Ranges |-> "free"] /\ mm = TRUE /\ fault = "none"
      /\ leaked = [b \in Bos |-> 0] /\ relisted = {}
  BY DEF BoInit
<1>2. /\ first \in RangeRecords /\ first.exists = TRUE /\ first.ttm_res = FALSE /\ first.pages = 0
      /\ first.list = NULL
  <2>1. NoRange \in RangeRecords
    BY NoRangeType
  <2>2. NoRange.ttm_res = FALSE /\ NoRange.pages = 0 /\ NoRange.list = NULL
    BY DEF NoRange
  <2>3. first = [NoRange EXCEPT !.exists = TRUE, !.size = NPages]
    OBVIOUS
  <2> HIDE DEF first
  <2>4. /\ first \in RangeRecords /\ first.exists = TRUE /\ first.ttm_res = NoRange.ttm_res
        /\ first.pages = NoRange.pages /\ first.list = NoRange.list
    BY <2>1, <2>3, Opening, ZenonT(30)
  <2> QED BY <2>2, <2>4
<1>3. RangeInv(first)
  BY <1>2 DEF RangeInv
<1> HIDE DEF first
<1>4. /\ rng \in [Ranges -> RangeRecords]
      /\ \A r \in Ranges : RangeInv(rng[r]) /\ rng[r].ttm_res = FALSE /\ rng[r].pages = 0
  <2>1. NoRange.ttm_res = FALSE /\ NoRange.pages = 0
    BY DEF NoRange
  <2> QED BY <1>1, <1>2, <1>3, <2>1, NoRangeType
<1>5. NoBo \in BoRecords
  BY DEF NoBo, BoRecords
<1>6. /\ bo \in [Bos -> BoRecords]
      /\ \A b \in Bos : /\ bo[b].state = "none" /\ bo[b].kref = 0 /\ ~bo[b].pending /\ ~bo[b].signaled
  <2>1. NoBo.state = "none" /\ NoBo.kref = 0 /\ ~NoBo.pending /\ ~NoBo.signaled
    BY DEF NoBo
  <2> QED BY <1>1, <1>5, <2>1
<1>7. /\ wk \in [Bos -> [pc : {"idle", "walk", "lock"}, range : Ranges]]
      /\ \A b \in Bos : wk[b].pc = "idle"
  BY <1>1, Sizes
<1>8. BoTypeOK
  BY <1>1, <1>4, <1>6, <1>7, IdleIsThread DEF BoTypeOK, RangeRecords, BoRecords
<1>9. Moving
  BY <1>1 DEF Moving, IdleThread
<1>10. Counted
  <2> SUFFICES ASSUME NEW b \in Bos
               PROVE  bo[b].kref = Refs(rng, b) + Others(b)
    BY <1>1 DEF Counted
  <2>1. Users(rng, b) = {}
    BY <1>4 DEF Users
  <2>2. Frames(rng, b) = {}
    BY <1>4 DEF Frames
  <2>3. Cardinality({}) = 0
    BY FS_EmptySet
  <2>4. Others(b) = 0
    BY <1>1, <1>7 DEF Others
  <2> QED BY <1>6, <2>1, <2>2, <2>3, <2>4 DEF Refs
<1>11. Lives /\ Marked
  BY <1>6, <1>7 DEF Lives, Marked
<1>12. PagesHeld /\ Unlisted
  BY <1>4, <1>6 DEF PagesHeld, Inside, Unlisted
<1> QED BY <1>4, <1>8, <1>9, <1>10, <1>11, <1>12 DEF IInv

LEMMA StutterIInv == IInv /\ UNCHANGED bvars => IInv' /\ FenceStep
<1> SUFFICES ASSUME IInv, UNCHANGED bvars PROVE IInv' /\ FenceStep
  OBVIOUS
<1>1. UNCHANGED <<rng, bo, wk, th, mutex, mm, leaked, relisted, fault>>
  BY DEF bvars
<1>2. BoTypeOK' /\ (\A r \in Ranges : RangeInv(rng'[r]))
  BY <1>1 DEF IInv, BoTypeOK
<1>3. Moving' /\ Lives' /\ PagesHeld' /\ Marked' /\ Unlisted'
  BY <1>1 DEF IInv, Moving, Lives, PagesHeld, Inside, Marked, Unlisted
<1>4. Counted'
  BY <1>1 DEF IInv, Counted, Others
<1>5. FenceStep
  BY <1>1 DEF FenceStep, Inside
<1> QED BY <1>2, <1>3, <1>4, <1>5 DEF IInv

\* One case for each action.
LEMMA NextIInv == IInv /\ [BoNext]_bvars => IInv' /\ FenceStep
<1> SUFFICES ASSUME IInv, [BoNext]_bvars PROVE IInv' /\ FenceStep
  OBVIOUS
<1>1. CASE UNCHANGED bvars
  BY <1>1, StutterIInv
<1>2. CASE BoNext
  <2>1. fault = "none"
    BY <1>2 DEF BoNext
  <2>2. ASSUME NEW r \in Ranges, to_ram(r) PROVE IInv' /\ FenceStep
    BY <2>1, <2>2, ToRamStep
  <2>3. ASSUME NEW r \in Ranges, free(r) PROVE IInv' /\ FenceStep
    BY <2>1, <2>3, FreeStep
  <2>4. ASSUME NEW r \in Ranges, NEW g \in Gpus, to_vram_begin(r, g) PROVE IInv' /\ FenceStep
    BY <2>1, <2>4, ToVramBeginStep
  <2>5. ASSUME NEW r \in Ranges, NEW s \in Ranges, split(r, s) PROVE IInv' /\ FenceStep
    BY <2>1, <2>5, SplitStep
  <2>6. CASE validate_svm_bo
    BY <2>1, <2>6, ValidateStep
  <2>7. CASE to_vram_nothing
    BY <2>1, <2>7, ToVramNothingStep
  <2>8. CASE validate_wait
    BY <2>1, <2>8, ValidateWaitStep
  <2>9. CASE vram_node_new
    BY <2>1, <2>9, VramNodeNewStep
  <2>10. ASSUME NEW early \in BOOLEAN, vram_node_fails(early) PROVE IInv' /\ FenceStep
    BY <2>1, <2>10, VramNodeFailsStep
  <2>11. ASSUME NEW ok \in BOOLEAN, copy_to_vram(ok) PROVE IInv' /\ FenceStep
    BY <2>1, <2>11, CopyStep
  <2>12. ASSUME NEW b \in Bos, schedule_evict_svm_bo(b) PROVE IInv' /\ FenceStep
    BY <2>1, <2>12, ScheduleEvictStep
  <2>13. ASSUME NEW b \in Bos, worker_begin(b) PROVE IInv' /\ FenceStep
    BY <2>1, <2>13, WorkerBeginStep
  <2>14. ASSUME NEW b \in Bos, worker_end(b) PROVE IInv' /\ FenceStep
    BY <2>1, <2>14, WorkerEndStep
  <2>15. ASSUME NEW b \in Bos, NEW r \in Ranges, worker_take(b, r) PROVE IInv' /\ FenceStep
    BY <2>1, <2>15, WorkerTakeStep
  <2>16. ASSUME NEW b \in Bos, NEW ok \in BOOLEAN, worker_move(b, ok) PROVE IInv' /\ FenceStep
    BY <2>1, <2>16, WorkerMoveStep
  <2>17. CASE exit_mm
    BY <2>1, <2>17, ExitMmStep
  <2>18. ASSUME NEW r \in Ranges, NEW s \in Ranges, handle_overlap(r, s) PROVE IInv' /\ FenceStep
    BY <2>1, <2>18, HandleOverlapStep
  <2>19. ASSUME NEW r \in Ranges, NEW s \in Ranges, handle_overlap_fails(r, s)
         PROVE  IInv' /\ FenceStep
    BY <2>1, <2>19, FaultStep DEF handle_overlap_fails
  <2> QED BY <1>2, <2>2, <2>3, <2>4, <2>5, <2>6, <2>7, <2>8, <2>9, <2>10, <2>11, <2>12, <2>13,
             <2>14, <2>15, <2>16, <2>17, <2>18, <2>19, Zenon DEF BoNext, BoStep
<1> QED BY <1>1, <1>2

\* The invariant holds through moves to and from a GPU that fail half-way, splits, the reuse
\* of an object under eviction (svm_range_validate_svm_bo) and the worker that evicts it.
THEOREM Invariance == BoSpec => []IInv
<1>1. BoInit => IInv
  BY InitIInv
<1>2. IInv /\ [BoNext]_bvars => IInv'
  BY NextIInv
<1> QED BY <1>1, <1>2, PTL DEF BoSpec

LEMMA PagesAreFrames == \A b : UsedBy(b) = Users(rng, b) /\ PagesIn(b) = Cardinality(Frames(rng, b))
BY DEF UsedBy, Users, PagesIn, Frames

\* svm_range_bo_ref and svm_range_bo_unref: through moves that fail, splits, reuse and
\* eviction an object has exactly the references of the ranges that use it, of its pages and
\* of its worker, and the ones that were lost, until a range puts one it does not have.
THEOREM ReferencesAreExact == BoSpec => []BoRefsExact
<1>1. ASSUME IInv PROVE BoRefsExact
  <2> SUFFICES ASSUME NEW b \in Bos, fault # "put"
               PROVE  bo[b].kref = Cardinality(UsedBy(b)) + PagesIn(b) + leaked[b]
                                   + IF wk[b].pc = "idle" THEN 0 ELSE 1
    BY <1>1 DEF IInv, BoRefsExact
  <2>1. bo[b].kref = Refs(rng, b) + Others(b)
    BY <1>1 DEF IInv, Counted
  <2>2. Refs(rng, b) = Cardinality(UsedBy(b)) + PagesIn(b)
    BY PagesAreFrames DEF Refs
  <2>3. Cardinality(UsedBy(b)) \in Nat /\ PagesIn(b) \in Nat /\ leaked[b] \in Nat
    BY <1>1, PagesAreFrames, FiniteRefs, Facts
  <2> QED BY <2>1, <2>2, <2>3 DEF Others
<1> QED BY <1>1, Invariance, PTL

\* svm_range_bo_release: when the last range is freed and no worker runs, no object is left
\* but for lost references; also when the last put was one too many.
THEOREM NothingIsLeft == BoSpec => []NoBoLeft
<1>1. ASSUME IInv PROVE NoBoLeft
  <2> SUFFICES ASSUME \A r \in Ranges : ~rng[r].exists, \A b \in Bos : wk[b].pc = "idle",
                      NEW b \in Bos, bo[b].state = "live"
               PROVE  leaked[b] > 0
    BY DEF NoBoLeft
  <2>1. \A r \in Ranges : rng[r] = NoRange
    BY <1>1, Facts DEF RangeInv
  <2>2. Users(rng, b) = {} /\ Frames(rng, b) = {}
    <3>1. NoRange.ttm_res = FALSE /\ NoRange.home = NULL
      BY DEF NoRange
    <3> QED BY <2>1, <3>1, Sizes DEF Users, Frames
  <2>3. Refs(rng, b) = 0
    BY <2>2, FS_EmptySet DEF Refs
  <2>4. bo[b].kref > 0 /\ bo[b].kref \in Int /\ bo[b].kref <= Refs(rng, b) + Others(b)
    <3>1. bo[b].kref > 0
      BY <1>1 DEF IInv, Lives
    <3>2. Refs(rng, b) \in Nat /\ Others(b) \in Nat /\ bo[b].kref \in Int
      BY <1>1, Facts
    <3>3. bo[b].kref <= Refs(rng, b) + Others(b)
      <4>1. CASE fault = "put"
        BY <1>1, <4>1 DEF IInv, Counted
      <4>2. CASE fault # "put"
        <5>1. bo[b].kref = Refs(rng, b) + Others(b)
          BY <1>1, <4>2 DEF IInv, Counted
        <5> QED BY <3>2, <5>1
      <4> QED BY <4>1, <4>2
    <3> QED BY <3>1, <3>2, <3>3
  <2>5. leaked[b] \in Nat
    BY <1>1, Facts
  <2> QED BY <2>3, <2>4, <2>5 DEF Others
<1> QED BY <1>1, Invariance, PTL

\* svm_range_evict_svm_bo_worker: when the fence of an object signals, and whenever pages are
\* moved into the object afterwards, they belong to a range that was taken off the list and
\* still uses the object; all others have been moved out, or moving them failed.
THEOREM FenceSignalsLate == BoSpec => FenceMeansListedOut
<1>1. IInv /\ [BoNext]_bvars => FenceStep
  BY NextIInv
<1>2. [][FenceStep]_bvars <=> FenceMeansListedOut
  BY PTL DEF FenceMeansListedOut
<1> QED BY <1>1, <1>2, Invariance, PTL DEF BoSpec
=============================================================================
