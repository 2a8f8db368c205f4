--------------------------- MODULE SvmRangesProofs ---------------------------
(***************************************************************************)
(* Proofs about SvmRanges, for any address space and block size: one range *)
(* for a page, no living range on pages that the CPU has unmapped, and,    *)
(* until a failing split has torn a range, no GPU mapping outside of       *)
(* ranges and attributes that survive every split.                         *)
(*                                                                         *)
(* The heart is Divides: parts divide an interval among them.  Every       *)
(* operation replaces parts by parts that divide the same interval, and    *)
(* Splits says what may happen to the living ones: they keep their         *)
(* attributes, and lose only pages that were unmapped.                     *)
(***************************************************************************)
EXTENDS SvmRanges, FiniteSetTheorems, SequenceTheorems, WellFoundedInduction, TLAPS

Kid      == [s : Pages, l : Pages, attr : Attrs, op : {"add", "unmap"}]
RangeRec == [it_s : Pages, it_l : Pages, s : Pages, l : Pages, attr : Attrs,
             op : {"none", "update", "unmap"}, kids : SUBSET Kid]

\* The range itself as one of its parts.
Own(n) == [s |-> n.s, l |-> n.l, attr |-> n.attr, op |-> n.op]

\* The parts S divide a .. b among them.
Divides(S, a, b) ==
  /\ \A x \in S : a <= x.s /\ x.s <= x.l /\ x.l <= b
  /\ \A x, y \in S : x = y \/ x.l < y.s \/ y.l < x.s
  /\ \A p \in a .. b : \E x \in S : In(p, x)

\* A range and its children divide the interval it has in the tree.
Shape(n) == Divides(Parts(n), n.it_s, n.it_l) /\ Own(n) \notin n.kids

\* A range that no work waits for.
Plain(n) == n.s = n.it_s /\ n.l = n.it_l /\ n.kids = {} /\ n.op = "none"

\* The tree is made of disjoint ranges.
Tree ==
  /\ tree \subseteq RangeRec
  /\ \A n \in tree : Shape(n)
  /\ \A m, n \in tree : m = n \/ m.it_l < n.it_s \/ n.it_l < m.it_s

\* The list has ranges of the tree, each once; those to be removed are on it, and, if none is
\* torn, all for which work waits.
Deferred ==
  /\ list \in Seq(Pages \X Pages) /\ IsInjective(list)
  /\ ToSet(list) \subseteq {Id(n) : n \in tree}
  /\ \A n \in tree : ~Listed(n) => n.op # "unmap" /\ (torn \/ Plain(n))
  /\ wk \in {"idle", "lock"} /\ (wk = "lock" => list # <<>>)

\* A part that is not to be removed has pages of the CPU only, and their attribute.
Sound(x) == \A p \in Pages : In(p, x) => p \in mapped /\ (torn \/ x.attr.cmp = want[p].cmp)
Contents == \A n \in tree : \A x \in Living(n) : Sound(x)

\* What is mapped on the GPU or has an attribute set has a range; what is unmapped has lost it.
Kept == torn \/
  /\ \A p \in gpu : InLiving(p)
  /\ \A p \in mapped : want[p].cmp # Default.cmp => InLiving(p)
  /\ \A p \in Pages \ mapped : want[p].cmp = Default.cmp

\* Ranges that are being mapped: one that munmap comes across before the look-up has lost its
\* pages, after that it is not valid.
Mapping ==
  /\ todo \subseteq {Id(n) : n \in tree}
  /\ \A g \in got : g.id \in {Id(n) : n \in tree} /\ g = [id |-> g.id, valid |-> g.valid]
  /\ got = {} \/ \E g : got = {g}
  /\ \A n \in tree : n.op = "unmap" => /\ Id(n) \in todo => n.s \notin mapped
                                       /\ \A g \in got : g.id = Id(n) => ~g.valid

Types ==
  /\ mapped \subseteq Pages /\ gpu \subseteq Pages /\ torn \in BOOLEAN
  /\ want \in [Pages -> Attrs]

IInv == Types /\ Tree /\ Deferred /\ Contents /\ Kept /\ Mapping
-----------------------------------------------------------------------------
(* Pages and records. *)

LEMMA PagesAre == /\ Pages \subseteq Nat /\ FirstPage \in Nat /\ LastPage \in Nat
                  /\ \A p : p \in Pages <=> p \in Int /\ FirstPage <= p /\ p <= LastPage
BY SpaceAssumption DEF Pages

\* An interval of pages.
LEMMA Between ==
  ASSUME NEW a \in Pages, NEW b \in Pages PROVE a .. b \subseteq Pages /\ \A p : p \in a .. b <=> p \in Pages /\ a <= p /\ p <= b
BY SpaceAssumption DEF Pages

LEMMA KidFields ==
  ASSUME NEW x \in Kid
  PROVE  x.s \in Pages /\ x.l \in Pages /\ x.s \in Int /\ x.l \in Int /\ x.attr \in Attrs /\ x.op \in {"add", "unmap"}
BY SpaceAssumption DEF Kid, Pages

LEMMA RangeFields ==
  ASSUME NEW n \in RangeRec
  PROVE  /\ n.it_s \in Pages /\ n.it_l \in Pages /\ n.s \in Pages /\ n.l \in Pages
         /\ n.it_s \in Int /\ n.it_l \in Int /\ n.s \in Int /\ n.l \in Int
         /\ n.attr \in Attrs /\ n.op \in {"none", "update", "unmap"} /\ n.kids \subseteq Kid
         /\ Parts(n) = n.kids \cup {Own(n)}
         /\ Own(n).s = n.s /\ Own(n).l = n.l /\ Own(n).attr = n.attr /\ Own(n).op = n.op
BY SpaceAssumption DEF RangeRec, Pages, Parts, Own

\* A part is a child or the range itself, whose op is another.
Part == [s : Pages, l : Pages, attr : Attrs, op : {"none", "update", "add", "unmap"}]

LEMMA PartFields ==
  ASSUME NEW x \in Part
  PROVE  x.s \in Pages /\ x.l \in Pages /\ x.s \in Int /\ x.l \in Int /\ x.attr \in Attrs
BY SpaceAssumption DEF Part, Pages

LEMMA KidIsPart == Kid \subseteq Part
BY DEF Kid, Part

LEMMA PartsArePart ==
  ASSUME NEW n \in RangeRec
  PROVE  Own(n) \in Part /\ Parts(n) \subseteq Part
<1>1. Own(n) \in Part
  BY DEF RangeRec, Own, Part
<1>2. n.kids \subseteq Kid /\ Parts(n) = n.kids \cup {Own(n)}
  BY RangeFields
<1> QED BY <1>1, <1>2, KidIsPart

\* A new range is plain, and has itself as its only part.
LEMMA NewRangeIs ==
  ASSUME NEW s \in Pages, NEW l \in Pages, s <= l, NEW attr \in Attrs
  PROVE  /\ NewRange(s, l, attr) \in RangeRec
         /\ NewRange(s, l, attr).it_s = s /\ NewRange(s, l, attr).it_l = l
         /\ Plain(NewRange(s, l, attr)) /\ Shape(NewRange(s, l, attr))
         /\ Parts(NewRange(s, l, attr)) = {[s |-> s, l |-> l, attr |-> attr, op |-> "none"]}
         /\ Living(NewRange(s, l, attr)) = {[s |-> s, l |-> l, attr |-> attr, op |-> "none"]}
         /\ Id(NewRange(s, l, attr)) = <<s, l>>
<1> DEFINE n == NewRange(s, l, attr)
           o == [s |-> s, l |-> l, attr |-> attr, op |-> "none"]
<1>1. n \in RangeRec
  BY DEF NewRange, RangeRec
<1>2. n.it_s = s /\ n.it_l = l /\ n.s = s /\ n.l = l /\ n.attr = attr /\ n.op = "none" /\ n.kids = {}
  BY DEF NewRange
<1>3. Parts(n) = {o} /\ Own(n) = o
  BY <1>2 DEF Parts, Own
<1>4. Living(n) = {o}
  BY <1>3 DEF Living
<1>5. Plain(n)
  BY <1>2 DEF Plain
<1>6. Shape(n)
  <2>1. \A p \in s .. l : In(p, o)
    BY Between DEF In
  <2>2. s \in Int /\ l \in Int
    BY PagesAre
  <2> QED BY <1>2, <1>3, <2>1, <2>2 DEF Shape, Divides
<1> QED BY <1>1, <1>2, <1>3, <1>4, <1>5, <1>6 DEF Id
-----------------------------------------------------------------------------
(* Parts that divide an interval. *)

\* Every part of S is replaced by parts that divide it.
LEMMA DivideAll ==
  ASSUME NEW S \in SUBSET Part, NEW a \in Int, NEW b \in Int, Divides(S, a, b),
         NEW D \in [S -> SUBSET Part], \A x \in S : Divides(D[x], x.s, x.l)
  PROVE  Divides(UNION {D[x] : x \in S}, a, b)
<1> DEFINE U == UNION {D[x] : x \in S}
<1>1. \A y \in U : \E x \in S : y \in D[x]
  OBVIOUS
<1>2. \A x \in S : x.s \in Int /\ x.l \in Int /\ \A y \in D[x] : y \in Part /\ y.s \in Int /\ y.l \in Int
  BY PartFields
<1>3. \A x \in S : a <= x.s /\ x.l <= b
  BY DEF Divides
<1>4. \A x \in S : \A y \in D[x] : x.s <= y.s /\ y.s <= y.l /\ y.l <= x.l
  BY DEF Divides
<1>5. ASSUME NEW y \in U PROVE a <= y.s /\ y.s <= y.l /\ y.l <= b
  <2>1. PICK x \in S : y \in D[x]
    BY <1>1
  <2> QED BY <2>1, <1>2, <1>3, <1>4
<1>6. ASSUME NEW y \in U, NEW z \in U PROVE y = z \/ y.l < z.s \/ z.l < y.s
  <2>1. PICK x \in S : y \in D[x]
    BY <1>1
  <2>2. PICK w \in S : z \in D[w]
    BY <1>1
  <2>3. CASE x = w
    <3>1. Divides(D[x], x.s, x.l) /\ z \in D[x]
      BY <2>2, <2>3
    <3> QED BY <3>1, <2>1 DEF Divides
  <2>4. CASE x # w
    <3>1. x.l < w.s \/ w.l < x.s
      BY <2>4 DEF Divides
    <3> QED BY <3>1, <2>1, <2>2, <1>2, <1>4
  <2> QED BY <2>3, <2>4
<1>7. ASSUME NEW p \in a .. b PROVE \E y \in U : In(p, y)
  <2>1. PICK x \in S : In(p, x)
    BY DEF Divides
  <2>2. p \in x.s .. x.l
    BY <2>1, <1>2 DEF In
  <2>3. PICK y \in D[x] : In(p, y)
    BY <2>2 DEF Divides
  <2> QED BY <2>3
<1> QED BY <1>5, <1>6, <1>7 DEF Divides

\* A part that stays as it is.
LEMMA DivideOne ==
  ASSUME NEW x, x.s \in Int, x.l \in Int, x.s <= x.l PROVE Divides({x}, x.s, x.l)
BY DEF Divides, In

\* What may happen to a part x when the pages S are unmapped: the parts D take its place,
\* those not to be removed have its attribute and lose exactly the pages S.
Splits(x, D, S) ==
  /\ Divides(D, x.s, x.l)
  /\ \A y \in D : y.op # "unmap" =>
        /\ x.op # "unmap" /\ y.attr = x.attr
        /\ \A p \in Pages : In(p, y) => p \notin S
  /\ x.op # "unmap" =>
        \A p \in Pages : In(p, x) /\ p \notin S => \E y \in D : y.op # "unmap" /\ In(p, y)

\* The same of a range n that becomes m.
Cuts(n, m, S) ==
  /\ \A y \in Living(m) : \E x \in Living(n) :
        x.attr = y.attr /\ \A p \in Pages : In(p, y) => In(p, x) /\ p \notin S
  /\ \A x \in Living(n) : \A p \in Pages :
        In(p, x) /\ p \notin S => \E y \in Living(m) : In(p, y)

\* A range stays in the tree with its extent, its children and itself are split.
LEMMA ReworkRange ==
  ASSUME NEW n \in RangeRec, Shape(n), NEW m \in RangeRec, NEW S,
         m.it_s = n.it_s, m.it_l = n.it_l,
         NEW D \in [n.kids -> SUBSET Kid], NEW K \in SUBSET Kid,
         m.kids = (UNION {D[x] : x \in n.kids}) \cup K,
         \A x \in n.kids : Splits(x, D[x], S),
         Splits(Own(n), {Own(m)} \cup K, S), Own(m) \notin K
  PROVE  Shape(m) /\ Cuts(n, m, S)
<1> DEFINE P == Parts(n)
           Q == {Own(m)} \cup K
           E == [x \in P |-> IF x = Own(n) THEN Q ELSE D[x]]
<1>1. P = n.kids \cup {Own(n)} /\ Own(n) \notin n.kids /\ P \subseteq Part /\ Divides(P, n.it_s, n.it_l)
  BY RangeFields, PartsArePart DEF Shape
<1>2. n.it_s \in Int /\ n.it_l \in Int
  BY RangeFields
<1>3. Own(m) \in Part /\ Q \subseteq Part
  BY PartsArePart, KidIsPart
<1>4. E \in [P -> SUBSET Part]
  BY <1>1, <1>3, KidIsPart
<1>5. \A x \in P : Splits(x, E[x], S)
  <2>1. E[Own(n)] = Q /\ \A x \in n.kids : E[x] = D[x]
    BY <1>1
  <2>2. \A x \in n.kids : Splits(x, E[x], S)
    BY <2>1
  <2>3. Splits(Own(n), E[Own(n)], S)
    BY <2>1
  <2> HIDE DEF E, P, Q
  <2> QED BY <2>2, <2>3, <1>1
<1>6. Parts(m) = UNION {E[x] : x \in P}
  <2>1. Parts(m) = m.kids \cup {Own(m)}
    BY RangeFields
  <2>2. \A x \in n.kids : x \in P /\ x # Own(n)
    BY <1>1
  <2>5. \A x \in n.kids : E[x] = D[x]
    BY <2>2
  <2>3. E[Own(n)] = Q
    BY <1>1
  <2>4. UNION {E[x] : x \in P} = (UNION {D[x] : x \in n.kids}) \cup Q
    <3> HIDE DEF E, Q
    <3> QED BY <1>1, <2>5, <2>3
  <2> QED BY <2>1, <2>4
<1>7. Divides(Parts(m), m.it_s, m.it_l)
  <2>1. \A x \in P : Divides(E[x], x.s, x.l)
    BY <1>5 DEF Splits
  <2> HIDE DEF E, P
  <2> QED BY <1>1, <1>2, <1>4, <1>6, <2>1, DivideAll
<1>8. Own(m) \notin m.kids
  <2> SUFFICES ASSUME Own(m) \in m.kids PROVE FALSE
    OBVIOUS
  <2>1. PICK x \in n.kids : Own(m) \in D[x]
    OBVIOUS
  <2>2. x \in P /\ x # Own(n) /\ Own(n) \in P
    BY <1>1
  <2>3. x.l < Own(n).s \/ Own(n).l < x.s
    BY <2>2, <1>1 DEF Divides
  <2>4. Divides(D[x], x.s, x.l) /\ Divides(Q, Own(n).s, Own(n).l)
    BY DEF Splits
  <2>5. /\ x.s <= Own(m).s /\ Own(m).s <= Own(m).l /\ Own(m).l <= x.l
        /\ Own(n).s <= Own(m).s /\ Own(m).l <= Own(n).l
    BY <2>1, <2>4 DEF Divides
  <2>6. x \in Part /\ Own(n) \in Part /\ Own(m) \in Part
    BY <1>1, <1>3
  <2>7. /\ x.s \in Int /\ x.l \in Int /\ Own(n).s \in Int /\ Own(n).l \in Int
        /\ Own(m).s \in Int /\ Own(m).l \in Int
    BY <2>6, PartFields
  <2> HIDE DEF P, Q
  <2> QED BY <2>3, <2>5, <2>7
<1>9. Shape(m)
  BY <1>7, <1>8 DEF Shape
<1> HIDE DEF E, P, Q
<1>10. \A y \in Living(m) : \E x \in Living(n) :
          x.attr = y.attr /\ \A p \in Pages : In(p, y) => In(p, x) /\ p \notin S
  <2> SUFFICES ASSUME NEW y \in Living(m)
               PROVE  \E x \in Living(n) :
                        x.attr = y.attr /\ \A p \in Pages : In(p, y) => In(p, x) /\ p \notin S
    OBVIOUS
  <2>1. y \in Parts(m) /\ y.op # "unmap"
    BY DEF Living
  <2>2. PICK x \in P : y \in E[x]
    BY <2>1, <1>6
  <2>3. /\ Divides(E[x], x.s, x.l) /\ x.op # "unmap" /\ y.attr = x.attr
        /\ \A p \in Pages : In(p, y) => p \notin S
    BY <2>1, <2>2, <1>5 DEF Splits
  <2>4. x \in Part /\ y \in Part
    BY <1>1, <1>4, <2>2
  <2>5. x.s \in Int /\ x.l \in Int /\ y.s \in Int /\ y.l \in Int
    BY <2>4, PartFields
  <2>6. x.s <= y.s /\ y.l <= x.l
    BY <2>2, <2>3 DEF Divides
  <2>7. \A p \in Pages : In(p, y) => In(p, x)
    BY <2>5, <2>6, PagesAre DEF In
  <2>8. x \in Living(n)
    BY <2>3, <1>1 DEF Living, P
  <2> QED BY <2>3, <2>7, <2>8
<1>11. \A x \in Living(n) : \A p \in Pages :
          In(p, x) /\ p \notin S => \E y \in Living(m) : In(p, y)
  <2> SUFFICES ASSUME NEW x \in Living(n), NEW p \in Pages, In(p, x), p \notin S
               PROVE  \E y \in Living(m) : In(p, y)
    OBVIOUS
  <2>1. x \in P /\ x.op # "unmap"
    BY DEF Living, P
  <2>2. PICK y \in E[x] : y.op # "unmap" /\ In(p, y)
    BY <2>1, <1>5 DEF Splits
  <2>3. y \in Living(m)
    BY <2>1, <2>2, <1>6 DEF Living
  <2> QED BY <2>2, <2>3
<1> QED BY <1>9, <1>10, <1>11 DEF Cuts
-----------------------------------------------------------------------------
(* Unmapping. *)

\* A part of x as UnmapSplit makes it, and x shortened.
LEMMA NewKid ==
  ASSUME NEW s \in Pages, NEW l \in Pages, NEW attr \in Attrs, NEW op \in {"add", "unmap"}
  PROVE  /\ [s |-> s, l |-> l, attr |-> attr, op |-> op] \in Kid
         /\ [s |-> s, l |-> l, attr |-> attr, op |-> op].s = s
         /\ [s |-> s, l |-> l, attr |-> attr, op |-> op].l = l
         /\ [s |-> s, l |-> l, attr |-> attr, op |-> op].attr = attr
         /\ [s |-> s, l |-> l, attr |-> attr, op |-> op].op = op
BY DEF Kid

LEMMA KidExcept ==
  ASSUME NEW x \in Kid, NEW q \in Pages
  PROVE  /\ [x EXCEPT !.s = q] \in Kid /\ [x EXCEPT !.l = q] \in Kid /\ [x EXCEPT !.op = "unmap"] \in Kid
         /\ [x EXCEPT !.s = q].s = q /\ [x EXCEPT !.s = q].l = x.l
         /\ [x EXCEPT !.s = q].attr = x.attr /\ [x EXCEPT !.s = q].op = x.op
         /\ [x EXCEPT !.l = q].s = x.s /\ [x EXCEPT !.l = q].l = q
         /\ [x EXCEPT !.l = q].attr = x.attr /\ [x EXCEPT !.l = q].op = x.op
         /\ [x EXCEPT !.op = "unmap"].s = x.s /\ [x EXCEPT !.op = "unmap"].l = x.l
         /\ [x EXCEPT !.op = "unmap"].op = "unmap"
BY DEF Kid

LEMMA RangeExcept ==
  ASSUME NEW n \in RangeRec, NEW q \in Pages
  PROVE  /\ [n EXCEPT !.s = q] \in RangeRec /\ [n EXCEPT !.l = q] \in RangeRec
         /\ [n EXCEPT !.s = q].s = q /\ [n EXCEPT !.s = q].l = n.l
         /\ [n EXCEPT !.l = q].s = n.s /\ [n EXCEPT !.l = q].l = q
         /\ [n EXCEPT !.s = q].attr = n.attr /\ [n EXCEPT !.s = q].op = n.op
         /\ [n EXCEPT !.l = q].attr = n.attr /\ [n EXCEPT !.l = q].op = n.op
         /\ [n EXCEPT !.s = q].it_s = n.it_s /\ [n EXCEPT !.s = q].it_l = n.it_l
         /\ [n EXCEPT !.l = q].it_s = n.it_s /\ [n EXCEPT !.l = q].it_l = n.it_l
         /\ [n EXCEPT !.s = q].kids = n.kids /\ [n EXCEPT !.l = q].kids = n.kids
BY DEF RangeRec

\* Pages s .. l in the middle, at the end or at the beginning of x are cut out of it.
LEMMA SplitMiddle ==
  ASSUME NEW x \in Part, NEW s \in Int, NEW l \in Int, x.s < s, s <= l, l < x.l, x.op # "unmap",
         NEW y \in Part, y.s = x.s, y.l = s - 1, y.attr = x.attr, y.op # "unmap",
         NEW z \in Part, z.s = s, z.l = l, z.op = "unmap",
         NEW w \in Part, w.s = l + 1, w.l = x.l, w.attr = x.attr, w.op # "unmap"
  PROVE  Splits(x, {y, z, w}, s .. l)
<1>1. x.s \in Int /\ x.l \in Int
  BY PartFields
<1>2. Divides({y, z, w}, x.s, x.l)
  BY <1>1 DEF Divides, In
<1>3. ASSUME NEW p \in Pages PROVE In(p, y) \/ In(p, w) <=> In(p, x) /\ p \notin s .. l
  <2>1. p \in Int
    BY PagesAre
  <2> QED BY <1>1, <2>1 DEF In
<1> QED BY <1>2, <1>3 DEF Splits

LEMMA SplitTail ==
  ASSUME NEW x \in Part, NEW s \in Int, NEW l \in Int, x.s < s, s <= x.l, x.l <= l, x.op # "unmap",
         NEW y \in Part, y.s = x.s, y.l = s - 1, y.attr = x.attr, y.op # "unmap",
         NEW z \in Part, z.s = s, z.l = x.l, z.op = "unmap"
  PROVE  Splits(x, {y, z}, s .. l)
<1>1. x.s \in Int /\ x.l \in Int
  BY PartFields
<1>2. Divides({y, z}, x.s, x.l)
  BY <1>1 DEF Divides, In
<1>3. ASSUME NEW p \in Pages PROVE In(p, y) <=> In(p, x) /\ p \notin s .. l
  <2>1. p \in Int
    BY PagesAre
  <2> QED BY <1>1, <2>1 DEF In
<1> QED BY <1>2, <1>3 DEF Splits

LEMMA SplitHead ==
  ASSUME NEW x \in Part, NEW s \in Int, NEW l \in Int, s <= x.s, x.s <= l, l < x.l, x.op # "unmap",
         NEW y \in Part, y.s = l + 1, y.l = x.l, y.attr = x.attr, y.op # "unmap",
         NEW z \in Part, z.s = x.s, z.l = l, z.op = "unmap"
  PROVE  Splits(x, {y, z}, s .. l)
<1>1. x.s \in Int /\ x.l \in Int
  BY PartFields
<1>2. Divides({y, z}, x.s, x.l)
  BY <1>1 DEF Divides, In
<1>3. ASSUME NEW p \in Pages PROVE In(p, y) <=> In(p, x) /\ p \notin s .. l
  <2>1. p \in Int
    BY PagesAre
  <2> QED BY <1>1, <2>1 DEF In
<1> QED BY <1>2, <1>3 DEF Splits

\* All of x is cut out.
LEMMA SplitWhole ==
  ASSUME NEW x \in Part, NEW s \in Int, NEW l \in Int, s <= x.s, x.s <= x.l, x.l <= l,
         NEW y \in Part, y.s = x.s, y.l = x.l, y.op = "unmap"
  PROVE  Splits(x, {y}, s .. l)
<1>1. x.s \in Int /\ x.l \in Int
  BY PartFields
<1>2. Divides({y}, x.s, x.l)
  BY <1>1 DEF Divides, In
<1>3. ASSUME NEW p \in Pages PROVE In(p, x) => p \in s .. l
  <2>1. p \in Int
    BY PagesAre
  <2> QED BY <1>1, <2>1 DEF In
<1> QED BY <1>2, <1>3 DEF Splits

\* None of x that is not to be removed is cut out.
LEMMA SplitNone ==
  ASSUME NEW x \in Part, x.s <= x.l, NEW s \in Int, NEW l \in Int, x.op = "unmap" \/ x.l < s \/ l < x.s,
         NEW y \in Part, y.s = x.s, y.l = x.l, y.attr = x.attr, y.op = "unmap" <=> x.op = "unmap"
  PROVE  Splits(x, {y}, s .. l)
<1>1. x.s \in Int /\ x.l \in Int
  BY PartFields
<1>2. Divides({y}, x.s, x.l)
  BY <1>1 DEF Divides, In
<1>3. ASSUME NEW p \in Pages, x.op # "unmap" PROVE In(p, y) <=> In(p, x) /\ p \notin s .. l
  <2>1. p \in Int
    BY PagesAre
  <2> QED BY <1>1, <1>3, <2>1 DEF In
<1> QED BY <1>2, <1>3 DEF Splits

\* What svm_range_unmap_split makes of a child.
LEMMA UnmapKid ==
  ASSUME NEW x \in Kid, x.s <= x.l, NEW s \in Pages, NEW l \in Pages, s <= l,
         NEW u, u = UnmapSplit(x, s, l, FALSE)
  PROVE  u.rest \in Kid /\ u.kids \subseteq Kid /\ Splits(x, {u.rest} \cup u.kids, s .. l)
<1> DEFINE D == {u.rest} \cup u.kids
<1>1. /\ x.s \in Pages /\ x.l \in Pages /\ x.s \in Int /\ x.l \in Int /\ x.attr \in Attrs
      /\ x.op \in {"add", "unmap"} /\ s \in Int /\ l \in Int /\ x \in Part
  BY KidFields, PagesAre, KidIsPart
<1> DEFINE b == s - 1
           e == l + 1
<1>2. b \in Int /\ e \in Int /\ (x.s < s => b \in Pages) /\ (l < x.l => e \in Pages)
  BY <1>1, PagesAre
<1>3. CASE x.op = "unmap" \/ s > x.l \/ l < x.s
  <2>1. u.rest = x /\ u.kids = {}
    BY <1>3 DEF UnmapSplit
  <2>2. D = {x}
    BY <2>1
  <2>3. Splits(x, {x}, s .. l)
    BY <1>1, <1>3, SplitNone
  <2> QED BY <2>1, <2>2, <2>3
<1>4. CASE ~(x.op = "unmap" \/ s > x.l \/ l < x.s) /\ s > x.s /\ l < x.l
  <2> DEFINE y == [x EXCEPT !.l = b]
             z == [s |-> s, l |-> l, attr |-> x.attr, op |-> "unmap"]
             w == [s |-> e, l |-> x.l, attr |-> x.attr, op |-> "add"]
  <2>1. u.rest = y /\ u.kids = {z, w}
    BY <1>4 DEF UnmapSplit
  <2>2. b \in Pages /\ e \in Pages
    BY <1>1, <1>2, <1>4
  <2> HIDE DEF b, e
  <2>3. y \in Kid /\ y.s = x.s /\ y.l = b /\ y.attr = x.attr /\ y.op = x.op
    BY <2>2, KidExcept
  <2>4. z \in Kid /\ z.s = s /\ z.l = l /\ z.op = "unmap"
    BY <1>1, NewKid
  <2>5. w \in Kid /\ w.s = e /\ w.l = x.l /\ w.op = "add" /\ w.attr = x.attr
    BY <1>1, <2>2, NewKid
  <2> HIDE DEF y, z, w
  <2>6. b = s - 1 /\ e = l + 1
    BY DEF b, e
  <2>7. Splits(x, {y, z, w}, s .. l)
    BY <1>1, <1>4, <2>3, <2>4, <2>5, <2>6, KidIsPart, SplitMiddle
  <2>8. D = {y, z, w}
    BY <2>1
  <2> QED BY <2>1, <2>3, <2>4, <2>5, <2>7, <2>8
<1>5. CASE ~(x.op = "unmap" \/ s > x.l \/ l < x.s) /\ s > x.s /\ ~(l < x.l)
  <2> DEFINE y == [x EXCEPT !.l = b]
             z == [s |-> s, l |-> x.l, attr |-> x.attr, op |-> "unmap"]
  <2>1. u.rest = y /\ u.kids = {z}
    BY <1>1, <1>5 DEF UnmapSplit
  <2>2. b \in Pages
    BY <1>1, <1>2, <1>5
  <2> HIDE DEF b
  <2>3. y \in Kid /\ y.s = x.s /\ y.l = b /\ y.attr = x.attr /\ y.op = x.op
    BY <2>2, KidExcept
  <2>4. z \in Kid /\ z.s = s /\ z.l = x.l /\ z.op = "unmap"
    BY <1>1, NewKid
  <2> HIDE DEF y, z
  <2>6. b = s - 1
    BY DEF b
  <2>7. Splits(x, {y, z}, s .. l)
    BY <1>1, <1>5, <2>3, <2>4, <2>6, KidIsPart, SplitTail
  <2>8. D = {y, z}
    BY <2>1
  <2> QED BY <2>1, <2>3, <2>4, <2>7, <2>8
<1>6. CASE ~(x.op = "unmap" \/ s > x.l \/ l < x.s) /\ ~(s > x.s) /\ l < x.l
  <2> DEFINE y == [x EXCEPT !.s = e]
             z == [s |-> x.s, l |-> l, attr |-> x.attr, op |-> "unmap"]
  <2>1. u.rest = y /\ u.kids = {z}
    BY <1>1, <1>6 DEF UnmapSplit
  <2>2. e \in Pages
    BY <1>1, <1>2, <1>6
  <2> HIDE DEF e
  <2>3. y \in Kid /\ y.s = e /\ y.l = x.l /\ y.attr = x.attr /\ y.op = x.op
    BY <2>2, KidExcept
  <2>4. z \in Kid /\ z.s = x.s /\ z.l = l /\ z.op = "unmap"
    BY <1>1, NewKid
  <2> HIDE DEF y, z
  <2>6. e = l + 1
    BY DEF e
  <2>7. Splits(x, {y, z}, s .. l)
    BY <1>1, <1>6, <2>3, <2>4, <2>6, KidIsPart, SplitHead
  <2>8. D = {y, z}
    BY <2>1
  <2> QED BY <2>1, <2>3, <2>4, <2>7, <2>8
<1>7. CASE ~(x.op = "unmap" \/ s > x.l \/ l < x.s) /\ ~(s > x.s) /\ ~(l < x.l)
  <2> DEFINE y == [x EXCEPT !.op = "unmap"]
  <2>1. u.rest = y /\ u.kids = {}
    BY <1>7 DEF UnmapSplit
  <2>3. y \in Kid /\ y.s = x.s /\ y.l = x.l /\ y.op = "unmap"
    BY <1>1, KidExcept
  <2> HIDE DEF y
  <2>7. Splits(x, {y}, s .. l)
    BY <1>1, <1>7, <2>3, KidIsPart, SplitWhole
  <2>8. D = {y}
    BY <2>1
  <2> QED BY <2>1, <2>3, <2>7, <2>8
<1> QED BY <1>3, <1>4, <1>5, <1>6, <1>7

\* A range r that another was cut to gets children and work to do.
Work(r, K, op) == AddListWork([r EXCEPT !.kids = K], op)

\* The work of a range whose pages s .. l were unmapped.
UnmapOp(n, s, l) == IF s <= n.s /\ l >= n.l THEN "unmap" ELSE "update"

\* What m has of n, of r, of the children K and of the op: an unmapping stays.
Reworked(m, n, r, K, op) ==
  /\ m \in RangeRec /\ m.it_s = n.it_s /\ m.it_l = n.it_l
  /\ m.s = r.s /\ m.l = r.l /\ m.attr = r.attr /\ m.kids = K
  /\ m.op = IF n.op = "unmap" THEN "unmap" ELSE op

LEMMA Worked ==
  ASSUME NEW n \in RangeRec, n.op = "unmap" => Listed(n),
         NEW r \in RangeRec, r.it_s = n.it_s, r.it_l = n.it_l, r.op = n.op,
         NEW K \in SUBSET Kid, NEW op \in {"update", "unmap"},
         NEW m, m = Work(r, K, op)
  PROVE  Reworked(m, n, r, K, op)
<1> DEFINE q == [r EXCEPT !.kids = K]
           o == IF Listed(q) /\ q.op = "unmap" THEN "unmap" ELSE op
<1>1. /\ q \in RangeRec /\ q.it_s = n.it_s /\ q.it_l = n.it_l /\ q.s = r.s /\ q.l = r.l
      /\ q.attr = r.attr /\ q.kids = K /\ q.op = n.op
  BY DEF RangeRec
<1>2. Id(q) = Id(n)
  BY <1>1 DEF Id
<1>3. o = IF n.op = "unmap" THEN "unmap" ELSE op
  BY <1>1, <1>2 DEF Listed
<1>4. m = [q EXCEPT !.op = o]
  BY DEF AddListWork, Work
<1>5. o \in {"none", "update", "unmap"}
  BY <1>3
<1> HIDE DEF q, o
<1>6. /\ m \in RangeRec /\ m.it_s = q.it_s /\ m.it_l = q.it_l /\ m.s = q.s /\ m.l = q.l
      /\ m.attr = q.attr /\ m.kids = q.kids /\ m.op = o
  BY <1>1, <1>4, <1>5 DEF RangeRec
<1> QED BY <1>1, <1>3, <1>6 DEF Reworked

\* A range n is m now, with children K and L, of which L and itself take its place.
Unmapped(n, m, L, K, S) ==
  /\ m \in RangeRec /\ m.it_s = n.it_s /\ m.it_l = n.it_l
  /\ L \subseteq Kid /\ m.kids = K \cup L
  /\ Splits(Own(n), {Own(m)} \cup L, S) /\ Own(m) \notin L

\* The same of the range itself, which gets children K besides.
LEMMA UnmapOwn ==
  ASSUME NEW n \in RangeRec, n.s <= n.l, n.op = "unmap" => Listed(n),
         NEW s \in Pages, NEW l \in Pages, s <= l,
         NEW u, u = UnmapSplit(n, s, l, TRUE), NEW K \in SUBSET Kid,
         NEW op, op = UnmapOp(n, s, l),
         NEW m, m = Work(u.rest, K \cup u.kids, op)
  PROVE  Unmapped(n, m, u.kids, K, s .. l)
<1> SUFFICES /\ m \in RangeRec /\ m.it_s = n.it_s /\ m.it_l = n.it_l
             /\ u.kids \subseteq Kid /\ m.kids = K \cup u.kids
             /\ Splits(Own(n), {Own(m)} \cup u.kids, s .. l) /\ Own(m) \notin u.kids
  BY DEF Unmapped
<1> DEFINE o == IF n.op = "unmap" THEN "unmap" ELSE op
           b == s - 1
           e == l + 1
           X == Own(n)
           Y == Own(m)
<1>1. /\ n.s \in Pages /\ n.l \in Pages /\ n.s \in Int /\ n.l \in Int /\ n.attr \in Attrs
      /\ n.op \in {"none", "update", "unmap"} /\ s \in Int /\ l \in Int /\ X \in Part
      /\ X.s = n.s /\ X.l = n.l /\ X.attr = n.attr /\ X.op = n.op
  BY RangeFields, PagesAre, PartsArePart DEF X
<1>2. b \in Int /\ e \in Int /\ (n.s < s => b \in Pages) /\ (l < n.l => e \in Pages)
  BY <1>1, PagesAre
<1>3. op = (IF s <= n.s /\ l >= n.l THEN "unmap" ELSE "update") /\ op \in {"update", "unmap"}
  BY DEF UnmapOp
<1>13. op \in {"update", "unmap"}
  BY <1>3
<1>4. ASSUME u.rest \in RangeRec, u.rest.it_s = n.it_s, u.rest.it_l = n.it_l, u.rest.op = n.op,
             u.rest.attr = n.attr, u.kids \subseteq Kid
      PROVE  /\ m \in RangeRec /\ m.it_s = n.it_s /\ m.it_l = n.it_l
             /\ m.kids = K \cup u.kids
             /\ Y \in Part /\ Y.s = u.rest.s /\ Y.l = u.rest.l
             /\ Y.attr = n.attr /\ Y.op = o
  <2>1. /\ m \in RangeRec /\ m.it_s = n.it_s /\ m.it_l = n.it_l
        /\ m.s = u.rest.s /\ m.l = u.rest.l /\ m.attr = u.rest.attr /\ m.kids = K \cup u.kids
        /\ m.op = o
    <3> DEFINE L == K \cup u.kids
               r == u.rest
    <3>1. L \in SUBSET Kid /\ r \in RangeRec /\ r.it_s = n.it_s /\ r.it_l = n.it_l /\ r.op = n.op
      BY <1>4
    <3>2. m = Work(r, L, op)
      OBVIOUS
    <3>3. L = K \cup u.kids /\ r = u.rest
      OBVIOUS
    <3> HIDE DEF L, r
    <3>4. Reworked(m, n, r, L, op)
      BY <1>13, <3>1, <3>2, Worked
    <3> QED BY <3>3, <3>4 DEF Reworked
  <2>3. Y \in Part /\ Y.s = m.s /\ Y.l = m.l /\ Y.attr = m.attr /\ Y.op = m.op
    BY <2>1, PartsArePart, RangeFields DEF Y
  <2> QED BY <2>1, <2>3, <1>4
<1>10. X = Own(n) /\ Y = Own(m)
  OBVIOUS
<1> HIDE DEF X, Y
<1>5. CASE n.op = "unmap" \/ s > n.l \/ l < n.s
  <2>1. u.rest = n /\ u.kids = {}
    BY <1>5 DEF UnmapSplit
  <2>2. n.op = "unmap" \/ op = "update"
    BY <1>1, <1>3, <1>5
  <2>3. o = "unmap" <=> n.op = "unmap"
    BY <2>2
  <2>4. /\ m \in RangeRec /\ m.it_s = n.it_s /\ m.it_l = n.it_l
        /\ m.kids = K \cup u.kids
        /\ Y \in Part /\ Y.s = n.s /\ Y.l = n.l /\ Y.attr = n.attr /\ Y.op = o
    BY <1>4, <2>1
  <2> HIDE DEF o
  <2>5. Splits(X, {Y}, s .. l)
    BY <1>1, <1>5, <2>3, <2>4, SplitNone
  <2>6. {Y} \cup u.kids = {Y}
    BY <2>1
  <2> QED BY <1>10, <2>1, <2>4, <2>5, <2>6
<1>6. CASE ~(n.op = "unmap" \/ s > n.l \/ l < n.s) /\ s > n.s /\ l < n.l
  <2> DEFINE y == [n EXCEPT !.l = b]
             z == [s |-> s, l |-> l, attr |-> n.attr, op |-> "unmap"]
             w == [s |-> e, l |-> n.l, attr |-> n.attr, op |-> "add"]
  <2>1. u.rest = y /\ u.kids = {z, w}
    BY <1>6 DEF UnmapSplit
  <2>2. b \in Pages /\ e \in Pages /\ o = "update" /\ b = s - 1 /\ e = l + 1
    BY <1>1, <1>2, <1>3, <1>6
  <2> HIDE DEF b, e, o
  <2>3. /\ y \in RangeRec /\ y.s = n.s /\ y.l = b /\ y.attr = n.attr /\ y.op = n.op
        /\ y.it_s = n.it_s /\ y.it_l = n.it_l
    BY <2>2, RangeExcept
  <2>4. z \in Kid /\ z.s = s /\ z.l = l /\ z.op = "unmap"
    BY <1>1, NewKid
  <2>5. w \in Kid /\ w.s = e /\ w.l = n.l /\ w.op = "add" /\ w.attr = n.attr
    BY <1>1, <2>2, NewKid
  <2> HIDE DEF y, z, w
  <2>10. /\ u.rest \in RangeRec /\ u.rest.it_s = n.it_s /\ u.rest.it_l = n.it_l /\ u.rest.op = n.op
         /\ u.rest.attr = n.attr /\ u.kids \subseteq Kid /\ u.rest.s = y.s /\ u.rest.l = y.l
    BY <2>1, <2>3, <2>4, <2>5
  <2>6. /\ m \in RangeRec /\ m.it_s = n.it_s /\ m.it_l = n.it_l
        /\ m.kids = K \cup u.kids
        /\ Y \in Part /\ Y.s = n.s /\ Y.l = b /\ Y.attr = n.attr /\ Y.op = o
    BY <1>4, <2>3, <2>10
  <2>7. Splits(X, {Y, z, w}, s .. l)
    BY <1>1, <1>6, <2>2, <2>4, <2>5, <2>6, KidIsPart, SplitMiddle
  <2>8. {Y} \cup u.kids = {Y, z, w}
    BY <2>1
  <2>9. Y # z /\ Y # w
    BY <2>2, <2>4, <2>5, <2>6
  <2> QED BY <1>10, <2>1, <2>4, <2>5, <2>6, <2>7, <2>8, <2>9
<1>7. CASE ~(n.op = "unmap" \/ s > n.l \/ l < n.s) /\ s > n.s /\ ~(l < n.l)
  <2> DEFINE y == [n EXCEPT !.l = b]
             z == [s |-> s, l |-> n.l, attr |-> n.attr, op |-> "unmap"]
  <2>1. u.rest = y /\ u.kids = {z}
    BY <1>1, <1>7 DEF UnmapSplit
  <2>2. b \in Pages /\ o = "update" /\ b = s - 1
    BY <1>1, <1>2, <1>3, <1>7
  <2> HIDE DEF b, o
  <2>3. /\ y \in RangeRec /\ y.s = n.s /\ y.l = b /\ y.attr = n.attr /\ y.op = n.op
        /\ y.it_s = n.it_s /\ y.it_l = n.it_l
    BY <2>2, RangeExcept
  <2>4. z \in Kid /\ z.s = s /\ z.l = n.l /\ z.op = "unmap"
    BY <1>1, NewKid
  <2> HIDE DEF y, z
  <2>10. /\ u.rest \in RangeRec /\ u.rest.it_s = n.it_s /\ u.rest.it_l = n.it_l /\ u.rest.op = n.op
         /\ u.rest.attr = n.attr /\ u.kids \subseteq Kid /\ u.rest.s = y.s /\ u.rest.l = y.l
    BY <2>1, <2>3, <2>4
  <2>6. /\ m \in RangeRec /\ m.it_s = n.it_s /\ m.it_l = n.it_l
        /\ m.kids = K \cup u.kids
        /\ Y \in Part /\ Y.s = n.s /\ Y.l = b /\ Y.attr = n.attr /\ Y.op = o
    BY <1>4, <2>3, <2>10
  <2>7. Splits(X, {Y, z}, s .. l)
    BY <1>1, <1>7, <2>2, <2>4, <2>6, KidIsPart, SplitTail
  <2>8. {Y} \cup u.kids = {Y, z}
    BY <2>1
  <2>9. Y # z
    BY <2>2, <2>4, <2>6
  <2> QED BY <1>10, <2>1, <2>4, <2>6, <2>7, <2>8, <2>9
<1>8. CASE ~(n.op = "unmap" \/ s > n.l \/ l < n.s) /\ ~(s > n.s) /\ l < n.l
  <2> DEFINE y == [n EXCEPT !.s = e]
             z == [s |-> n.s, l |-> l, attr |-> n.attr, op |-> "unmap"]
  <2>1. u.rest = y /\ u.kids = {z}
    BY <1>1, <1>8 DEF UnmapSplit
  <2>2. e \in Pages /\ o = "update" /\ e = l + 1
    BY <1>1, <1>2, <1>3, <1>8
  <2> HIDE DEF e, o
  <2>3. /\ y \in RangeRec /\ y.s = e /\ y.l = n.l /\ y.attr = n.attr /\ y.op = n.op
        /\ y.it_s = n.it_s /\ y.it_l = n.it_l
    BY <2>2, RangeExcept
  <2>4. z \in Kid /\ z.s = n.s /\ z.l = l /\ z.op = "unmap"
    BY <1>1, NewKid
  <2> HIDE DEF y, z
  <2>10. /\ u.rest \in RangeRec /\ u.rest.it_s = n.it_s /\ u.rest.it_l = n.it_l /\ u.rest.op = n.op
         /\ u.rest.attr = n.attr /\ u.kids \subseteq Kid /\ u.rest.s = y.s /\ u.rest.l = y.l
    BY <2>1, <2>3, <2>4
  <2>6. /\ m \in RangeRec /\ m.it_s = n.it_s /\ m.it_l = n.it_l
        /\ m.kids = K \cup u.kids
        /\ Y \in Part /\ Y.s = e /\ Y.l = n.l /\ Y.attr = n.attr /\ Y.op = o
    BY <1>4, <2>3, <2>10
  <2>7. Splits(X, {Y, z}, s .. l)
    BY <1>1, <1>8, <2>2, <2>4, <2>6, KidIsPart, SplitHead
  <2>8. {Y} \cup u.kids = {Y, z}
    BY <2>1
  <2>9. Y # z
    BY <2>2, <2>4, <2>6
  <2> QED BY <1>10, <2>1, <2>4, <2>6, <2>7, <2>8, <2>9
<1>9. CASE ~(n.op = "unmap" \/ s > n.l \/ l < n.s) /\ ~(s > n.s) /\ ~(l < n.l)
  <2>1. u.rest = n /\ u.kids = {}
    BY <1>9 DEF UnmapSplit
  <2>2. o = "unmap"
    BY <1>1, <1>3, <1>9
  <2> HIDE DEF o
  <2>4. /\ m \in RangeRec /\ m.it_s = n.it_s /\ m.it_l = n.it_l
        /\ m.kids = K \cup u.kids
        /\ Y \in Part /\ Y.s = n.s /\ Y.l = n.l /\ Y.attr = n.attr /\ Y.op = o
    BY <1>4, <2>1
  <2>5. Splits(X, {Y}, s .. l)
    BY <1>1, <1>9, <2>2, <2>4, SplitWhole
  <2>6. {Y} \cup u.kids = {Y}
    BY <2>1
  <2> QED BY <1>10, <2>1, <2>4, <2>5, <2>6
<1> QED BY <1>5, <1>6, <1>7, <1>8, <1>9

\* What svm_range_unmap_from_cpu makes of a range: its children first, then itself.
LEMMA UnmapRange ==
  ASSUME NEW n \in RangeRec, Shape(n), n.op = "unmap" => Listed(n),
         NEW s \in Pages, NEW l \in Pages, s <= l,
         NEW m, m = UnmapFromCpu(n, s, l)
  PROVE  /\ m \in RangeRec /\ m.it_s = n.it_s /\ m.it_l = n.it_l
         /\ Shape(m) /\ Cuts(n, m, s .. l)
<1> DEFINE U(x) == UnmapSplit(x, s, l, FALSE)
           D == [x \in n.kids |-> {U(x).rest} \cup U(x).kids]
           K == UNION {D[x] : x \in n.kids}
           u == UnmapSplit(n, s, l, TRUE)
           op == UnmapOp(n, s, l)
<1>1. n.kids \subseteq Kid /\ Parts(n) = n.kids \cup {Own(n)} /\ Own(n).s = n.s /\ Own(n).l = n.l
  BY RangeFields
<1>2. n.s <= n.l /\ \A x \in n.kids : x.s <= x.l
  BY <1>1 DEF Shape, Divides
<1>3. ASSUME NEW x \in n.kids PROVE D[x] \in SUBSET Kid /\ Splits(x, D[x], s .. l)
  <2> DEFINE v == U(x)
  <2>1. v.rest \in Kid /\ v.kids \subseteq Kid /\ Splits(x, {v.rest} \cup v.kids, s .. l)
    <3>1. x \in Kid /\ x.s <= x.l /\ v = UnmapSplit(x, s, l, FALSE)
      BY <1>1, <1>2
    <3> HIDE DEF v
    <3> QED BY <3>1, UnmapKid
  <2>2. D[x] = {v.rest} \cup v.kids
    OBVIOUS
  <2> HIDE DEF v, D
  <2> QED BY <2>1, <2>2
<1>4. D \in [n.kids -> SUBSET Kid] /\ K \in SUBSET Kid
  <2>1. \A x \in n.kids : D[x] \in SUBSET Kid
    BY <1>3
  <2>2. D = [x \in n.kids |-> D[x]]
    OBVIOUS
  <2> HIDE DEF D
  <2> QED BY <2>1, <2>2
<1>5. m = Work(u.rest, K \cup u.kids, op)
  <2> DEFINE kid == {U(x) : x \in n.kids}
             kids == {v.rest : v \in kid} \cup (UNION {v.kids : v \in kid})
  <2>1. m = AddListWork([u.rest EXCEPT !.kids = kids \cup u.kids], op)
    BY DEF UnmapFromCpu, UnmapOp
  <2>2. kids = K
    <3> HIDE DEF U
    <3>1. ASSUME NEW y \in kids PROVE y \in K
      <4>1. PICK x \in n.kids : y = U(x).rest \/ y \in U(x).kids
        OBVIOUS
      <4>2. y \in D[x]
        BY <4>1
      <4> QED BY <4>2
    <3>2. ASSUME NEW y \in K PROVE y \in kids
      <4>1. PICK x \in n.kids : y \in D[x]
        OBVIOUS
      <4>2. y = U(x).rest \/ y \in U(x).kids
        BY <4>1
      <4> QED BY <4>2
    <3> QED BY <3>1, <3>2
  <2> QED BY <2>1, <2>2 DEF Work
<1>10. u = UnmapSplit(n, s, l, TRUE) /\ op = UnmapOp(n, s, l)
  OBVIOUS
<1> HIDE DEF D, K, u, op
<1>11. Unmapped(n, m, u.kids, K, s .. l)
  BY <1>2, <1>4, <1>5, <1>10, UnmapOwn
<1>6. /\ m \in RangeRec /\ m.it_s = n.it_s /\ m.it_l = n.it_l
      /\ u.kids \subseteq Kid /\ m.kids = K \cup u.kids
      /\ Splits(Own(n), {Own(m)} \cup u.kids, s .. l) /\ Own(m) \notin u.kids
  BY <1>11 DEF Unmapped
<1>7. m.kids = (UNION {D[x] : x \in n.kids}) \cup u.kids
  BY <1>6 DEF K
<1>8. \A x \in n.kids : Splits(x, D[x], s .. l)
  BY <1>3
<1>9. Shape(m) /\ Cuts(n, m, s .. l)
  BY <1>4, <1>6, <1>7, <1>8, ReworkRange
<1> QED BY <1>6, <1>9

\* What is to be removed has lost its pages, now or before.
LEMMA UnmapRangeOp ==
  ASSUME NEW n \in RangeRec, Shape(n), NEW s \in Pages, NEW l \in Pages, s <= l,
         NEW m, m = UnmapFromCpu(n, s, l), m.op = "unmap"
  PROVE  m.s = n.s /\ (n.op = "unmap" \/ n.s \in s .. l)
<1> DEFINE u == UnmapSplit(n, s, l, TRUE)
           op == IF s <= n.s /\ l >= n.l THEN "unmap" ELSE "update"
<1>1. /\ n.s \in Pages /\ n.l \in Pages /\ n.s \in Int /\ n.l \in Int /\ s \in Int /\ l \in Int /\ n.s <= n.l
  <2>1. Own(n) \in Parts(n) /\ Own(n).s = n.s /\ Own(n).l = n.l
    BY RangeFields
  <2>2. n.s <= n.l
    BY <2>1 DEF Shape, Divides
  <2> QED BY <2>2, RangeFields, PagesAre
<1>2. PICK K : m = AddListWork([u.rest EXCEPT !.kids = K], op)
  BY DEF UnmapFromCpu
<1>3. u = UnmapSplit(n, s, l, TRUE) /\ op = (IF s <= n.s /\ l >= n.l THEN "unmap" ELSE "update")
  OBVIOUS
<1> HIDE DEF u, op
<1>4. u.rest = n \/ u.rest = [n EXCEPT !.l = s - 1] \/ u.rest = [n EXCEPT !.s = l + 1]
  BY <1>3 DEF UnmapSplit
<1>5. n.op = "unmap" \/ (s <= n.s /\ n.l <= l) => u.rest = n
  BY <1>1, <1>3 DEF UnmapSplit
<1> DEFINE r == u.rest
           q == [r EXCEPT !.kids = K]
           o == IF Listed(q) /\ q.op = "unmap" THEN "unmap" ELSE op
<1>6. r.op = n.op /\ q.op = r.op /\ q.s = r.s
  BY <1>4 DEF RangeRec
<1>7. m = [q EXCEPT !.op = o]
  BY <1>2 DEF AddListWork
<1>8. m.op = o /\ m.s = q.s
  <2>1. \E S : r \in [it_s : Pages, it_l : Pages, s : S, l : S, attr : Attrs,
                      op : {"none", "update", "unmap"}, kids : SUBSET Kid]
    <3>1. r \in [it_s : Pages, it_l : Pages, s : Int, l : Int, attr : Attrs,
                 op : {"none", "update", "unmap"}, kids : SUBSET Kid]
      BY <1>1, <1>4 DEF RangeRec
    <3> QED BY <3>1
  <2> HIDE DEF r, o
  <2> QED BY <1>7, <2>1
<1> HIDE DEF r, q, o
<1>9. CASE n.op = "unmap"
  BY <1>5, <1>6, <1>8, <1>9 DEF r
<1>10. CASE n.op # "unmap"
  <2>1. o = op
    BY <1>6, <1>10 DEF o
  <2>2. s <= n.s /\ n.l <= l
    BY <1>1, <1>3, <1>8, <2>1
  <2>3. m.s = n.s
    BY <1>5, <1>6, <1>8, <2>2 DEF r
  <2> QED BY <1>1, <2>2, <2>3
<1> QED BY <1>9, <1>10
-----------------------------------------------------------------------------
(* Trimming to a block. *)

\* The block of page p.
BlockS(p) == (p \div GRANULE) * GRANULE
BlockL(p) == BlockS(p) + GRANULE - 1

LEMMA BlockHasPage ==
  ASSUME NEW p \in Pages
  PROVE  BlockS(p) \in Int /\ BlockL(p) \in Int /\ BlockS(p) <= p /\ p <= BlockL(p)
<1> DEFINE a == BlockS(p)
<1>1. p \in Nat /\ GRANULE \in Nat /\ GRANULE # 0
  BY PagesAre, SpaceAssumption
<1>2. p \div GRANULE \in Int
  BY <1>1
<1>3. a \in Int
  BY <1>1, <1>2 DEF BlockS
<1>4. a <= p
  BY <1>1 DEF BlockS
<1>5. p <= a + GRANULE - 1
  BY <1>1 DEF BlockS
<1> QED BY <1>1, <1>3, <1>4, <1>5 DEF BlockL

\* What is left of x has pages c .. d; the pages before and behind become parts H and T.
LEMMA SplitAround ==
  ASSUME NEW x \in Part, x.op # "unmap", NEW c \in Int, NEW d \in Int, x.s <= c, c <= d, d <= x.l,
         NEW y \in Part, y.s = c, y.l = d, y.attr = x.attr, y.op # "unmap",
         NEW z, c > x.s => z.s = x.s /\ z.l = c - 1 /\ z.attr = x.attr /\ z.op # "unmap",
         NEW w, d < x.l => w.s = d + 1 /\ w.l = x.l /\ w.attr = x.attr /\ w.op # "unmap"
  PROVE  Splits(x, {y} \cup ((IF c > x.s THEN {z} ELSE {}) \cup (IF d < x.l THEN {w} ELSE {})), {})
<1> DEFINE D == {y} \cup ((IF c > x.s THEN {z} ELSE {}) \cup (IF d < x.l THEN {w} ELSE {}))
<1>1. x.s \in Int /\ x.l \in Int
  BY PartFields
<1>2. Divides(D, x.s, x.l)
  <2>1. CASE c > x.s /\ d < x.l
    <3>1. D = {y, z, w}
      BY <2>1
    <3> QED BY <1>1, <2>1, <3>1 DEF Divides, In
  <2>2. CASE c > x.s /\ ~(d < x.l)
    <3>1. D = {y, z}
      BY <2>2
    <3> QED BY <1>1, <2>2, <3>1 DEF Divides, In
  <2>3. CASE ~(c > x.s) /\ d < x.l
    <3>1. D = {y, w}
      BY <2>3
    <3> QED BY <1>1, <2>3, <3>1 DEF Divides, In
  <2>4. CASE ~(c > x.s) /\ ~(d < x.l)
    <3>1. D = {y}
      BY <2>4
    <3> QED BY <1>1, <2>4, <3>1 DEF Divides, In
  <2> QED BY <2>1, <2>2, <2>3, <2>4
<1>3. \A v \in D : v.attr = x.attr /\ v.op # "unmap"
  OBVIOUS
<1>4. ASSUME NEW p \in Pages, In(p, x) PROVE \E v \in D : In(p, v)
  <2>1. p \in x.s .. x.l
    BY <1>1, <1>4, PagesAre DEF In
  <2> QED BY <1>2, <2>1 DEF Divides
<1> HIDE DEF D
<1>5. Splits(x, D, {})
  BY <1>2, <1>3, <1>4 DEF Splits
<1> QED BY <1>5 DEF D

\* The interval that svm_range_split_by_granularity leaves.
LEMMA TrimBounds ==
  ASSUME NEW x \in Part, NEW p \in Pages, In(p, x)
  PROVE  LET c == Larger(x.s, BlockS(p))
             d == Smaller(x.l, BlockL(p))
         IN  /\ c \in Pages /\ d \in Pages /\ x.s <= c /\ c <= d /\ d <= x.l
             /\ BlockS(p) > x.s <=> c > x.s
             /\ BlockL(p) < x.l <=> d < x.l
             /\ c > x.s => BlockS(p) = c /\ c - 1 \in Pages
             /\ d < x.l => BlockL(p) = d /\ d + 1 \in Pages
<1>1. /\ x.s \in Pages /\ x.l \in Pages /\ x.s \in Int /\ x.l \in Int
      /\ p \in Int /\ x.s <= p /\ p <= x.l
  BY PartFields, PagesAre DEF In
<1> DEFINE a == BlockS(p)
           b == BlockL(p)
<1>2. a \in Int /\ b \in Int /\ a <= p /\ p <= b
  BY BlockHasPage
<1> HIDE DEF a, b
<1>3. /\ Larger(x.s, a) \in Pages /\ x.s <= Larger(x.s, a) /\ Larger(x.s, a) <= p
      /\ a > x.s <=> Larger(x.s, a) > x.s
      /\ Larger(x.s, a) > x.s => a = Larger(x.s, a)
  <2>1. CASE x.s > a
    BY <1>1, <1>2, <2>1 DEF Larger
  <2>2. CASE ~(x.s > a)
    <3>1. Larger(x.s, a) = a
      BY <2>2 DEF Larger
    <3>2. a \in Pages
      BY <1>1, <1>2, <2>2, PagesAre
    <3> QED BY <1>1, <1>2, <2>2, <3>1, <3>2
  <2> QED BY <2>1, <2>2
<1>4. /\ Smaller(x.l, b) \in Pages /\ Smaller(x.l, b) <= x.l /\ p <= Smaller(x.l, b)
      /\ b < x.l <=> Smaller(x.l, b) < x.l
      /\ Smaller(x.l, b) < x.l => b = Smaller(x.l, b)
  <2>1. CASE x.l < b
    BY <1>1, <1>2, <2>1 DEF Smaller
  <2>2. CASE ~(x.l < b)
    <3>1. Smaller(x.l, b) = b
      BY <1>1, <1>2, <2>2 DEF Smaller
    <3>2. b \in Pages
      BY <1>1, <1>2, <2>2, PagesAre
    <3> QED BY <1>1, <1>2, <2>2, <3>1, <3>2
  <2> QED BY <2>1, <2>2
<1> DEFINE c == Larger(x.s, a)
           d == Smaller(x.l, b)
<1>5. c \in Int /\ d \in Int
  BY <1>3, <1>4, PagesAre
<1>6. c > x.s => c - 1 \in Pages
  BY <1>1, <1>3, <1>5, PagesAre
<1>7. d < x.l => d + 1 \in Pages
  BY <1>1, <1>4, <1>5, PagesAre
<1>8. c <= d
  BY <1>1, <1>3, <1>4, <1>5
<1> QED BY <1>3, <1>4, <1>6, <1>7, <1>8 DEF a, b

\* The parts that Trim cuts off x, when c .. d is left of it.
Ends(x, c, d) ==
  (IF c > x.s THEN {[s |-> x.s, l |-> c - 1, attr |-> x.attr, op |-> "add"]} ELSE {})
  \cup (IF d < x.l THEN {[s |-> d + 1, l |-> x.l, attr |-> x.attr, op |-> "add"]} ELSE {})

LEMMA EndsAreKids ==
  ASSUME NEW x \in Part, NEW c \in Pages, NEW d \in Pages,
         c > x.s => c - 1 \in Pages, d < x.l => d + 1 \in Pages
  PROVE  Ends(x, c, d) \subseteq Kid /\ \A y \in Ends(x, c, d) : y.op = "add"
<1>1. x.s \in Pages /\ x.l \in Pages /\ x.attr \in Attrs
  BY PartFields
<1> QED BY <1>1 DEF Ends, Kid

LEMMA EndsSplit ==
  ASSUME NEW x \in Part, x.op # "unmap", NEW c \in Pages, NEW d \in Pages,
         x.s <= c, c <= d, d <= x.l,
         NEW y \in Part, y.s = c, y.l = d, y.attr = x.attr, y.op # "unmap"
  PROVE  Splits(x, {y} \cup Ends(x, c, d), {})
<1> DEFINE z == [s |-> x.s, l |-> c - 1, attr |-> x.attr, op |-> "add"]
           w == [s |-> d + 1, l |-> x.l, attr |-> x.attr, op |-> "add"]
<1>1. z.s = x.s /\ z.l = c - 1 /\ z.attr = x.attr /\ z.op # "unmap"
  OBVIOUS
<1>2. w.s = d + 1 /\ w.l = x.l /\ w.attr = x.attr /\ w.op # "unmap"
  OBVIOUS
<1>3. c \in Int /\ d \in Int
  BY PagesAre
<1>4. Ends(x, c, d) = (IF c > x.s THEN {z} ELSE {}) \cup (IF d < x.l THEN {w} ELSE {})
  BY DEF Ends
<1> HIDE DEF z, w
<1>5. Splits(x, {y} \cup ((IF c > x.s THEN {z} ELSE {}) \cup (IF d < x.l THEN {w} ELSE {})), {})
  BY <1>1, <1>2, <1>3, SplitAround
<1> QED BY <1>4, <1>5

\* What svm_range_split_by_granularity leaves and cuts off, if the second split succeeds or not.
Trimmed(x, t, p) == t = Trim(x, p) \/ t = TrimHead(x, p)

TrimmedTo(x, y, t) ==
  \E c, d \in Pages :
    /\ x.s <= c /\ c <= d /\ d <= x.l
    /\ (c > x.s => c - 1 \in Pages) /\ (d < x.l => d + 1 \in Pages)
    /\ t.rest = [x EXCEPT !.s = c, !.l = d] /\ t.kids = Ends(y, c, d)

LEMMA TrimmedIs ==
  ASSUME NEW x, x \in Kid \/ x \in RangeRec, NEW p \in Pages, NEW t, Trimmed(x, t, p),
         NEW y \in Part, y.s = x.s, y.l = x.l, y.attr = x.attr, In(p, y)
  PROVE  TrimmedTo(x, y, t)
<1> SUFFICES \E c, d \in Pages :
               /\ x.s <= c /\ c <= d /\ d <= x.l
               /\ (c > x.s => c - 1 \in Pages) /\ (d < x.l => d + 1 \in Pages)
               /\ t.rest = [x EXCEPT !.s = c, !.l = d] /\ t.kids = Ends(y, c, d)
  BY DEF TrimmedTo
<1> DEFINE c == Larger(y.s, BlockS(p))
           d == Smaller(y.l, BlockL(p))
           T == Trim(x, p)
<1>1. /\ c \in Pages /\ d \in Pages /\ y.s <= c /\ c <= d /\ d <= y.l
      /\ BlockS(p) > y.s <=> c > y.s
      /\ BlockL(p) < y.l <=> d < y.l
      /\ c > y.s => BlockS(p) = c /\ c - 1 \in Pages
      /\ d < y.l => BlockL(p) = d /\ d + 1 \in Pages
  BY TrimBounds
<1>2. y.s \in Int /\ y.l \in Int /\ y.l \in Pages /\ c \in Int /\ d \in Int
  BY <1>1, PartFields, PagesAre
<1>3. T.rest = [x EXCEPT !.s = c, !.l = d]
  BY DEF Trim, BlockS, BlockL
<1>4. T.kids = (IF BlockS(p) > y.s THEN {[s |-> y.s, l |-> BlockS(p) - 1, attr |-> y.attr, op |-> "add"]} ELSE {})
               \cup (IF BlockL(p) < y.l THEN {[s |-> BlockL(p) + 1, l |-> y.l, attr |-> y.attr, op |-> "add"]} ELSE {})
  BY DEF Trim, BlockS, BlockL
<1>5. t = TrimHead(x, p) => /\ t.rest = [T.rest EXCEPT !.l = x.l]
                            /\ t.kids = {k \in T.kids : k.s = x.s}
  BY DEF TrimHead
<1> HIDE DEF c, d, T
<1>6. T.kids = Ends(y, c, d)
  BY <1>1, <1>4 DEF Ends
<1>7. CASE t = Trim(x, p)
  BY <1>1, <1>3, <1>6, <1>7 DEF T
<1>8. CASE t = TrimHead(x, p)
  <2> DEFINE e == y.l
             L == Ends(y, c, d)
  <2>1. t.rest = [x EXCEPT !.s = c, !.l = e]
    <3>1. CASE x \in Kid
      BY <1>3, <1>5, <1>8, <3>1 DEF Kid
    <3>2. CASE x \in RangeRec
      BY <1>3, <1>5, <1>8, <3>2 DEF RangeRec
    <3> QED BY <3>1, <3>2
  <2>2. t.kids = {k \in L : k.s = y.s}
    BY <1>5, <1>6, <1>8
  <2>3. d + 1 # y.s
    BY <1>1, <1>2
  <2>4. {k \in L : k.s = y.s} = Ends(y, c, e)
    BY <1>2, <2>3 DEF Ends
  <2>5. e \in Pages /\ c <= e /\ e <= x.l /\ ~(e < x.l)
    BY <1>1, <1>2
  <2> HIDE DEF e, L
  <2> QED BY <1>1, <2>1, <2>2, <2>4, <2>5
<1> QED BY <1>7, <1>8 DEF Trimmed

\* What it makes of a child.
LEMMA TrimKid ==
  ASSUME NEW x \in Kid, x.op # "unmap", NEW p \in Pages, In(p, x), NEW t, Trimmed(x, t, p)
  PROVE  t.rest \in Kid /\ t.kids \subseteq Kid /\ Splits(x, {t.rest} \cup t.kids, {})
<1>1. x \in Part
  BY KidIsPart
<1>3. TrimmedTo(x, x, t)
  BY <1>1, TrimmedIs
<1>2. PICK c, d \in Pages :
        /\ x.s <= c /\ c <= d /\ d <= x.l
        /\ (c > x.s => c - 1 \in Pages) /\ (d < x.l => d + 1 \in Pages)
        /\ t.rest = [x EXCEPT !.s = c, !.l = d] /\ t.kids = Ends(x, c, d)
  BY <1>3 DEF TrimmedTo
<1>6. /\ t.rest \in Kid /\ t.rest.s = c /\ t.rest.l = d /\ t.rest.attr = x.attr /\ t.rest.op = x.op
  BY <1>2 DEF Kid
<1>7. t.kids \subseteq Kid
  BY <1>1, <1>2, EndsAreKids
<1>8. Splits(x, {t.rest} \cup Ends(x, c, d), {})
  BY <1>1, <1>2, <1>6, KidIsPart, EndsSplit
<1> QED BY <1>2, <1>6, <1>7, <1>8

\* Work for a range changes its op only.
LEMMA ListWorkIs ==
  ASSUME NEW q \in RangeRec, NEW m, m = AddListWork(q, "update")
  PROVE  /\ m \in RangeRec /\ m.it_s = q.it_s /\ m.it_l = q.it_l /\ m.s = q.s /\ m.l = q.l
         /\ m.attr = q.attr /\ m.kids = q.kids
         /\ (q.op # "unmap" => m.op # "unmap")
         /\ (q.op = "unmap" /\ Listed(q) => m.op = "unmap")
<1> DEFINE o == IF Listed(q) /\ q.op = "unmap" THEN "unmap" ELSE "update"
<1>1. m = [q EXCEPT !.op = o] /\ o \in {"none", "update", "unmap"}
  BY DEF AddListWork
<1>2. (q.op # "unmap" => o # "unmap") /\ (q.op = "unmap" /\ Listed(q) => o = "unmap")
  OBVIOUS
<1> HIDE DEF o
<1> QED BY <1>1, <1>2 DEF RangeRec

\* What the fault makes of the range: it is trimmed itself, or a child of it.
Redone(n, m, S) ==
  /\ m \in RangeRec /\ m.it_s = n.it_s /\ m.it_l = n.it_l
  /\ Shape(m) /\ Cuts(n, m, S)

\* A part stays.
LEMMA SplitStays ==
  ASSUME NEW x \in Part, x.s <= x.l,
         NEW y \in Part, y.s = x.s, y.l = x.l, y.attr = x.attr, y.op = "unmap" <=> x.op = "unmap"
  PROVE  Splits(x, {y}, {})
<1>1. x.s \in Int /\ x.l \in Int /\ y.s \in Int /\ y.l \in Int
  BY PartFields
<1>2. Divides({y}, x.s, x.l)
  BY <1>1 DEF Divides, In
<1>3. \A p \in Pages : In(p, x) => In(p, y)
  BY DEF In
<1> QED BY <1>2, <1>3 DEF Splits

LEMMA TrimRange ==
  ASSUME NEW n \in RangeRec, Shape(n), n.op # "unmap", NEW p \in Pages, In(p, n),
         NEW t, Trimmed(n, t, p), NEW q, q = OwnTrimmed(n, t),
         NEW m, m = q \/ m = AddListWork(q, "update")
  PROVE  Redone(n, m, {}) /\ q.op = n.op
<1> DEFINE D == [x \in n.kids |-> {x}]
           X == Own(n)
           Y == Own(m)
           T == t.kids
<1>1. n.kids \subseteq Kid /\ Parts(n) = n.kids \cup {X}
  BY RangeFields
<1>2. \A x \in n.kids : x.s <= x.l
  BY <1>1 DEF Shape, Divides
<1>3. D \in [n.kids -> SUBSET Kid] /\ n.kids = UNION {D[x] : x \in n.kids}
  BY <1>1
<1>4. ASSUME NEW x \in n.kids PROVE Splits(x, D[x], {})
  <2>1. x \in Part /\ x.s <= x.l
    BY <1>1, <1>2, KidIsPart
  <2>2. Splits(x, {x}, {})
    BY <2>1, SplitStays
  <2> QED BY <2>2
<1>5. /\ X \in Part /\ X.s = n.s /\ X.l = n.l /\ X.attr = n.attr /\ X.op = n.op
  BY PartsArePart, RangeFields
<1>6. T = t.kids /\ X = Own(n) /\ Y = Own(m)
  OBVIOUS
<1> HIDE DEF D, X, Y, T
<1>7. In(p, X)
  BY <1>5 DEF In
<1>16. TrimmedTo(n, X, t)
  BY <1>5, <1>7, TrimmedIs
<1>8. PICK c, d \in Pages :
        /\ n.s <= c /\ c <= d /\ d <= n.l
        /\ (c > n.s => c - 1 \in Pages) /\ (d < n.l => d + 1 \in Pages)
        /\ t.rest = [n EXCEPT !.s = c, !.l = d] /\ t.kids = Ends(X, c, d)
  BY <1>16 DEF TrimmedTo
<1>9. T \subseteq Kid /\ \A y \in T : y.op = "add"
  BY <1>5, <1>6, <1>8, EndsAreKids
<1>10. /\ q \in RangeRec /\ q.it_s = n.it_s /\ q.it_l = n.it_l /\ q.op = n.op
       /\ q.s = c /\ q.l = d /\ q.attr = n.attr /\ q.kids = n.kids \cup T
  <2> DEFINE r == t.rest
  <2>1. q = [r EXCEPT !.kids = @ \cup T]
    BY <1>6 DEF OwnTrimmed
  <2>2. /\ r \in RangeRec /\ r.it_s = n.it_s /\ r.it_l = n.it_l /\ r.op = n.op
        /\ r.s = c /\ r.l = d /\ r.attr = n.attr /\ r.kids = n.kids
    BY <1>8 DEF RangeRec
  <2> HIDE DEF r
  <2> QED BY <1>9, <2>1, <2>2 DEF RangeRec
<1>11. /\ m \in RangeRec /\ m.it_s = n.it_s /\ m.it_l = n.it_l /\ m.op # "unmap"
       /\ m.s = c /\ m.l = d /\ m.attr = n.attr /\ m.kids = n.kids \cup T
  <2>1. CASE m = q
    BY <1>10, <2>1
  <2>2. CASE m = AddListWork(q, "update")
    BY <1>10, <2>2, ListWorkIs
  <2> QED BY <2>1, <2>2
<1>12. /\ Y \in Part /\ Y.s = c /\ Y.l = d /\ Y.attr = X.attr /\ Y.op # "unmap" /\ Y.op # "add"
  BY <1>5, <1>6, <1>11, PartsArePart, RangeFields
<1>13. Splits(X, {Y} \cup T, {})
  BY <1>5, <1>6, <1>8, <1>12, EndsSplit
<1>14. T \in SUBSET Kid /\ m.kids = (UNION {D[x] : x \in n.kids}) \cup T /\ Y \notin T
  BY <1>3, <1>9, <1>11, <1>12
<1>15. Shape(m) /\ Cuts(n, m, {})
  BY <1>3, <1>4, <1>6, <1>11, <1>13, <1>14, ReworkRange
<1> QED BY <1>10, <1>11, <1>15 DEF Redone

LEMMA TrimChild ==
  ASSUME NEW n \in RangeRec, Shape(n), n.op = "unmap" => Listed(n),
         NEW x \in n.kids, x.op # "unmap", NEW p \in Pages, In(p, x), NEW t, Trimmed(x, t, p),
         NEW q, q = KidTrimmed(n, x, t),
         NEW m, m = q \/ m = AddListWork(q, "update")
  PROVE  Redone(n, m, {}) /\ q.op = n.op
<1> DEFINE D == [y \in n.kids |-> IF y = x THEN {t.rest} \cup t.kids ELSE {y}]
           L == (n.kids \ {x}) \cup {t.rest} \cup t.kids
<1>1. n.kids \subseteq Kid /\ Parts(n) = n.kids \cup {Own(n)} /\ x \in Kid
  BY RangeFields
<1>2. \A y \in Parts(n) : y.s <= y.l
  BY <1>1 DEF Shape, Divides
<1>3. t.rest \in Kid /\ t.kids \subseteq Kid /\ Splits(x, {t.rest} \cup t.kids, {})
  BY <1>1, TrimKid
<1>4. D \in [n.kids -> SUBSET Kid] /\ L \in SUBSET Kid
  BY <1>1, <1>3
<1>5. ASSUME NEW y \in n.kids PROVE Splits(y, D[y], {})
  <2>1. CASE y = x
    BY <1>3, <2>1
  <2>2. CASE y # x
    <3>1. y \in Part /\ y.s <= y.l
      BY <1>1, <1>2, KidIsPart
    <3>2. Splits(y, {y}, {})
      BY <3>1, SplitStays
    <3> QED BY <2>2, <3>2
  <2> QED BY <2>1, <2>2
<1>6. L = UNION {D[y] : y \in n.kids}
  <2>1. ASSUME NEW z \in L PROVE \E y \in n.kids : z \in D[y]
    <3>1. CASE z \in n.kids \ {x}
      BY <3>1
    <3>2. CASE z \in {t.rest} \cup t.kids
      BY <3>2
    <3> QED BY <3>1, <3>2
  <2>2. ASSUME NEW y \in n.kids, NEW z \in D[y] PROVE z \in L
    OBVIOUS
  <2> HIDE DEF L, D
  <2> QED BY <2>1, <2>2
<1>7. q = [n EXCEPT !.kids = L]
  BY DEF KidTrimmed
<1> HIDE DEF L, D
<1>8. /\ q \in RangeRec /\ q.it_s = n.it_s /\ q.it_l = n.it_l /\ q.op = n.op
      /\ q.s = n.s /\ q.l = n.l /\ q.attr = n.attr /\ q.kids = L
  BY <1>4, <1>7 DEF RangeRec
<1>9. /\ m \in RangeRec /\ m.it_s = n.it_s /\ m.it_l = n.it_l
      /\ m.s = n.s /\ m.l = n.l /\ m.attr = n.attr /\ m.kids = L
      /\ m.op = "unmap" <=> n.op = "unmap"
  <2>1. CASE m = q
    BY <1>8, <2>1
  <2>2. CASE m = AddListWork(q, "update")
    <3>1. Listed(q) <=> Listed(n)
      BY <1>8 DEF Listed, Id
    <3> QED BY <1>8, <2>2, <3>1, ListWorkIs
  <2> QED BY <2>1, <2>2
<1>10. Splits(Own(n), {Own(m)}, {})
  <2> DEFINE X == Own(n)
             Y == Own(m)
  <2>1. /\ X \in Part /\ Y \in Part /\ Y.s = X.s /\ Y.l = X.l /\ Y.attr = X.attr
        /\ Y.op = "unmap" <=> X.op = "unmap"
    BY <1>9, PartsArePart, RangeFields
  <2>2. X.s <= X.l
    BY <1>1, <1>2
  <2> HIDE DEF X, Y
  <2>3. Splits(X, {Y}, {})
    BY <2>1, <2>2, SplitStays
  <2> QED BY <2>3 DEF X, Y
<1>11. Shape(m) /\ Cuts(n, m, {})
  <2> DEFINE T == {}
  <2>1. /\ T \in SUBSET Kid /\ m.kids = (UNION {D[y] : y \in n.kids}) \cup T
        /\ Splits(Own(n), {Own(m)} \cup T, {}) /\ Own(m) \notin T
    BY <1>6, <1>9, <1>10
  <2> HIDE DEF T
  <2> QED BY <2>1, <1>4, <1>5, <1>9, ReworkRange
<1> QED BY <1>8, <1>9, <1>11 DEF Redone
-----------------------------------------------------------------------------
(* The deferred list. *)

\* A list with ranges behind it that it did not have.
LEMMA ListAppended ==
  ASSUME list \in Seq(Pages \X Pages), IsInjective(list),
         NEW ids \in SUBSET (Pages \X Pages), NEW c \in Nat, NEW f \in [1 .. c -> ids],
         ToSet(f) = ids, \A i, j \in 1 .. c : i < j => f[i][1] < f[j][1],
         ids \cap ToSet(list) = {}
  PROVE  /\ list \o f \in Seq(Pages \X Pages) /\ IsInjective(list \o f)
         /\ ToSet(list \o f) = ToSet(list) \cup ids
         /\ list # <<>> => list \o f # <<>>
<1> DEFINE q == list \o f
           len == Len(list)
<1>1. f \in Seq(Pages \X Pages) /\ Len(f) = c /\ len \in Nat /\ DOMAIN list = 1 .. len
  <2> DEFINE R == Pages \X Pages
  <2>1. R = Pages \X Pages
    OBVIOUS
  <2>2. f \in [1 .. c -> R] /\ list \in Seq(R)
    OBVIOUS
  <2> HIDE DEF R
  <2>3. f \in Seq(R) /\ Len(f) = c
    BY <2>2
  <2>4. len \in Nat /\ DOMAIN list = 1 .. len
    BY <2>2
  <2> QED BY <2>1, <2>3, <2>4
<1>2. /\ q \in Seq(Pages \X Pages) /\ Len(q) = len + c /\ DOMAIN q = 1 .. (len + c)
      /\ \A i \in 1 .. (len + c) : q[i] = IF i <= len THEN list[i] ELSE f[i - len]
  <2> DEFINE R == Pages \X Pages
  <2>1. f \in Seq(R) /\ list \in Seq(R) /\ R = Pages \X Pages /\ Len(f) = c
    BY <1>1
  <2> HIDE DEF R
  <2>2. q \in Seq(R) /\ Len(q) = len + c
    BY <2>1, ConcatProperties
  <2>3. \A i \in 1 .. (len + c) : q[i] = IF i <= len THEN list[i] ELSE f[i - len]
    BY <2>1, ConcatProperties
  <2>4. DOMAIN q = 1 .. (len + c)
    <3> HIDE DEF q, len
    <3> QED BY <2>2
  <2> QED BY <2>1, <2>2, <2>3, <2>4
<1>3. /\ \A i \in 1 .. len : q[i] = list[i]
      /\ \A i \in 1 .. c : q[len + i] = f[i]
      /\ \A i \in (len + 1) .. (len + c) : i - len \in 1 .. c /\ q[i] = f[i - len]
  <2> HIDE DEF q, len
  <2> QED BY <1>1, <1>2
<1> HIDE DEF q, len
<1>4. /\ \A i \in 1 .. len : q[i] \in ToSet(list)
      /\ \A i \in (len + 1) .. (len + c) : q[i] \in ids
  BY <1>1, <1>3 DEF ToSet
<1>5. ASSUME NEW i \in 1 .. c, NEW j \in 1 .. c, f[i] = f[j] PROVE i = j
  <2>1. f[i] \in Pages \X Pages
    OBVIOUS
  <2>2. f[i][1] \in Int
    BY <2>1, PagesAre
  <2>3. ~(f[i][1] < f[j][1]) /\ ~(f[j][1] < f[i][1])
    BY <2>2, <1>5
  <2> QED BY <2>3
<1>6. IsInjective(q)
  <2> SUFFICES ASSUME NEW i \in 1 .. (len + c), NEW j \in 1 .. (len + c), q[i] = q[j] PROVE i = j
    BY <1>2 DEF IsInjective
  <2>1. CASE i \in 1 .. len /\ j \in 1 .. len
    BY <2>1, <1>1, <1>3 DEF IsInjective
  <2>2. CASE i \in (len + 1) .. (len + c) /\ j \in (len + 1) .. (len + c)
    <3>1. i - len \in 1 .. c /\ j - len \in 1 .. c /\ f[i - len] = f[j - len]
      BY <2>2, <1>3
    <3>2. i - len = j - len
      BY <3>1, <1>5
    <3> QED BY <3>2, <1>1
  <2>3. CASE i \in 1 .. len /\ j \in (len + 1) .. (len + c)
    BY <2>3, <1>4
  <2>4. CASE i \in (len + 1) .. (len + c) /\ j \in 1 .. len
    BY <2>4, <1>4
  <2> QED BY <2>1, <2>2, <2>3, <2>4, <1>1
<1>7. ToSet(q) = ToSet(list) \cup ids
  <2>1. ASSUME NEW x \in ToSet(q) PROVE x \in ToSet(list) \cup ids
    <3>1. PICK i \in 1 .. (len + c) : x = q[i]
      BY <1>2 DEF ToSet
    <3>2. i \in 1 .. len \/ i \in (len + 1) .. (len + c)
      BY <1>1
    <3> QED BY <3>1, <3>2, <1>4
  <2>2. ASSUME NEW x \in ToSet(list) PROVE x \in ToSet(q)
    <3>1. PICK i \in 1 .. len : x = list[i]
      BY <1>1 DEF ToSet
    <3>2. i \in 1 .. (len + c) /\ x = q[i]
      BY <3>1, <1>1, <1>3
    <3> QED BY <3>2, <1>2 DEF ToSet
  <2>3. ASSUME NEW x \in ids PROVE x \in ToSet(q)
    <3>1. PICK i \in 1 .. c : x = f[i]
      BY DEF ToSet
    <3>2. len + i \in 1 .. (len + c) /\ x = q[len + i]
      BY <3>1, <1>1, <1>3
    <3> QED BY <3>2, <1>2 DEF ToSet
  <2> QED BY <2>1, <2>2, <2>3
<1>8. list # <<>> => q # <<>>
  <2>1. list # <<>> => len > 0
    BY DEF len
  <2>2. q = <<>> => len + c = 0
    BY <1>2
  <2> QED BY <2>1, <2>2, <1>1
<1> QED BY <1>2, <1>6, <1>7, <1>8 DEF q

\* What svm_range_add_list_work makes of the list.
LEMMA Appended ==
  ASSUME list \in Seq(Pages \X Pages), IsInjective(list),
         NEW ns \in SUBSET RangeRec, NEW q \in ListWith(ns)
  PROVE  /\ q \in Seq(Pages \X Pages) /\ IsInjective(q)
         /\ ToSet(q) = ToSet(list) \cup {Id(n) : n \in ns}
         /\ list # <<>> => q # <<>>
<1> DEFINE ids == {Id(n) : n \in {m \in ns : ~Listed(m)}}
           c == Cardinality(ids)
<1>1. PICK f \in [1 .. c -> ids] : /\ ToSet(f) = ids
                                   /\ \A i, j \in DOMAIN f : i < j => f[i][1] < f[j][1]
                                   /\ q = list \o f
  BY DEF ListWith
<1>2. ids \in SUBSET (Pages \X Pages) /\ ids \cap ToSet(list) = {}
  <2>1. \A n \in ns : Id(n) \in Pages \X Pages
    BY RangeFields DEF Id
  <2>2. \A n \in ns : ~Listed(n) => Id(n) \notin ToSet(list)
    BY DEF Listed
  <2> QED BY <2>1, <2>2
<1>3. ToSet(list) \cup ids = ToSet(list) \cup {Id(n) : n \in ns}
  BY DEF Listed
<1>4. c \in Nat
  <2>1. IsFiniteSet(Pages)
    BY PagesAre, FS_Interval DEF Pages
  <2>2. IsFiniteSet(Pages \X Pages)
    BY <2>1, FS_Product
  <2>3. IsFiniteSet(ids)
    BY <1>2, <2>2, FS_Subset
  <2> QED BY <2>3, FS_CardinalityType
<1> HIDE DEF c
<1>5. \A i, j \in 1 .. c : i < j => f[i][1] < f[j][1]
  BY <1>1
<1> HIDE DEF ids
<1>6. /\ list \o f \in Seq(Pages \X Pages) /\ IsInjective(list \o f)
      /\ ToSet(list \o f) = ToSet(list) \cup ids
      /\ list # <<>> => list \o f # <<>>
  BY <1>1, <1>2, <1>4, <1>5, ListAppended
<1> QED BY <1>1, <1>3, <1>6
-----------------------------------------------------------------------------
(* Callbacks: ranges change in their place in the tree. *)

\* What is the same or cut after the ranges n of the tree have become f[n].
Reworks(f, S) ==
  /\ \A n \in tree : f[n] \in tree' /\ Id(f[n]) = Id(n)
  /\ \A m \in tree' : \E n \in tree : m = f[n]
  /\ {Id(m) : m \in tree'} = {Id(n) : n \in tree}
  /\ \A m \in tree' : \E n \in tree : Cuts(n, m, S)
  /\ \A n \in tree : \E m \in tree' : Cuts(n, m, S)

LEMMA ReworkTree ==
  ASSUME Tree, NEW S, NEW f, \A n \in tree : Redone(n, f[n], S),
         tree' = {f[n] : n \in tree}
  PROVE  Tree' /\ Reworks(f, S)
<1>1. ASSUME NEW n \in tree
      PROVE  /\ f[n] \in RangeRec /\ f[n].it_s = n.it_s /\ f[n].it_l = n.it_l
             /\ Shape(f[n]) /\ Cuts(n, f[n], S) /\ Id(f[n]) = Id(n)
  BY DEF Redone, Id
<1>2. Tree'
  <2>1. tree' \subseteq RangeRec /\ \A m \in tree' : Shape(m)
    BY <1>1
  <2>2. ASSUME NEW m \in tree', NEW k \in tree' PROVE m = k \/ m.it_l < k.it_s \/ k.it_l < m.it_s
    <3>1. PICK a \in tree : m = f[a]
      OBVIOUS
    <3>2. PICK b \in tree : k = f[b]
      OBVIOUS
    <3>3. a = b \/ a.it_l < b.it_s \/ b.it_l < a.it_s
      BY DEF Tree
    <3> QED BY <3>1, <3>2, <3>3, <1>1
  <2> QED BY <2>1, <2>2 DEF Tree
<1>3. {Id(m) : m \in tree'} = {Id(n) : n \in tree}
  <2>1. ASSUME NEW m \in tree' PROVE Id(m) \in {Id(n) : n \in tree}
    <3>1. PICK a \in tree : m = f[a]
      OBVIOUS
    <3> QED BY <3>1, <1>1
  <2>2. ASSUME NEW n \in tree PROVE Id(n) \in {Id(m) : m \in tree'}
    BY <1>1
  <2> QED BY <2>1, <2>2
<1>4. \A n \in tree : f[n] \in tree' /\ Cuts(n, f[n], S)
  BY <1>1
<1>5. Reworks(f, S)
  BY <1>1, <1>3, <1>4 DEF Reworks
<1> QED BY <1>2, <1>5

\* Ranges T get work to do.
LEMMA ReworkDeferred ==
  ASSUME Tree, Deferred, NEW T \in SUBSET tree, NEW S, NEW f, Reworks(f, S),
         \A n \in tree \ T : f[n] = n, list' \in ListWith(T), wk' = wk, torn' = torn
  PROVE  Deferred'
<1>1. T \in SUBSET RangeRec
  BY DEF Tree
<1>2. /\ list' \in Seq(Pages \X Pages) /\ IsInjective(list')
      /\ ToSet(list') = ToSet(list) \cup {Id(n) : n \in T}
      /\ list # <<>> => list' # <<>>
  <2>1. list \in Seq(Pages \X Pages) /\ IsInjective(list)
    BY DEF Deferred
  <2> QED BY <2>1, <1>1, Appended
<1>3. ASSUME NEW m \in tree', Id(m) \notin ToSet(list') PROVE m.op # "unmap" /\ (torn \/ Plain(m))
  <2>1. PICK n \in tree : m = f[n] /\ Id(m) = Id(n)
    BY DEF Reworks
  <2>2. Id(n) \notin ToSet(list) /\ n \notin T
    BY <2>1, <1>2, <1>3
  <2>3. m = n
    BY <2>1, <2>2
  <2>4. ~Listed(n)
    BY <2>2 DEF Listed
  <2> QED BY <2>3, <2>4 DEF Deferred
<1>4. ToSet(list') \subseteq {Id(m) : m \in tree'}
  BY <1>2 DEF Deferred, Reworks
<1> QED BY <1>2, <1>3, <1>4 DEF Deferred, Listed

\* The contents and the GPU's mappings after that, when the pages S are unmapped.
LEMMA KeepStep ==
  ASSUME Types, Contents, Kept, NEW f, NEW S, Reworks(f, S), torn => torn',
         mapped' = mapped \ S, ~torn => gpu' \subseteq gpu \ S,
         \A p \in Pages : want'[p] = IF p \in S THEN Default ELSE want[p]
  PROVE  Contents' /\ Kept'
<1>1. Contents'
  <2> SUFFICES ASSUME NEW m \in tree', NEW y \in Living(m), NEW p \in Pages, In(p, y)
               PROVE  p \in mapped' /\ (torn' \/ y.attr.cmp = want'[p].cmp)
    BY DEF Contents, Sound
  <2>1. PICK n \in tree : Cuts(n, m, S)
    BY DEF Reworks
  <2>2. PICK x \in Living(n) : x.attr = y.attr /\ In(p, x) /\ p \notin S
    BY <2>1 DEF Cuts
  <2>3. p \in mapped /\ (torn \/ x.attr.cmp = want[p].cmp)
    BY <2>2 DEF Contents, Sound
  <2> QED BY <2>2, <2>3
<1>2. ASSUME NEW p \in Pages, p \notin S, InLiving(p) PROVE InLiving(p)'
  <2>1. PICK n \in tree : \E x \in Living(n) : In(p, x)
    BY <1>2 DEF InLiving
  <2>2. PICK m \in tree' : Cuts(n, m, S)
    BY DEF Reworks
  <2>3. \E y \in Living(m) : In(p, y)
    BY <2>1, <2>2, <1>2 DEF Cuts
  <2> QED BY <2>3 DEF InLiving
<1>3. ASSUME ~torn PROVE Kept'
  <2>1. /\ \A p \in gpu : InLiving(p)
        /\ \A p \in mapped : want[p].cmp # Default.cmp => InLiving(p)
        /\ \A p \in Pages \ mapped : want[p].cmp = Default.cmp
    BY <1>3 DEF Kept
  <2>2. \A p \in gpu' : InLiving(p)'
    BY <1>2, <1>3, <2>1 DEF Types
  <2>3. \A p \in mapped' : want'[p].cmp # Default.cmp => InLiving(p)'
    BY <1>2, <2>1 DEF Types
  <2>4. \A p \in Pages \ mapped' : want'[p].cmp = Default.cmp
    BY <2>1 DEF Types
  <2> QED BY <2>2, <2>3, <2>4 DEF Kept
<1>4. torn => Kept'
  BY DEF Kept
<1> QED BY <1>1, <1>3, <1>4

\* The parts of a range lie in its interval, which is not empty.
LEMMA Inside ==
  ASSUME NEW n \in RangeRec, Shape(n)
  PROVE  /\ n.it_s <= n.it_l /\ Living(n) \subseteq Parts(n)
         /\ \A x \in Parts(n) : \A p \in Pages : In(p, x) => n.it_s <= p /\ p <= n.it_l
<1>1. /\ n.it_s \in Int /\ n.it_l \in Int /\ Own(n) \in Parts(n) /\ Own(n) \in Part
      /\ Parts(n) \subseteq Part
  BY RangeFields, PartsArePart
<1>2. \A x \in Parts(n) : x.s \in Int /\ x.l \in Int /\ n.it_s <= x.s /\ x.s <= x.l /\ x.l <= n.it_l
  BY <1>1, PartFields DEF Shape, Divides
<1>3. n.it_s <= n.it_l
  BY <1>1, <1>2
<1>4. \A x \in Parts(n) : \A p \in Pages : In(p, x) => n.it_s <= p /\ p <= n.it_l
  BY <1>1, <1>2, PagesAre DEF In
<1> QED BY <1>3, <1>4 DEF Living

\* A cut of the pages that the range has of S is a cut of S.
LEMMA CutsWiden ==
  ASSUME NEW n \in RangeRec, Shape(n), NEW m, NEW R, NEW S, R \subseteq S,
         \A p \in Pages : n.it_s <= p /\ p <= n.it_l /\ p \in S => p \in R, Cuts(n, m, R)
  PROVE  Cuts(n, m, S)
BY Inside DEF Cuts

LEMMA CutsNothing ==
  ASSUME NEW n \in RangeRec, Shape(n), NEW S,
         \A p \in Pages : n.it_s <= p /\ p <= n.it_l => p \notin S
  PROVE  Cuts(n, n, S)
BY Inside DEF Cuts

\* What the invariant says of a range.
LEMMA TreeRange ==
  ASSUME Tree, Deferred, NEW n \in tree
  PROVE  n \in RangeRec /\ Shape(n) /\ (n.op = "unmap" => Listed(n))
BY DEF Tree, Deferred

\* Two ranges of the tree have different intervals.
LEMMA IdsDiffer ==
  ASSUME Tree, NEW m \in tree, NEW n \in tree, Id(m) = Id(n) PROVE m = n
<1>1. m.it_s = n.it_s /\ m.it_l = n.it_l
  BY DEF Id
<1>2. n.it_s \in Int /\ n.it_l \in Int /\ n.it_s <= n.it_l
  BY Inside, RangeFields DEF Tree
<1> QED BY <1>1, <1>2 DEF Tree

LEMMA DefaultIs == Default \in Attrs
BY DEF Default, Attrs

\* The part of s .. l that a range overlaps.
LEMMA OverlapBounds ==
  ASSUME NEW n \in RangeRec, n.it_s <= n.it_l, NEW s \in Pages, NEW l \in Pages, s <= l, Overlap(n, s, l)
  PROVE  LET a == Larger(s, n.it_s)
             b == Smaller(l, n.it_l)
         IN  /\ a \in Pages /\ b \in Pages /\ a <= b /\ a .. b \subseteq s .. l
             /\ \A p \in Pages : n.it_s <= p /\ p <= n.it_l /\ p \in s .. l => p \in a .. b
<1> DEFINE a == Larger(s, n.it_s)
           b == Smaller(l, n.it_l)
<1>1. n.it_s \in Pages /\ n.it_l \in Pages /\ n.it_s \in Int /\ n.it_l \in Int /\ s \in Int /\ l \in Int
  BY RangeFields, PagesAre
<1>2. n.it_s <= l /\ s <= n.it_l
  BY DEF Overlap
<1>3. /\ a \in Pages /\ a \in Int /\ s <= a /\ n.it_s <= a /\ a <= l /\ a <= n.it_l
      /\ a = s \/ a = n.it_s
  BY <1>1, <1>2 DEF Larger
<1>4. /\ b \in Pages /\ b \in Int /\ b <= l /\ b <= n.it_l /\ a <= b
      /\ b = l \/ b = n.it_l
  <2> HIDE DEF a
  <2> QED BY <1>1, <1>2, <1>3 DEF Smaller
<1> HIDE DEF a, b
<1>5. a .. b \subseteq s .. l
  BY <1>1, <1>3, <1>4
<1>6. \A p \in Pages : n.it_s <= p /\ p <= n.it_l /\ p \in s .. l => p \in a .. b
  BY <1>1, <1>3, <1>4, PagesAre
<1> QED BY <1>3, <1>4, <1>5, <1>6 DEF a, b

\* Mappings and look-ups of the pages in s .. l go.
LEMMA NotifiersCalled ==
  ASSUME NEW s, NEW l, gpu' = Unmapping(s, l), got' = Invalidated(s, l), Mapping
  PROVE  /\ gpu' \subseteq gpu
         /\ got' = {} \/ \E g : got' = {g}
         /\ \A h \in got' : /\ h = [id |-> h.id, valid |-> h.valid]
                            /\ \E g \in got : /\ h.id = g.id /\ (h.valid => g.valid)
                                              /\ g.id[1] <= l /\ s <= g.id[2] => ~h.valid
<1> DEFINE I(g) == [g EXCEPT !.valid = @ /\ ~(g.id[1] <= l /\ s <= g.id[2])]
<1>1. got' = {I(g) : g \in got} /\ gpu' \subseteq gpu
  BY DEF Invalidated, Unmapping
<1>2. ASSUME NEW g \in got
      PROVE  /\ I(g) = [id |-> I(g).id, valid |-> I(g).valid]
             /\ I(g).id = g.id /\ (I(g).valid => g.valid)
             /\ g.id[1] <= l /\ s <= g.id[2] => ~I(g).valid
  <2> DEFINE i == g.id
             w == g.valid
             b == w /\ ~(i[1] <= l /\ s <= i[2])
  <2>1. g = [id |-> i, valid |-> w]
    BY DEF Mapping
  <2>2. I(g) = [g EXCEPT !.valid = b]
    BY <2>1
  <2>3. (b => w) /\ (i[1] <= l /\ s <= i[2] => ~b) /\ i = g.id /\ w = g.valid
    OBVIOUS
  <2> HIDE DEF i, w, b, I
  <2>4. I(g) = [id |-> i, valid |-> b]
    BY <2>1, <2>2
  <2>5. I(g).id = i /\ I(g).valid = b
    BY <2>4
  <2> QED BY <2>3, <2>4, <2>5
<1> HIDE DEF I
<1>3. got' = {} \/ \E g : got' = {g}
  <2>1. CASE got = {}
    BY <1>1, <2>1
  <2>2. ASSUME NEW g, got = {g} PROVE got' = {I(g)}
    BY <1>1, <2>2
  <2> QED BY <2>1, <2>2 DEF Mapping
<1>4. ASSUME NEW h \in got'
      PROVE  /\ h = [id |-> h.id, valid |-> h.valid]
             /\ \E g \in got : /\ h.id = g.id /\ (h.valid => g.valid)
                               /\ g.id[1] <= l /\ s <= g.id[2] => ~h.valid
  <2>1. PICK g \in got : h = I(g)
    BY <1>1
  <2> QED BY <1>2, <2>1
<1> QED BY <1>1, <1>3, <1>4

LEMMA MunmapStep ==
  ASSUME IInv, NEW s \in Pages, NEW l \in Pages, munmap(s, l)
  PROVE  IInv'
<1> DEFINE S == s .. l
           T == {n \in tree : Overlap(n, s, l)}
           U(n) == UnmapFromCpu(n, Larger(s, n.it_s), Smaller(l, n.it_l))
           f == [n \in tree |-> IF Overlap(n, s, l) THEN U(n) ELSE n]
<1>1. /\ s <= l /\ mapped' = mapped \ S /\ list' \in ListWith(T) /\ wk' = wk
      /\ tree' = {f[n] : n \in tree}
      /\ gpu' = Unmapping(s, l) /\ got' = Invalidated(s, l)
      /\ want' = [p \in Pages |-> IF p \in S THEN Default ELSE want[p]]
      /\ todo' = todo /\ torn' = torn
  BY DEF munmap
<1>2. Types /\ Tree /\ Deferred /\ Contents /\ Kept /\ Mapping
  BY DEF IInv
<1>3. \A n \in tree : n \in RangeRec /\ Shape(n) /\ (n.op = "unmap" => Listed(n))
  BY <1>2, TreeRange
<1>4. ASSUME NEW n \in T
      PROVE  /\ Redone(n, f[n], S)
             /\ f[n].op = "unmap" => f[n].s = n.s /\ (n.op = "unmap" \/ n.s \in S)
  <2> DEFINE a == Larger(s, n.it_s)
             b == Smaller(l, n.it_l)
             m == U(n)
  <2>1. n \in RangeRec /\ Shape(n) /\ (n.op = "unmap" => Listed(n)) /\ Overlap(n, s, l) /\ n.it_s <= n.it_l
    BY <1>3, Inside
  <2>2. /\ a \in Pages /\ b \in Pages /\ a <= b /\ a .. b \subseteq S
        /\ \A p \in Pages : n.it_s <= p /\ p <= n.it_l /\ p \in S => p \in a .. b
    BY <2>1, <1>1, OverlapBounds
  <2>3. m = UnmapFromCpu(n, a, b) /\ f[n] = m
    OBVIOUS
  <2> HIDE DEF a, b, m, S
  <2>4. /\ m \in RangeRec /\ m.it_s = n.it_s /\ m.it_l = n.it_l
        /\ Shape(m) /\ Cuts(n, m, a .. b)
    BY <2>1, <2>2, <2>3, UnmapRange
  <2>5. Cuts(n, m, S)
    BY <2>1, <2>2, <2>4, CutsWiden
  <2>6. m.op = "unmap" => m.s = n.s /\ (n.op = "unmap" \/ n.s \in a .. b)
    BY <2>1, <2>2, <2>3, UnmapRangeOp
  <2> QED BY <2>2, <2>3, <2>4, <2>5, <2>6 DEF Redone
<1>5. ASSUME NEW n \in tree \ T PROVE f[n] = n /\ Redone(n, f[n], S)
  <2>1. n \in RangeRec /\ Shape(n) /\ ~Overlap(n, s, l)
    BY <1>3
  <2>2. n.it_s \in Int /\ n.it_l \in Int /\ s \in Int /\ l \in Int
    BY <2>1, RangeFields, PagesAre
  <2>3. \A p \in Pages : n.it_s <= p /\ p <= n.it_l => p \notin S
    BY <2>1, <2>2, PagesAre DEF Overlap
  <2>4. Cuts(n, n, S)
    <3> HIDE DEF S
    <3> QED BY <2>1, <2>3, CutsNothing
  <2>5. f[n] = n
    OBVIOUS
  <2> HIDE DEF f, T, S
  <2> QED BY <2>1, <2>4, <2>5 DEF Redone
<1>6. T \in SUBSET tree /\ \A n \in tree : n \in T <=> Overlap(n, s, l)
  OBVIOUS
<1>7. ASSUME ~torn PROVE gpu' \subseteq gpu \ S
  <2> SUFFICES ASSUME NEW p \in gpu, p \in S
               PROVE  \E n \in At(p) : \E x \in Parts(n) : In(p, x)
    BY <1>1 DEF Unmapping
  <2>1. PICK n \in tree : \E x \in Living(n) : In(p, x)
    BY <1>2, <1>7 DEF Kept, InLiving
  <2>2. p \in Pages
    BY <1>2 DEF Types
  <2> QED BY <2>1, <2>2, <1>3, Inside DEF At
<1>11. /\ gpu' \subseteq gpu
       /\ got' = {} \/ \E g : got' = {g}
       /\ \A h \in got' : /\ h = [id |-> h.id, valid |-> h.valid]
                          /\ \E g \in got : /\ h.id = g.id /\ (h.valid => g.valid)
                                            /\ g.id[1] <= l /\ s <= g.id[2] => ~h.valid
  BY <1>1, <1>2, NotifiersCalled
<1>8. Types'
  <2>1. want' \in [Pages -> Attrs]
    BY <1>1, <1>2, DefaultIs DEF Types
  <2> QED BY <2>1, <1>1, <1>2, <1>11 DEF Types
<1> HIDE DEF f, T, S
<1>9. Tree' /\ Reworks(f, S) /\ Deferred'
  <2>1. Tree' /\ Reworks(f, S)
    BY <1>1, <1>2, <1>4, <1>5, ReworkTree
  <2> QED BY <2>1, <1>1, <1>2, <1>5, <1>6, ReworkDeferred
<1>10. Contents' /\ Kept'
  BY <1>1, <1>2, <1>7, <1>9, KeepStep
<1>12. Mapping'
  <2>1. /\ todo' \subseteq {Id(m) : m \in tree'}
        /\ \A h \in got' : h.id \in {Id(m) : m \in tree'} /\ h = [id |-> h.id, valid |-> h.valid]
    BY <1>1, <1>2, <1>9, <1>11 DEF Mapping, Reworks
  <2>2. ASSUME NEW m \in tree', m.op = "unmap"
        PROVE  /\ Id(m) \in todo' => m.s \notin mapped'
               /\ \A h \in got' : h.id = Id(m) => ~h.valid
    <3>1. PICK n \in tree : m = f[n] /\ Id(m) = Id(n)
      BY <1>9 DEF Reworks
    <3>2. n.op = "unmap" \/ (Overlap(n, s, l) /\ n.s \in S)
      BY <1>4, <1>5, <1>6, <2>2, <3>1
    <3>3. m.s = n.s
      BY <1>4, <1>5, <2>2, <3>1
    <3>4. Id(m) \in todo' => m.s \notin mapped'
      BY <1>1, <1>2, <3>1, <3>2, <3>3 DEF Mapping
    <3>5. ASSUME NEW h \in got', h.id = Id(m) PROVE ~h.valid
      <4>1. PICK g \in got : /\ h.id = g.id /\ (h.valid => g.valid)
                             /\ g.id[1] <= l /\ s <= g.id[2] => ~h.valid
        BY <1>11
      <4>2. Overlap(n, s, l) => g.id[1] <= l /\ s <= g.id[2]
        BY <3>1, <3>5, <4>1 DEF Overlap, Id
      <4> QED BY <1>2, <3>1, <3>2, <3>5, <4>1, <4>2 DEF Mapping
    <3> QED BY <3>4, <3>5
  <2> QED BY <1>11, <2>1, <2>2 DEF Mapping
<1> QED BY <1>8, <1>9, <1>10, <1>12 DEF IInv

LEMMA InvalidateStep ==
  ASSUME IInv, NEW s \in Pages, NEW l \in Pages, invalidate(s, l)
  PROVE  IInv'
<1>1. /\ tree' = tree /\ list' = list /\ mapped' = mapped /\ wk' = wk /\ todo' = todo
      /\ torn' = torn /\ want' = want /\ gpu' = Unmapping(s, l) /\ got' = Invalidated(s, l)
  BY DEF invalidate
<1>2. /\ gpu' \subseteq gpu
      /\ got' = {} \/ \E g : got' = {g}
      /\ \A h \in got' : /\ h = [id |-> h.id, valid |-> h.valid]
                         /\ \E g \in got : /\ h.id = g.id /\ (h.valid => g.valid)
                                           /\ g.id[1] <= l /\ s <= g.id[2] => ~h.valid
  BY <1>1, NotifiersCalled DEF IInv
<1>3. Types' /\ Tree' /\ Deferred'
  BY <1>1, <1>2 DEF IInv, Types, Tree, Deferred, Listed
<1>4. Contents' /\ Kept'
  BY <1>1, <1>2 DEF IInv, Contents, Sound, Kept, InLiving
<1>5. Mapping'
  BY <1>1, <1>2 DEF IInv, Mapping
<1> QED BY <1>3, <1>4, <1>5 DEF IInv

\* A CPU fault, after which the range or its child is trimmed and work may be deferred.
LEMMA TrimStep ==
  ASSUME IInv, NEW n \in tree, NEW m, Redone(n, m, {}), tree' = (tree \ {n}) \cup {m},
         gpu' \subseteq gpu, mapped' = mapped, wk' = wk, want' = want,
         todo' = todo, got' = got, ~Busy,
         \/ list' \in ListWith({n}) /\ torn' = torn
         \/ list' = list /\ m.op = n.op /\ torn' = (torn \/ ~Listed(n))
  PROVE  IInv'
<1> DEFINE f == [k \in tree |-> IF k = n THEN m ELSE k]
           T == {n}
           S == {}
<1>1. Types /\ Tree /\ Deferred /\ Contents /\ Kept
  BY DEF IInv
<1>2. f[n] = m /\ \A k \in tree \ T : f[k] = k
  OBVIOUS
<1>3. tree' = {f[k] : k \in tree}
  <2> HIDE DEF f
  <2> QED BY <1>2
<1>4. T = {n} /\ T \in SUBSET tree /\ S = {} /\ gpu' \subseteq gpu \ S /\ mapped' = mapped \ S
      /\ \A q \in Pages : want'[q] = IF q \in S THEN Default ELSE want[q]
  OBVIOUS
<1> HIDE DEF f, T, S
<1>5. ASSUME NEW k \in tree PROVE Redone(k, f[k], S)
  <2>1. CASE k = n
    BY <1>2, <1>4, <2>1
  <2>2. CASE k # n
    <3>1. Cuts(k, k, S) /\ k \in RangeRec /\ Shape(k)
      BY <1>1, <1>4 DEF Cuts, Tree
    <3> QED BY <1>2, <1>4, <2>2, <3>1 DEF Redone
  <2> QED BY <2>1, <2>2
<1>6. Tree' /\ Reworks(f, S)
  BY <1>1, <1>3, <1>5, ReworkTree
<1>7. torn => torn'
  OBVIOUS
<1>8. Contents' /\ Kept'
  BY <1>1, <1>4, <1>6, <1>7, KeepStep
<1>9. Deferred'
  <2>1. CASE list' \in ListWith({n}) /\ torn' = torn
    BY <1>1, <1>2, <1>4, <1>6, <2>1, ReworkDeferred
  <2>2. CASE list' = list /\ m.op = n.op /\ torn' = (torn \/ ~Listed(n))
    <3>1. ASSUME NEW k \in tree', Id(k) \notin ToSet(list) PROVE k.op # "unmap" /\ (torn' \/ Plain(k))
      <4>1. PICK j \in tree : k = f[j] /\ Id(k) = Id(j)
        BY <1>6 DEF Reworks
      <4>2. ~Listed(j)
        BY <3>1, <4>1 DEF Listed
      <4>3. CASE j = n
        BY <1>1, <1>2, <2>2, <4>1, <4>2, <4>3 DEF Deferred
      <4>4. CASE j # n
        BY <1>1, <1>2, <1>4, <2>2, <4>1, <4>2, <4>4 DEF Deferred
      <4> QED BY <4>3, <4>4
    <3>2. ToSet(list) \subseteq {Id(k) : k \in tree'}
      BY <1>1, <1>6 DEF Deferred, Reworks
    <3> QED BY <1>1, <2>2, <3>1, <3>2 DEF Deferred, Listed
  <2> QED BY <2>1, <2>2
<1>10. Types'
  BY <1>1 DEF Types
<1>11. Mapping'
  BY DEF Mapping, Busy
<1> QED BY <1>6, <1>8, <1>9, <1>10, <1>11 DEF IInv

LEMMA FaultStep ==
  ASSUME IInv, NEW p \in Pages, cpu_fault(p)
  PROVE  IInv'
<1>1. Types /\ Tree /\ Deferred
  BY DEF IInv
<1>2. /\ mapped' = mapped /\ wk' = wk /\ want' = want /\ todo' = todo /\ got' = got /\ torn' = torn
      /\ ~Busy
  BY DEF cpu_fault
<1>3. PICK n \in At(p) :
     /\ list' \in ListWith({n})
     /\ \/ /\ In(p, n) /\ n.op # "unmap"
           /\ LET t == Trim(n, p) IN
              /\ tree' = (tree \ {n}) \cup {AddListWork(OwnTrimmed(n, t), "update")}
              /\ gpu' \in {gpu, gpu \ (t.rest.s .. t.rest.l)}
        \/ \E x \in n.kids :
           /\ In(p, x) /\ x.op # "unmap"
           /\ LET t == Trim(x, p) IN
              /\ tree' = (tree \ {n}) \cup {AddListWork(KidTrimmed(n, x, t), "update")}
              /\ gpu' \in {gpu, gpu \ (t.rest.s .. t.rest.l)}
  BY DEF cpu_fault
<1>4. n \in tree
  BY DEF At
<1>5. n \in RangeRec /\ Shape(n) /\ (n.op = "unmap" => Listed(n))
  BY <1>1, <1>4, TreeRange
<1>6. CASE /\ In(p, n) /\ n.op # "unmap"
           /\ LET t == Trim(n, p) IN
              /\ tree' = (tree \ {n}) \cup {AddListWork(OwnTrimmed(n, t), "update")}
              /\ gpu' \in {gpu, gpu \ (t.rest.s .. t.rest.l)}
  <2> DEFINE t == Trim(n, p)
             q == OwnTrimmed(n, t)
             m == AddListWork(q, "update")
  <2>1. tree' = (tree \ {n}) \cup {m} /\ gpu' \subseteq gpu
    BY <1>6
  <2>2. Trimmed(n, t, p) /\ q = OwnTrimmed(n, t) /\ m = AddListWork(q, "update")
    BY DEF Trimmed
  <2> HIDE DEF t, q, m
  <2>3. Redone(n, m, {})
    BY <1>5, <1>6, <2>2, TrimRange
  <2> QED BY <1>2, <1>3, <1>4, <2>1, <2>3, TrimStep
<1>7. ASSUME NEW x \in n.kids, In(p, x), x.op # "unmap",
             LET t == Trim(x, p) IN
             /\ tree' = (tree \ {n}) \cup {AddListWork(KidTrimmed(n, x, t), "update")}
             /\ gpu' \in {gpu, gpu \ (t.rest.s .. t.rest.l)}
      PROVE  IInv'
  <2> DEFINE t == Trim(x, p)
             q == KidTrimmed(n, x, t)
             m == AddListWork(q, "update")
  <2>1. tree' = (tree \ {n}) \cup {m} /\ gpu' \subseteq gpu
    BY <1>7
  <2>2. Trimmed(x, t, p) /\ q = KidTrimmed(n, x, t) /\ m = AddListWork(q, "update")
    BY DEF Trimmed
  <2> HIDE DEF t, q, m
  <2>3. Redone(n, m, {})
    BY <1>5, <1>7, <2>2, TrimChild
  <2> QED BY <1>2, <1>3, <1>4, <2>1, <2>3, TrimStep
<1> QED BY <1>3, <1>6, <1>7

LEMMA FaultFailsStep ==
  ASSUME IInv, NEW p \in Pages, cpu_fault_fails(p)
  PROVE  IInv'
<1>1. Types /\ Tree /\ Deferred
  BY DEF IInv
<1>2. /\ mapped' = mapped /\ wk' = wk /\ want' = want /\ todo' = todo /\ got' = got /\ list' = list
      /\ gpu' = gpu /\ ~Busy
  BY DEF cpu_fault_fails
<1>3. PICK n \in At(p) :
     /\ \/ /\ In(p, n) /\ n.op # "unmap"
           /\ tree' = (tree \ {n}) \cup {OwnTrimmed(n, TrimHead(n, p))}
        \/ \E x \in n.kids :
           /\ In(p, x) /\ x.op # "unmap"
           /\ tree' = (tree \ {n}) \cup {KidTrimmed(n, x, TrimHead(x, p))}
     /\ torn' = (torn \/ ~Listed(n))
  BY DEF cpu_fault_fails
<1>4. n \in tree
  BY DEF At
<1>5. n \in RangeRec /\ Shape(n) /\ (n.op = "unmap" => Listed(n))
  BY <1>1, <1>4, TreeRange
<1>6. CASE /\ In(p, n) /\ n.op # "unmap"
           /\ tree' = (tree \ {n}) \cup {OwnTrimmed(n, TrimHead(n, p))}
  <2> DEFINE t == TrimHead(n, p)
             m == OwnTrimmed(n, t)
  <2>1. tree' = (tree \ {n}) \cup {m} /\ gpu' \subseteq gpu
    BY <1>2, <1>6
  <2>2. Trimmed(n, t, p) /\ m = OwnTrimmed(n, t)
    BY DEF Trimmed
  <2> HIDE DEF t, m
  <2>3. Redone(n, m, {}) /\ m.op = n.op
    BY <1>5, <1>6, <2>2, TrimRange
  <2> QED BY <1>2, <1>3, <1>4, <2>1, <2>3, TrimStep
<1>7. ASSUME NEW x \in n.kids, In(p, x), x.op # "unmap",
             tree' = (tree \ {n}) \cup {KidTrimmed(n, x, TrimHead(x, p))}
      PROVE  IInv'
  <2> DEFINE t == TrimHead(x, p)
             m == KidTrimmed(n, x, t)
  <2>1. tree' = (tree \ {n}) \cup {m} /\ gpu' \subseteq gpu
    BY <1>2, <1>7
  <2>2. Trimmed(x, t, p) /\ m = KidTrimmed(n, x, t)
    BY DEF Trimmed
  <2> HIDE DEF t, m
  <2>3. Redone(n, m, {}) /\ m.op = n.op
    BY <1>5, <1>7, <2>2, TrimChild
  <2> QED BY <1>2, <1>3, <1>4, <2>1, <2>3, TrimStep
<1> QED BY <1>3, <1>6, <1>7
-----------------------------------------------------------------------------
(* Ranges that are replaced, under the mmap write lock. *)

\* A range that svm_range_new has made.
Fresh(m) == m \in RangeRec /\ Shape(m) /\ Plain(m)

LEMMA NewIsFresh ==
  ASSUME NEW s \in Pages, NEW l \in Pages, s <= l, NEW attr \in Attrs,
         NEW m, m = NewRange(s, l, attr)
  PROVE  Fresh(m) /\ m.it_s = s /\ m.it_l = l /\ m.attr = attr
<1>1. m.attr = attr
  BY DEF NewRange
<1> QED BY <1>1, NewRangeIs DEF Fresh

\* It has the pages of its interval.
LEMMA FreshPages ==
  ASSUME NEW m, Fresh(m)
  PROVE  /\ Living(m) = {Own(m)} /\ Own(m).attr = m.attr
         /\ \A p : In(p, Own(m)) <=> m.it_s <= p /\ p <= m.it_l
<1>1. m \in RangeRec /\ m.s = m.it_s /\ m.l = m.it_l /\ m.kids = {} /\ m.op = "none"
  BY DEF Fresh, Plain
<1>2. Parts(m) = {Own(m)} /\ Own(m).s = m.s /\ Own(m).l = m.l /\ Own(m).attr = m.attr /\ Own(m).op = "none"
  BY <1>1, RangeFields
<1> QED BY <1>1, <1>2 DEF Living, In

\* Intervals of two ranges that have no page in common.
Apart(m, n) == m.it_l < n.it_s \/ n.it_l < m.it_s

LEMMA ReplaceTree ==
  ASSUME Tree, NEW F, NEW G, \A g \in G : g \in RangeRec /\ Shape(g),
         \A g, h \in G : g = h \/ Apart(g, h),
         \A g \in G : \A n \in tree \ F : Apart(g, n),
         tree' = (tree \ F) \cup G
  PROVE  Tree'
<1>1. tree' \subseteq RangeRec /\ \A n \in tree' : Shape(n)
  BY DEF Tree
<1>2. ASSUME NEW m \in tree', NEW n \in tree' PROVE m = n \/ m.it_l < n.it_s \/ n.it_l < m.it_s
  <2>1. CASE m \in G /\ n \in G
    BY <2>1 DEF Apart
  <2>2. CASE m \in tree \ F /\ n \in tree \ F
    BY <2>2 DEF Tree
  <2>3. CASE m \in G /\ n \in tree \ F
    BY <2>3 DEF Apart
  <2>4. CASE m \in tree \ F /\ n \in G
    BY <2>4 DEF Apart
  <2> QED BY <2>1, <2>2, <2>3, <2>4
<1> QED BY <1>1, <1>2 DEF Tree

\* The first range goes off the list.
LEMMA TailKeeps ==
  ASSUME list \in Seq(Pages \X Pages), IsInjective(list), list # <<>>
  PROVE  /\ Tail(list) \in Seq(Pages \X Pages) /\ IsInjective(Tail(list))
         /\ Head(list) \notin ToSet(Tail(list))
         /\ ToSet(list) = ToSet(Tail(list)) \cup {Head(list)}
<1> DEFINE R == Pages \X Pages
           len == Len(list)
           t == Tail(list)
<1>1. list \in Seq(R) /\ R = Pages \X Pages
  OBVIOUS
<1> HIDE DEF R
<1>2. len \in Nat /\ len >= 1 /\ DOMAIN list = 1 .. len /\ Head(list) = list[1]
  BY <1>1
<1>3. t \in Seq(R) /\ Len(t) = len - 1 /\ DOMAIN t = 1 .. (len - 1)
      /\ \A i \in 1 .. (len - 1) : t[i] = list[i + 1]
  BY <1>1
<1> HIDE DEF len, t
<1>4. IsInjective(t)
  <2> SUFFICES ASSUME NEW i \in 1 .. (len - 1), NEW j \in 1 .. (len - 1), t[i] = t[j] PROVE i = j
    BY <1>3 DEF IsInjective
  <2>1. i + 1 \in 1 .. len /\ j + 1 \in 1 .. len /\ list[i + 1] = list[j + 1]
    BY <1>2, <1>3
  <2>2. i + 1 = j + 1
    BY <2>1, <1>2 DEF IsInjective
  <2> QED BY <2>2, <1>2
<1>5. Head(list) \notin ToSet(t)
  <2> SUFFICES ASSUME NEW i \in 1 .. (len - 1), t[i] = list[1] PROVE FALSE
    BY <1>2, <1>3 DEF ToSet
  <2>1. i + 1 \in 1 .. len /\ list[i + 1] = list[1] /\ 1 \in 1 .. len /\ i + 1 # 1
    BY <1>2, <1>3
  <2> QED BY <2>1, <1>2 DEF IsInjective
<1>6. ToSet(list) = ToSet(t) \cup {Head(list)}
  <2>1. ASSUME NEW x \in ToSet(list) PROVE x \in ToSet(t) \cup {Head(list)}
    <3>1. PICK i \in 1 .. len : x = list[i]
      BY <1>2 DEF ToSet
    <3>2. CASE i = 1
      BY <3>1, <3>2, <1>2
    <3>3. CASE i # 1
      <4>1. i - 1 \in 1 .. (len - 1) /\ (i - 1) + 1 = i
        BY <3>3, <1>2
      <4>2. t[i - 1] = x
        BY <4>1, <3>1, <1>3
      <4> QED BY <4>1, <4>2, <1>3 DEF ToSet
    <3> QED BY <3>2, <3>3
  <2>2. ASSUME NEW x \in ToSet(t) PROVE x \in ToSet(list)
    <3>1. PICK i \in 1 .. (len - 1) : x = t[i]
      BY <1>3 DEF ToSet
    <3>2. i + 1 \in 1 .. len /\ x = list[i + 1]
      BY <3>1, <1>2, <1>3
    <3> QED BY <3>2, <1>2 DEF ToSet
  <2>3. Head(list) \in ToSet(list)
    BY <1>2 DEF ToSet
  <2> QED BY <2>1, <2>2, <2>3
<1> QED BY <1>1, <1>3, <1>4, <1>5, <1>6 DEF t

\* The worker makes a range of every part that is not to be removed.
LEMMA HandledAre ==
  ASSUME NEW n \in RangeRec
  PROVE  Handled(n) = {NewRange(x.s, x.l, x.attr) : x \in Living(n)}
<1>1. /\ n.kids \subseteq Kid /\ Parts(n) = n.kids \cup {Own(n)}
      /\ Own(n).s = n.s /\ Own(n).l = n.l /\ Own(n).attr = n.attr /\ Own(n).op = n.op
  BY RangeFields
<1>2. {y \in n.kids : y.op = "add"} = {y \in n.kids : y.op # "unmap"}
  BY <1>1, KidFields
<1>3. CASE n.op = "unmap"
  <2>1. Living(n) = {y \in n.kids : y.op # "unmap"}
    BY <1>1, <1>3 DEF Living
  <2> QED BY <1>2, <1>3, <2>1 DEF Handled
<1>4. CASE n.op # "unmap"
  <2>1. Living(n) = {y \in n.kids : y.op # "unmap"} \cup {Own(n)}
    BY <1>1, <1>4 DEF Living
  <2>2. NewRange(Own(n).s, Own(n).l, Own(n).attr) = NewRange(n.s, n.l, n.attr)
    BY <1>1
  <2> QED BY <1>2, <1>4, <2>1, <2>2 DEF Handled
<1> QED BY <1>3, <1>4

LEMMA HandleStep ==
  ASSUME IInv, deferred_handle
  PROVE  IInv'
<1>1. Types /\ Tree /\ Deferred /\ Contents /\ Kept
  BY DEF IInv
<1>2. PICK n \in tree : Id(n) = Head(list) /\ tree' = (tree \ {n}) \cup Handled(n)
  BY DEF deferred_handle
<1>3. /\ wk = "lock" /\ list' = Tail(list) /\ wk' = "idle"
      /\ mapped' = mapped /\ gpu' = gpu /\ want' = want /\ torn' = torn
      /\ todo = {} /\ got = {} /\ todo' = todo /\ got' = got
  BY DEF deferred_handle, Busy
<1> DEFINE N(x) == NewRange(x.s, x.l, x.attr)
           G == Handled(n)
<1>4. n \in RangeRec /\ Shape(n) /\ n.it_s \in Int /\ n.it_l \in Int /\ Living(n) \subseteq Parts(n)
  BY <1>1, TreeRange, RangeFields, Inside
<1>5. G = {N(x) : x \in Living(n)}
  BY <1>4, HandledAre
<1>6. ASSUME NEW x \in Living(n)
      PROVE  /\ x.s \in Int /\ x.l \in Int /\ n.it_s <= x.s /\ x.s <= x.l /\ x.l <= n.it_l
             /\ Fresh(N(x)) /\ N(x).it_s = x.s /\ N(x).it_l = x.l /\ N(x).attr = x.attr
  <2>1. x \in Part /\ x \in Parts(n)
    BY <1>4, PartsArePart
  <2>2. /\ x.s \in Pages /\ x.l \in Pages /\ x.s \in Int /\ x.l \in Int /\ x.attr \in Attrs
    BY <2>1, PartFields
  <2>3. n.it_s <= x.s /\ x.s <= x.l /\ x.l <= n.it_l
    BY <1>4, <2>1 DEF Shape, Divides
  <2> DEFINE s == x.s
             l == x.l
             attr == x.attr
             m == N(x)
  <2>4. s \in Pages /\ l \in Pages /\ s <= l /\ attr \in Attrs /\ m = NewRange(s, l, attr)
    BY <2>2, <2>3
  <2>5. s = x.s /\ l = x.l /\ attr = x.attr /\ m = N(x)
    OBVIOUS
  <2> HIDE DEF s, l, attr, m, N
  <2>6. Fresh(m) /\ m.it_s = s /\ m.it_l = l /\ m.attr = attr
    BY <2>4, NewIsFresh
  <2> QED BY <2>2, <2>3, <2>5, <2>6
<1> HIDE DEF G, N
<1>7. ASSUME NEW g \in G, NEW h \in G PROVE g = h \/ Apart(g, h)
  <2>1. PICK x \in Living(n) : g = N(x)
    BY <1>5
  <2>2. PICK y \in Living(n) : h = N(y)
    BY <1>5
  <2>3. x = y \/ x.l < y.s \/ y.l < x.s
    BY <1>4 DEF Shape, Divides
  <2> QED BY <2>1, <2>2, <2>3, <1>6 DEF Apart
<1>8. ASSUME NEW g \in G, NEW k \in tree \ {n} PROVE Apart(g, k)
  <2>1. PICK x \in Living(n) : g = N(x)
    BY <1>5
  <2>2. k \in RangeRec /\ k.it_s \in Int /\ k.it_l \in Int
    BY <1>1, TreeRange, RangeFields
  <2>3. n.it_l < k.it_s \/ k.it_l < n.it_s
    BY <1>1 DEF Tree
  <2> QED BY <2>1, <2>2, <2>3, <1>4, <1>6 DEF Apart
<1>9. \A g \in G : Fresh(g)
  BY <1>5, <1>6
<1>10. tree' = (tree \ {n}) \cup G
  BY <1>2 DEF G
<1>11. Tree'
  BY <1>1, <1>7, <1>8, <1>9, <1>10, ReplaceTree DEF Fresh
<1>12. Deferred'
  <2>1. /\ list \in Seq(Pages \X Pages) /\ IsInjective(list) /\ list # <<>>
        /\ ToSet(list) \subseteq {Id(k) : k \in tree}
        /\ \A k \in tree : Id(k) \notin ToSet(list) => k.op # "unmap" /\ (torn \/ Plain(k))
    BY <1>1, <1>3 DEF Deferred, Listed
  <2>2. /\ list' \in Seq(Pages \X Pages) /\ IsInjective(list')
        /\ Head(list) \notin ToSet(list') /\ ToSet(list) = ToSet(list') \cup {Head(list)}
    BY <2>1, <1>3, TailKeeps
  <2>3. ToSet(list') \subseteq {Id(k) : k \in tree'}
    <3> SUFFICES ASSUME NEW i \in ToSet(list') PROVE \E k \in tree' : i = Id(k)
      OBVIOUS
    <3>1. PICK k \in tree : i = Id(k)
      BY <2>1, <2>2
    <3>2. k # n
      BY <1>2, <2>2, <3>1
    <3> QED BY <1>10, <3>1, <3>2
  <2>4. ASSUME NEW k \in tree', Id(k) \notin ToSet(list')
        PROVE  k.op # "unmap" /\ (torn \/ Plain(k))
    <3>1. CASE k \in G
      BY <1>9, <3>1 DEF Fresh, Plain
    <3>2. CASE k \in tree \ {n}
      <4>1. Id(k) # Id(n)
        BY <1>1, <3>2, IdsDiffer
      <4>2. Id(k) \notin ToSet(list)
        BY <1>2, <2>2, <2>4, <4>1
      <4> QED BY <2>1, <3>2, <4>2
    <3> QED BY <1>10, <3>1, <3>2
  <2> QED BY <1>3, <2>2, <2>3, <2>4 DEF Deferred, Listed
<1>13. Contents'
  <2> SUFFICES ASSUME NEW m \in tree', NEW y \in Living(m), NEW p \in Pages, In(p, y)
               PROVE  p \in mapped /\ (torn \/ y.attr.cmp = want[p].cmp)
    BY <1>3 DEF Contents, Sound
  <2>1. CASE m \in tree
    BY <1>1, <2>1 DEF Contents, Sound
  <2>2. CASE m \in G
    <3>1. PICK x \in Living(n) : m = N(x)
      BY <1>5, <2>2
    <3>2. y.attr = x.attr /\ In(p, x)
      BY <1>6, <3>1, FreshPages DEF In
    <3>3. Sound(x)
      BY <1>1 DEF Contents
    <3> QED BY <3>2, <3>3 DEF Sound
  <2> QED BY <1>10, <2>1, <2>2
<1>14. ASSUME NEW p \in Pages, InLiving(p) PROVE InLiving(p)'
  <2>1. PICK k \in tree : \E x \in Living(k) : In(p, x)
    BY <1>14 DEF InLiving
  <2>2. CASE k # n
    BY <2>1, <2>2, <1>10 DEF InLiving
  <2>3. CASE k = n
    <3>1. PICK x \in Living(n) : In(p, x)
      BY <2>1, <2>3
    <3>2. N(x) \in tree'
      BY <1>5, <1>10
    <3>3. In(p, Own(N(x))) /\ Own(N(x)) \in Living(N(x))
      BY <1>6, <3>1, FreshPages DEF In
    <3> QED BY <3>2, <3>3 DEF InLiving
  <2> QED BY <2>2, <2>3
<1>15. Kept'
  BY <1>1, <1>3, <1>14 DEF Kept, Types
<1>16. Types'
  BY <1>1, <1>3 DEF Types
<1>17. Mapping'
  BY <1>3 DEF Mapping
<1> QED BY <1>11, <1>12, <1>13, <1>15, <1>16, <1>17 DEF IInv

LEMMA PeekStep ==
  ASSUME IInv, deferred_peek
  PROVE  IInv'
<1>1. /\ tree' = tree /\ list' = list /\ mapped' = mapped /\ gpu' = gpu /\ want' = want
      /\ list # <<>> /\ wk' = "lock" /\ todo' = todo /\ got' = got /\ torn' = torn
  BY DEF deferred_peek
<1>2. Types' /\ Tree' /\ Deferred'
  BY <1>1 DEF IInv, Types, Tree, Deferred, Listed
<1>3. Contents' /\ Kept' /\ Mapping'
  BY <1>1 DEF IInv, Contents, Sound, Kept, InLiving, Mapping
<1> QED BY <1>2, <1>3 DEF IInv

LEMMA MmapStep ==
  ASSUME IInv, NEW s \in Pages, NEW l \in Pages, mmap(s, l)
  PROVE  IInv'
<1>1. /\ tree' = tree /\ list' = list /\ wk' = wk /\ gpu' = gpu /\ want' = want /\ torn' = torn
      /\ todo = {} /\ got = {} /\ todo' = todo /\ got' = got /\ mapped' = mapped \cup (s .. l)
  BY DEF mmap, Busy
<1>2. s .. l \subseteq Pages
  BY Between
<1>3. Types' /\ Tree' /\ Deferred'
  BY <1>1, <1>2 DEF IInv, Types, Tree, Deferred, Listed
<1>4. Contents'
  BY <1>1 DEF IInv, Contents, Sound
<1>5. Kept'
  BY <1>1, <1>2 DEF IInv, Types, Kept, InLiving
<1>6. Mapping'
  BY <1>1 DEF Mapping
<1> QED BY <1>3, <1>4, <1>5, <1>6 DEF IInv

\* A range is made on a fault, where there was none.
LEMMA RestoreNew ==
  ASSUME Types, Tree, Deferred, Contents, Kept, NEW p \in Pages, NEW b \in Boundaries(p),
         tree' = tree \cup {NewRange(b.s, b.l, Default)}, gpu' = gpu,
         want' = [q \in Pages |-> IF q \in b.s .. b.l THEN Default ELSE want[q]],
         list' = list, mapped' = mapped, wk' = wk, torn' = torn
  PROVE  /\ Tree' /\ Deferred' /\ Contents' /\ Kept' /\ want' \in [Pages -> Attrs]
         /\ \E m \in tree' : Id(m) = <<b.s, b.l>> /\ m.op = "none"
<1> DEFINE s == b.s
           l == b.l
           m == NewRange(s, l, Default)
           I == s .. l
           G == {m}
           F == {}
<1>1. /\ s \in Pages /\ l \in Pages /\ s <= p /\ p <= l
      /\ \A q \in I : q \in mapped /\ At(q) = {}
      /\ m = NewRange(s, l, Default)
  BY DEF Boundaries
<1>2. /\ tree' = (tree \ F) \cup G /\ G = {m} /\ F = {} /\ b.s = s /\ b.l = l
      /\ want' = [q \in Pages |-> IF q \in I THEN Default ELSE want[q]]
  OBVIOUS
<1>3. s \in Int /\ l \in Int /\ s <= l /\ \A q : q \in I <=> q \in Pages /\ s <= q /\ q <= l
  BY <1>1, PagesAre, Between
<1> HIDE DEF s, l, m, I, G, F
<1>4. Fresh(m) /\ m.it_s = s /\ m.it_l = l /\ m.attr = Default
  BY <1>1, <1>3, DefaultIs, NewIsFresh
<1>5. ASSUME NEW n \in tree PROVE Apart(m, n)
  <2>1. n.it_s \in Pages /\ n.it_l \in Pages /\ n.it_s \in Int /\ n.it_l \in Int /\ n.it_s <= n.it_l
    BY TreeRange, RangeFields, Inside
  <2>2. ASSUME n.it_s <= l, s <= n.it_l PROVE FALSE
    <3>1. PICK q \in Pages : s <= q /\ q <= l /\ n.it_s <= q /\ q <= n.it_l
      <4>1. CASE n.it_s <= s
        BY <1>1, <1>3, <2>1, <2>2, <4>1
      <4>2. CASE s < n.it_s
        BY <1>3, <2>1, <2>2, <4>2
      <4> QED BY <1>3, <2>1, <4>1, <4>2
    <3> QED BY <3>1, <1>1, <1>3 DEF At
  <2> QED BY <1>3, <1>4, <2>1, <2>2 DEF Apart
<1>6. Tree'
  <2>1. \A g \in G : g \in RangeRec /\ Shape(g)
    BY <1>2, <1>4 DEF Fresh
  <2>2. \A g, h \in G : g = h \/ Apart(g, h)
    BY <1>2
  <2>3. \A g \in G : \A n \in tree \ F : Apart(g, n)
    BY <1>2, <1>5
  <2> QED BY <1>2, <2>1, <2>2, <2>3, ReplaceTree
<1>7. Deferred'
  <2>1. tree' = tree \cup {m} /\ Plain(m) /\ m.op # "unmap"
    BY <1>2, <1>4 DEF Fresh, Plain
  <2> QED BY <2>1 DEF Deferred, Listed
<1>8. /\ Living(m) = {Own(m)} /\ Own(m).attr = Default
      /\ \A q \in Pages : In(q, Own(m)) <=> q \in I
  BY <1>3, <1>4, FreshPages
<1>9. Contents'
  <2> SUFFICES ASSUME NEW n \in tree', NEW y \in Living(n), NEW q \in Pages, In(q, y)
               PROVE  q \in mapped /\ (torn \/ y.attr.cmp = want'[q].cmp)
    BY DEF Contents, Sound
  <2>1. CASE n = m
    BY <1>1, <1>2, <1>8, <2>1
  <2>2. CASE n \in tree
    <3>1. q \in mapped /\ (torn \/ y.attr.cmp = want[q].cmp)
      BY <2>2 DEF Contents, Sound
    <3>2. n.it_s <= q /\ q <= n.it_l
      BY <2>2, TreeRange, Inside
    <3>3. At(q) # {}
      BY <2>2, <3>2 DEF At
    <3> QED BY <1>1, <1>2, <3>1, <3>3
  <2> QED BY <1>2, <2>1, <2>2
<1>10. \A q \in Pages : InLiving(q) \/ q \in I => InLiving(q)'
  <2>1. tree \subseteq tree' /\ m \in tree'
    BY <1>2
  <2> QED BY <2>1, <1>8 DEF InLiving
<1>11. I \subseteq Pages /\ I \subseteq mapped
  BY <1>1, <1>3
<1>12. ASSUME ~torn PROVE Kept'
  <2>1. \A q \in gpu' : InLiving(q)'
    BY <1>10, <1>12 DEF Kept, Types
  <2>2. \A q \in mapped : want'[q].cmp # Default.cmp => InLiving(q)'
    BY <1>2, <1>10, <1>11, <1>12 DEF Kept, Types
  <2>3. \A q \in Pages \ mapped : want'[q].cmp = Default.cmp
    BY <1>2, <1>12 DEF Kept
  <2> QED BY <2>1, <2>2, <2>3 DEF Kept
<1>13. want' \in [Pages -> Attrs]
  BY <1>2, DefaultIs DEF Types
<1>14. m \in tree' /\ Id(m) = <<b.s, b.l>> /\ m.op = "none"
  BY <1>2, <1>4 DEF Fresh, Plain, Id
<1>15. torn => Kept'
  BY DEF Kept
<1> QED BY <1>6, <1>7, <1>9, <1>12, <1>13, <1>14, <1>15

\* What is to be mapped now is not to be removed.
LEMMA NewTodo ==
  ASSUME Tree', got' = {}, NEW A \in SUBSET tree', \A n \in A : n.op # "unmap",
         todo' = {Id(n) : n \in A}
  PROVE  Mapping'
<1>1. ASSUME NEW n \in tree', n.op = "unmap" PROVE Id(n) \notin todo'
  <2> SUFFICES ASSUME NEW a \in A, Id(a) = Id(n) PROVE FALSE
    OBVIOUS
  <2>1. \A x \in tree' : x \in RangeRec /\ Shape(x)
    BY DEF Tree
  <2>2. n.it_s \in Int /\ n.it_l \in Int /\ n.it_s <= n.it_l
    BY <2>1, Inside, RangeFields
  <2>3. a.it_s = n.it_s /\ a.it_l = n.it_l
    BY DEF Id
  <2>4. a = n
    BY <2>2, <2>3 DEF Tree
  <2> QED BY <1>1, <2>4
<1> QED BY <1>1 DEF Mapping

LEMMA RestoreStep ==
  ASSUME IInv, NEW p \in Pages, restore_pages(p)
  PROVE  IInv'
<1>1. Types /\ Tree /\ Deferred /\ Contents /\ Kept
  BY DEF IInv
<1>2. /\ list' = list /\ mapped' = mapped /\ wk' = wk /\ gpu' = gpu /\ torn' = torn
      /\ todo = {} /\ got = {} /\ got' = got
  BY DEF restore_pages, Busy
<1>3. ASSUME NEW b \in Boundaries(p), tree' = tree \cup {NewRange(b.s, b.l, Default)},
             todo' = {<<b.s, b.l>>},
             want' = [q \in Pages |-> IF q \in b.s .. b.l THEN Default ELSE want[q]]
      PROVE  IInv'
  <2>1. /\ Tree' /\ Deferred' /\ Contents' /\ Kept' /\ want' \in [Pages -> Attrs]
        /\ \E m \in tree' : Id(m) = <<b.s, b.l>> /\ m.op = "none"
    BY <1>1, <1>2, <1>3, RestoreNew
  <2>2. PICK m \in tree' : Id(m) = <<b.s, b.l>> /\ m.op = "none"
    BY <2>1
  <2> DEFINE A == {m}
  <2>3. A \in SUBSET tree' /\ (\A n \in A : n.op # "unmap") /\ todo' = {Id(n) : n \in A} /\ got' = {}
    BY <1>2, <1>3, <2>2
  <2> HIDE DEF A
  <2>4. Mapping'
    BY <2>1, <2>3, NewTodo
  <2>5. Types'
    BY <1>1, <1>2, <2>1 DEF Types
  <2> QED BY <2>1, <2>4, <2>5 DEF IInv
<1>4. ASSUME NEW A \in SUBSET tree, \A n \in A : n.op # "unmap", tree' = tree, want' = want,
             todo' = {Id(n) : n \in A}
      PROVE  IInv'
  <2>1. Types' /\ Tree' /\ Deferred'
    BY <1>1, <1>2, <1>4 DEF Types, Tree, Deferred, Listed
  <2>2. Contents' /\ Kept'
    BY <1>1, <1>2, <1>4 DEF Contents, Sound, Kept, InLiving
  <2>3. Mapping'
    BY <1>2, <1>4, <2>1, NewTodo
  <2> QED BY <2>1, <2>2, <2>3 DEF IInv
<1>5. CASE UNCHANGED <<tree, todo, want>>
  <2> DEFINE A == {}
  <2>1. A \in SUBSET tree /\ (\A n \in A : n.op # "unmap") /\ todo' = {Id(n) : n \in A}
    BY <1>2, <1>5
  <2> HIDE DEF A
  <2> QED BY <1>4, <1>5, <2>1
<1>6. CASE /\ todo' = {Id(n) : n \in {m \in At(p) : In(p, m) /\ m.op # "unmap"}}
           /\ UNCHANGED <<tree, want>>
  <2> DEFINE A == {m \in At(p) : In(p, m) /\ m.op # "unmap"}
  <2>1. A \in SUBSET tree /\ (\A n \in A : n.op # "unmap") /\ todo' = {Id(n) : n \in A}
    BY <1>6 DEF At
  <2> HIDE DEF A
  <2> QED BY <1>4, <1>6, <2>1
<1> QED BY <1>3, <1>5, <1>6 DEF restore_pages
-----------------------------------------------------------------------------
(* Mapping. *)

LEMMA GetStep ==
  ASSUME IInv, get_pages \/ map_nothing \/ get_fails
  PROVE  IInv'
<1>1. /\ tree' = tree /\ list' = list /\ mapped' = mapped /\ gpu' = gpu /\ wk' = wk
      /\ torn' = torn /\ want' = want /\ got = {}
  BY DEF get_pages, map_nothing, get_fails
<1>2. Types' /\ Tree' /\ Deferred'
  BY <1>1 DEF IInv, Types, Tree, Deferred, Listed
<1>3. Contents' /\ Kept'
  BY <1>1 DEF IInv, Contents, Sound, Kept, InLiving
<1>4. CASE get_pages
  <2>1. PICK n \in tree : /\ Id(n) \in todo /\ n.s .. n.l \subseteq mapped
                          /\ todo' = todo \ {Id(n)}
                          /\ got' = {[id |-> Id(n), valid |-> TRUE]}
    BY <1>4 DEF get_pages
  <2>2. n.s \in n.s .. n.l
    <3>1. n \in RangeRec /\ Own(n) \in Parts(n) /\ Own(n).s = n.s /\ Own(n).l = n.l /\ Shape(n)
      BY RangeFields, TreeRange DEF IInv
    <3>2. n.s \in Int /\ n.l \in Int /\ n.s <= n.l
      BY <3>1, RangeFields DEF Shape, Divides
    <3> QED BY <3>2
  <2>3. n.op # "unmap"
    BY <2>1, <2>2 DEF IInv, Mapping
  <2>4. \A m \in tree : Id(m) = Id(n) => m = n
    BY IdsDiffer DEF IInv
  <2>5. todo' \subseteq todo
    BY <2>1
  <2>6. \A m \in tree : m.op = "unmap" => /\ Id(m) \in todo' => m.s \notin mapped
                                          /\ Id(m) # Id(n)
    BY <2>3, <2>4, <2>5 DEF IInv, Mapping
  <2>7. \A g \in got' : g.id = Id(n) /\ g = [id |-> g.id, valid |-> g.valid]
    BY <2>1
  <2>8. Mapping'
    BY <1>1, <2>1, <2>5, <2>6, <2>7 DEF IInv, Mapping
  <2> QED BY <1>2, <1>3, <2>8 DEF IInv
<1>5. CASE map_nothing \/ get_fails
  <2>1. todo' \subseteq todo /\ got' = got
    BY <1>5 DEF map_nothing, get_fails
  <2>2. Mapping'
    BY <1>1, <2>1 DEF IInv, Mapping
  <2> QED BY <1>2, <1>3, <2>2 DEF IInv
<1> QED BY <1>4, <1>5

LEMMA MapStep ==
  ASSUME IInv, map_pages
  PROVE  IInv'
<1>1. /\ tree' = tree /\ list' = list /\ mapped' = mapped /\ wk' = wk
      /\ torn' = torn /\ want' = want /\ got' = {} /\ todo' \subseteq todo
  BY DEF map_pages
<1>2. Tree' /\ Deferred' /\ Contents' /\ Mapping'
  BY <1>1 DEF IInv, Tree, Deferred, Listed, Contents, Sound, Mapping
<1>3. CASE gpu' = gpu
  BY <1>1, <1>2, <1>3 DEF IInv, Types, Kept, InLiving
<1>4. ASSUME NEW n \in tree, NEW g \in got, Id(n) = g.id, g.valid, gpu' = gpu \cup (n.s .. n.l)
      PROVE  IInv'
  <2>1. n.op # "unmap"
    BY <1>4 DEF IInv, Mapping
  <2>2. n \in RangeRec
    BY TreeRange DEF IInv
  <2>3. /\ n.s \in Pages /\ n.l \in Pages /\ Own(n) \in Living(n)
        /\ Own(n).s = n.s /\ Own(n).l = n.l
    BY <2>1, <2>2, RangeFields DEF Living
  <2>4. \A q \in n.s .. n.l : q \in Pages /\ In(q, Own(n))
    BY <2>3, Between DEF In
  <2>5. \A q \in n.s .. n.l : InLiving(q)
    BY <2>3, <2>4 DEF InLiving
  <2>6. Types'
    BY <1>1, <1>4, <2>4 DEF IInv, Types
  <2>7. Kept'
    BY <1>1, <1>4, <2>5 DEF IInv, Kept, InLiving
  <2> QED BY <1>2, <2>6, <2>7 DEF IInv
<1> QED BY <1>3, <1>4 DEF map_pages
-----------------------------------------------------------------------------
(* The ioctl. *)

LEMMA Least ==
  ASSUME NEW S \in SUBSET Nat, S # {}
  PROVE  \E x \in S : \A y \in S : x <= y
<1> DEFINE R == {ss \in Nat \X Nat : ss[1] < ss[2]}
<1>1. IsWellFoundedOn(R, Nat)
  BY NatLessThanWellFounded DEF OpToRel
<1> HIDE DEF R
<1>2. PICK x \in S : \A y \in S : ~(<<y, x>> \in R)
  BY <1>1, WFMin
<1>3. ASSUME NEW y \in S PROVE x <= y
  <2>1. x \in Nat /\ y \in Nat
    OBVIOUS
  <2>2. ASSUME y < x PROVE <<y, x>> \in R
    <3>1. <<y, x>> \in Nat \X Nat /\ <<y, x>>[1] < <<y, x>>[2]
      BY <2>1, <2>2
    <3> QED BY <3>1 DEF R
  <2>3. ~(y < x)
    BY <1>2, <2>2
  <2> QED BY <2>1, <2>3
<1> QED BY <1>3

\* Setting an attribute, of a range that has it already or of one that has not.
LEMMA AttrSet ==
  ASSUME NEW attr \in Attrs, NEW k \in AttrKinds, NEW v \in {0, 1}
  PROVE  /\ Apply(attr, k, v) \in Attrs
         /\ Apply(attr, k, v).cmp = IF k = "cmp" THEN v ELSE attr.cmp
         /\ SameAttrs(attr, k, v) => attr.cmp = Apply(attr, k, v).cmp
<1>1. k = "cmp" \/ k = "acc"
  BY KindsAssumption
<1>2. CASE k = "cmp"
  BY <1>2 DEF Attrs, Apply, SameAttrs
<1>3. CASE k = "acc"
  BY <1>3 DEF Attrs, Apply, SameAttrs
<1> QED BY <1>1, <1>2, <1>3

\* A range that takes the place of a part of range n.
Piece(m, n) ==
  /\ m \in RangeRec /\ Shape(m) /\ m.op # "unmap"
  /\ n.it_s <= m.it_s /\ m.it_l <= n.it_l
  /\ \A y \in Living(m) : \A p \in Pages : In(p, y) => \E x \in Living(n) : In(p, x)

LEMMA PieceNew ==
  ASSUME NEW n \in RangeRec, Shape(n), n.op # "unmap",
         NEW a \in Pages, NEW b \in Pages, n.s <= a, a <= b, b <= n.l, NEW attr \in Attrs,
         NEW m, m = NewRange(a, b, attr)
  PROVE  Piece(m, n)
<1>1. Fresh(m) /\ m.it_s = a /\ m.it_l = b
  BY NewIsFresh
<1>2. /\ Own(n) \in Living(n) /\ Own(n) \in Parts(n) /\ Own(n).s = n.s /\ Own(n).l = n.l
      /\ n.s \in Int /\ n.l \in Int /\ n.it_s \in Int /\ n.it_l \in Int /\ a \in Int /\ b \in Int
  BY RangeFields, PagesAre DEF Living
<1>3. n.it_s <= n.s /\ n.l <= n.it_l
  BY <1>2 DEF Shape, Divides
<1>4. ASSUME NEW y \in Living(m), NEW p \in Pages, In(p, y) PROVE In(p, Own(n))
  <2>1. a <= p /\ p <= b
    BY <1>1, <1>4, FreshPages
  <2> QED BY <1>2, <2>1, PagesAre DEF In
<1> QED BY <1>1, <1>2, <1>3, <1>4 DEF Piece, Fresh, Plain

LEMMA PieceSet ==
  ASSUME NEW n \in RangeRec, Shape(n), n.op # "unmap", NEW set \in Attrs,
         NEW m, m = [n EXCEPT !.attr = set]
  PROVE  Piece(m, n)
<1>1. /\ m \in RangeRec /\ m.it_s = n.it_s /\ m.it_l = n.it_l /\ m.s = n.s /\ m.l = n.l
      /\ m.op = n.op /\ m.kids = n.kids
  BY DEF RangeRec
<1> DEFINE X == Own(n)
           Y == Own(m)
<1>2. /\ Parts(n) = n.kids \cup {X} /\ X.s = n.s /\ X.l = n.l /\ X.op = n.op
      /\ Parts(m) = n.kids \cup {Y} /\ Y.s = n.s /\ Y.l = n.l /\ Y.op = n.op
      /\ n.kids \subseteq Kid /\ n.op # "add" /\ n.it_s \in Int /\ n.it_l \in Int
  BY <1>1, RangeFields
<1>3. X \notin n.kids /\ Divides(Parts(n), n.it_s, n.it_l)
  BY DEF Shape
<1>6. Y = Own(m) /\ X = Own(n)
  OBVIOUS
<1> HIDE DEF X, Y
<1>4. Y \notin n.kids
  BY <1>2, KidFields
<1>5. Divides(Parts(m), n.it_s, n.it_l)
  BY <1>2, <1>3 DEF Divides, In
<1>7. Shape(m)
  BY <1>1, <1>4, <1>5, <1>6 DEF Shape
<1>8. \A y \in Living(m) : \A p \in Pages : In(p, y) => \E x \in Living(n) : In(p, x)
  BY <1>2 DEF Living, In
<1> QED BY <1>1, <1>2, <1>7, <1>8 DEF Piece

\* The parts of a range that svm_range_handle_overlap leaves, also if it is torn.
LEMMA Pieces ==
  ASSUME NEW n \in RangeRec, Shape(n), n.op # "unmap", NEW s \in Pages, NEW l \in Pages, s <= l,
         Splittable(n, s, l), NEW k \in AttrKinds, NEW v \in {0, 1}
  PROVE  /\ \A m \in Overlapped(n, s, l, k, v) : Piece(m, n)
         /\ \A g, h \in Overlapped(n, s, l, k, v) : g = h \/ Apart(g, h)
<1> DEFINE set == IF SameAttrs(n.attr, k, v) THEN n.attr ELSE Apply(n.attr, k, v)
           a == Larger(n.s, s)
           b == Smaller(n.l, l)
           m == NewRange(a, b, set)
           H == NewRange(n.s, s - 1, n.attr)
           T == NewRange(l + 1, n.l, n.attr)
           G == Overlapped(n, s, l, k, v)
<1>1. /\ n.s \in Pages /\ n.l \in Pages /\ n.s \in Int /\ n.l \in Int /\ s \in Int /\ l \in Int
      /\ n.attr \in Attrs
  BY RangeFields, PagesAre
<1>6. /\ s > n.s => s <= n.l + 1
      /\ l < n.l => n.s <= l + 1
  <2>1. Own(n) \in Parts(n) /\ Own(n).s = n.s /\ Own(n).l = n.l /\ n.it_s \in Int /\ n.it_l \in Int
    BY RangeFields
  <2>2. n.it_s <= n.s /\ n.l <= n.it_l
    BY <2>1 DEF Shape, Divides
  <2> QED BY <1>1, <2>1, <2>2 DEF Splittable
<1>2. set \in Attrs
  BY <1>1, AttrSet
<1>3. /\ a \in Int /\ b \in Int /\ a \in Pages /\ b \in Pages /\ n.s <= a /\ s <= a /\ b <= n.l /\ b <= l
  BY <1>1 DEF Larger, Smaller
<1>4. CASE s <= n.it_s /\ n.it_l <= l
  <2>1. G = {[n EXCEPT !.attr = set]}
    BY <1>4 DEF Overlapped
  <2> HIDE DEF set, G
  <2> QED BY <1>2, <2>1, PieceSet DEF G
<1>5. CASE ~(s <= n.it_s /\ n.it_l <= l)
  <2>1. G = {g \in {m, H, T} : g.s <= g.l}
    BY <1>5 DEF Overlapped
  <2>2. /\ m.s = a /\ m.l = b /\ m.it_s = a /\ m.it_l = b
        /\ H.s = n.s /\ H.l = s - 1 /\ H.it_s = n.s /\ H.it_l = s - 1
        /\ T.s = l + 1 /\ T.l = n.l /\ T.it_s = l + 1 /\ T.it_l = n.l
    BY DEF NewRange
  <2>3. m = NewRange(a, b, set) /\ H = NewRange(n.s, s - 1, n.attr) /\ T = NewRange(l + 1, n.l, n.attr)
        /\ G = Overlapped(n, s, l, k, v)
    OBVIOUS
  <2> HIDE DEF set, a, b, m, H, T, G
  <2>4. m \in G => Piece(m, n)
    BY <1>2, <1>3, <2>1, <2>2, <2>3, PieceNew
  <2>5. H \in G => Piece(H, n)
    <3> SUFFICES ASSUME H \in G PROVE Piece(H, n)
      OBVIOUS
    <3> DEFINE c == n.s
               d == s - 1
               attr == n.attr
    <3>1. c <= d /\ d <= n.l
      BY <1>1, <1>6, <2>1, <2>2
    <3>2. c \in Pages /\ d \in Pages /\ n.s <= c /\ attr \in Attrs /\ H = NewRange(c, d, attr)
      BY <1>1, <2>3, <3>1, PagesAre
    <3> HIDE DEF c, d, attr
    <3> QED BY <3>1, <3>2, PieceNew
  <2>6. T \in G => Piece(T, n)
    <3> SUFFICES ASSUME T \in G PROVE Piece(T, n)
      OBVIOUS
    <3> DEFINE c == l + 1
               d == n.l
               attr == n.attr
    <3>1. n.s <= c /\ c <= d
      BY <1>1, <1>6, <2>1, <2>2
    <3>2. c \in Pages /\ d \in Pages /\ d <= n.l /\ attr \in Attrs /\ T = NewRange(c, d, attr)
      BY <1>1, <2>3, <3>1, PagesAre
    <3> HIDE DEF c, d, attr
    <3> QED BY <3>1, <3>2, PieceNew
  <2>7. Apart(m, H) /\ Apart(H, m) /\ Apart(m, T) /\ Apart(T, m) /\ Apart(H, T) /\ Apart(T, H)
    BY <1>1, <1>3, <2>2 DEF Apart
  <2> QED BY <2>1, <2>3, <2>4, <2>5, <2>6, <2>7
<1> QED BY <1>4, <1>5

\* What takes the place of a range n when the pages s .. l get an attribute.
Replaces(G, n, s, l, set) ==
  /\ \A g \in G : /\ Fresh(g) /\ n.it_s <= g.it_s /\ g.it_l <= n.it_l
                  /\ \/ s <= g.it_s /\ g.it_l <= l /\ g.attr = set
                     \/ (g.it_l < s \/ l < g.it_s) /\ g.attr = n.attr
  /\ \A g, h \in G : g = h \/ Apart(g, h)
  /\ \A p \in Pages : n.it_s <= p /\ p <= n.it_l => \E g \in G : g.it_s <= p /\ p <= g.it_l

\* A range m in the middle of n, and H and T before and behind it if n goes that far.
LEMMA ReplacedAround ==
  ASSUME NEW n \in RangeRec, NEW s \in Pages, NEW l \in Pages, s <= l,
         NEW set, NEW a \in Pages, NEW b \in Pages, a <= b,
         a = IF n.it_s < s THEN s ELSE n.it_s, b = IF n.it_l > l THEN l ELSE n.it_l,
         NEW m, Fresh(m), m.it_s = a, m.it_l = b, m.attr = set,
         NEW H, n.it_s < s => Fresh(H) /\ H.it_s = n.it_s /\ H.it_l = s - 1 /\ H.attr = n.attr,
         NEW T, n.it_l > l => Fresh(T) /\ T.it_s = l + 1 /\ T.it_l = n.it_l /\ T.attr = n.attr
  PROVE  Replaces({m} \cup (IF n.it_s < s THEN {H} ELSE {}) \cup (IF n.it_l > l THEN {T} ELSE {}),
                  n, s, l, set)
<1> DEFINE G == {m} \cup (IF n.it_s < s THEN {H} ELSE {}) \cup (IF n.it_l > l THEN {T} ELSE {})
<1>1. n.it_s \in Int /\ n.it_l \in Int /\ s \in Int /\ l \in Int /\ a \in Int /\ b \in Int
  BY RangeFields, PagesAre
<1>2. CASE n.it_s < s /\ n.it_l > l
  <2>1. G = {m, H, T}
    BY <1>2
  <2> HIDE DEF G
  <2> QED BY <1>1, <1>2, <2>1, PagesAre DEF Replaces, Apart, G
<1>3. CASE n.it_s < s /\ ~(n.it_l > l)
  <2>1. G = {m, H}
    BY <1>3
  <2> HIDE DEF G
  <2> QED BY <1>1, <1>3, <2>1, PagesAre DEF Replaces, Apart, G
<1>4. CASE ~(n.it_s < s) /\ n.it_l > l
  <2>1. G = {m, T}
    BY <1>4
  <2> HIDE DEF G
  <2> QED BY <1>1, <1>4, <2>1, PagesAre DEF Replaces, Apart, G
<1>5. CASE ~(n.it_s < s) /\ ~(n.it_l > l)
  <2>1. G = {m}
    BY <1>5
  <2> HIDE DEF G
  <2> QED BY <1>1, <1>5, <2>1, PagesAre DEF Replaces, Apart, G
<1> QED BY <1>2, <1>3, <1>4, <1>5

LEMMA OverlappedAre ==
  ASSUME NEW n, Fresh(n), NEW s \in Pages, NEW l \in Pages, s <= l, Overlap(n, s, l),
         NEW k \in AttrKinds, NEW v \in {0, 1}
  PROVE  \E set \in Attrs : /\ set.cmp = Apply(n.attr, k, v).cmp
                            /\ Replaces(Overlapped(n, s, l, k, v), n, s, l, set)
<1> DEFINE set == IF SameAttrs(n.attr, k, v) THEN n.attr ELSE Apply(n.attr, k, v)
           a == Larger(n.s, s)
           b == Smaller(n.l, l)
           m == NewRange(a, b, set)
           M == [n EXCEPT !.attr = set]
           H == NewRange(n.s, s - 1, n.attr)
           T == NewRange(l + 1, n.l, n.attr)
           G == Overlapped(n, s, l, k, v)
<1>1. n \in RangeRec /\ n.s = n.it_s /\ n.l = n.it_l /\ Shape(n) /\ n.op = "none"
  BY DEF Fresh, Plain
<1>2. /\ n.it_s \in Pages /\ n.it_l \in Pages /\ n.it_s \in Int /\ n.it_l \in Int
      /\ s \in Int /\ l \in Int /\ n.attr \in Attrs /\ n.it_s <= l /\ s <= n.it_l /\ n.it_s <= n.it_l
  BY <1>1, RangeFields, PagesAre, Inside DEF Overlap
<1>3. set \in Attrs /\ set.cmp = Apply(n.attr, k, v).cmp
  BY <1>2, AttrSet
<1>4. CASE s <= n.it_s /\ n.it_l <= l
  <2>1. G = {M}
    BY <1>4 DEF Overlapped
  <2>2. M = [n EXCEPT !.attr = set]
    OBVIOUS
  <2> HIDE DEF set, M, G
  <2>3. Shape(M)
    BY <1>1, <1>3, <2>2, PieceSet DEF Piece
  <2>4. /\ M \in RangeRec /\ M.it_s = n.it_s /\ M.it_l = n.it_l /\ M.attr = set /\ Plain(M)
    <3>1. M \in RangeRec /\ M.it_s = n.it_s /\ M.it_l = n.it_l /\ M.attr = set
          /\ M.s = n.s /\ M.l = n.l /\ M.op = n.op /\ M.kids = n.kids
      BY <1>1, <1>3, <2>2 DEF RangeRec
    <3> QED BY <3>1 DEF Plain, Fresh
  <2>5. Fresh(M)
    BY <2>3, <2>4 DEF Fresh
  <2>6. Replaces(G, n, s, l, set)
    BY <1>2, <1>4, <2>1, <2>4, <2>5, PagesAre DEF Replaces
  <2> QED BY <1>3, <2>6 DEF G
<1>5. CASE ~(s <= n.it_s /\ n.it_l <= l)
  <2>1. /\ a = IF n.it_s < s THEN s ELSE n.it_s
        /\ b = IF n.it_l > l THEN l ELSE n.it_l
    BY <1>1, <1>2 DEF Larger, Smaller
  <2>2. G = {g \in {m, H, T} : g.s <= g.l}
    BY <1>5 DEF Overlapped
  <2>3. /\ m = NewRange(a, b, set) /\ H = NewRange(n.s, s - 1, n.attr) /\ T = NewRange(l + 1, n.l, n.attr)
        /\ G = Overlapped(n, s, l, k, v)
    OBVIOUS
  <2>4. m.s = a /\ m.l = b /\ H.s = n.s /\ H.l = s - 1 /\ T.s = l + 1 /\ T.l = n.l
    BY DEF NewRange
  <2> HIDE DEF set, a, b, m, H, T, G
  <2>5. a \in Pages /\ b \in Pages /\ a <= b
    BY <1>2, <2>1
  <2>6. G = {m} \cup (IF n.it_s < s THEN {H} ELSE {}) \cup (IF n.it_l > l THEN {T} ELSE {})
    BY <1>1, <1>2, <2>2, <2>4, <2>5
  <2>7. Fresh(m) /\ m.it_s = a /\ m.it_l = b /\ m.attr = set
    BY <1>3, <2>3, <2>5, NewIsFresh
  <2>8. ASSUME n.it_s < s
        PROVE  Fresh(H) /\ H.it_s = n.it_s /\ H.it_l = s - 1 /\ H.attr = n.attr
    <3> DEFINE c == n.it_s
               d == s - 1
               attr == n.attr
    <3>1. c \in Pages /\ d \in Pages /\ c <= d /\ attr \in Attrs /\ H = NewRange(c, d, attr)
      BY <1>1, <1>2, <2>3, <2>8, PagesAre
    <3> HIDE DEF c, d, attr
    <3>2. Fresh(H) /\ H.it_s = c /\ H.it_l = d /\ H.attr = attr
      BY <3>1, NewIsFresh
    <3> QED BY <3>2 DEF c, d, attr
  <2>9. ASSUME n.it_l > l
        PROVE  Fresh(T) /\ T.it_s = l + 1 /\ T.it_l = n.it_l /\ T.attr = n.attr
    <3> DEFINE c == l + 1
               d == n.it_l
               attr == n.attr
    <3>1. c \in Pages /\ d \in Pages /\ c <= d /\ attr \in Attrs /\ T = NewRange(c, d, attr)
      BY <1>1, <1>2, <2>3, <2>9, PagesAre
    <3> HIDE DEF c, d, attr
    <3>2. Fresh(T) /\ T.it_s = c /\ T.it_l = d /\ T.attr = attr
      BY <3>1, NewIsFresh
    <3> QED BY <3>2 DEF c, d, attr
  <2>10. Replaces({m} \cup (IF n.it_s < s THEN {H} ELSE {}) \cup (IF n.it_l > l THEN {T} ELSE {}),
                  n, s, l, set)
    BY <1>1, <2>1, <2>5, <2>7, <2>8, <2>9, ReplacedAround
  <2> QED BY <1>3, <2>3, <2>6, <2>10
<1> QED BY <1>4, <1>5

\* The ranges found leave gaps, which fill s .. l together with them.
LEMMA GapsAre ==
  ASSUME NEW s \in Nat, NEW l \in Nat, NEW found,
         \A n \in found : n.it_s \in Int /\ n.it_l \in Int /\ n.it_s <= n.it_l
  PROVE  /\ \A g \in Gaps(found, s, l) :
               /\ g.s \in s .. l /\ g.l \in s .. l /\ g.s <= g.l
               /\ \A n \in found : n.it_l < g.s \/ g.l < n.it_s
         /\ \A g, h \in Gaps(found, s, l) : g = h \/ g.l < h.s \/ h.l < g.s
         /\ \A p \in s .. l : \/ \E n \in found : n.it_s <= p /\ p <= n.it_l
                              \/ \E g \in Gaps(found, s, l) : g.s <= p /\ p <= g.l
<1> DEFINE Gs == Gaps(found, s, l)
<1>1. ASSUME NEW g \in Gs
      PROVE  /\ g \in [s : s .. l, l : s .. l] /\ g.s \in s .. l /\ g.l \in s .. l /\ g.s <= g.l
             /\ g.s = s \/ \E n \in found : g.s = n.it_l + 1
             /\ g.l = l \/ \E n \in found : g.l = n.it_s - 1
             /\ \A n \in found : n.it_l < g.s \/ g.l < n.it_s
  BY DEF Gaps
<1>2. ASSUME NEW g \in Gs, NEW h \in Gs, ~(g.l < h.s \/ h.l < g.s) PROVE g.s = h.s
  <2>1. ASSUME NEW x \in Gs, NEW y \in Gs, x.s < y.s, y.s <= x.l PROVE FALSE
    <3>1. PICK n \in found : y.s = n.it_l + 1
      BY <1>1, <2>1
    <3> QED BY <1>1, <2>1, <3>1
  <2>2. ~(g.s < h.s) /\ ~(h.s < g.s)
    BY <1>1, <1>2, <2>1
  <2> QED BY <1>1, <2>2
<1>3. ASSUME NEW g \in Gs, NEW h \in Gs, ~(g.l < h.s \/ h.l < g.s) PROVE g.l = h.l
  <2>1. ASSUME NEW x \in Gs, NEW y \in Gs, y.l < x.l, x.s <= y.l PROVE FALSE
    <3>1. PICK n \in found : y.l = n.it_s - 1
      BY <1>1, <2>1
    <3> QED BY <1>1, <2>1, <3>1
  <2>2. ~(g.l < h.l) /\ ~(h.l < g.l)
    BY <1>1, <1>3, <2>1
  <2> QED BY <1>1, <2>2
<1>4. ASSUME NEW g \in Gs, NEW h \in Gs PROVE g = h \/ g.l < h.s \/ h.l < g.s
  <2>1. g.s = h.s /\ g.l = h.l => g = h
    BY <1>1
  <2> QED BY <1>2, <1>3, <2>1
<1>5. ASSUME NEW p \in s .. l, ~\E n \in found : n.it_s <= p /\ p <= n.it_l
      PROVE  \E g \in Gs : g.s <= p /\ p <= g.l
  <2> DEFINE A == {q \in s .. p : \A n \in found : n.it_l < q \/ p < n.it_s}
             B == {e \in 0 .. (l - p) : \A n \in found : n.it_l < p \/ l - e < n.it_s}
  <2>1. p \in Nat /\ s <= p /\ p <= l
    OBVIOUS
  <2>2. \A n \in found : n.it_l < p \/ p < n.it_s
    BY <1>5, <2>1
  <2>3. A \in SUBSET Nat /\ p \in A
    BY <2>1, <2>2
  <2>4. PICK a \in A : \A q \in A : a <= q
    <3> HIDE DEF A
    <3> QED BY <2>3, Least
  <2>5. B \in SUBSET Nat /\ l - p \in B
    BY <2>1, <2>2
  <2>6. PICK e \in B : \A q \in B : e <= q
    <3> HIDE DEF B
    <3> QED BY <2>5, Least
  <2>7. /\ a \in Int /\ s <= a /\ a <= p /\ a \in s .. l
        /\ \A n \in found : n.it_l < a \/ p < n.it_s
    BY <2>1
  <2> DEFINE b == l - e
  <2>8. /\ b \in Int /\ p <= b /\ b <= l /\ b \in s .. l
        /\ \A n \in found : n.it_l < p \/ b < n.it_s
    BY <2>1
  <2>9. a = s \/ \E n \in found : a = n.it_l + 1
    <3> SUFFICES ASSUME a # s PROVE \E n \in found : a = n.it_l + 1
      OBVIOUS
    <3>1. a - 1 \in s .. p /\ a - 1 \notin A
      BY <2>1, <2>3, <2>4, <2>7
    <3>2. PICK n \in found : ~(n.it_l < a - 1 \/ p < n.it_s)
      BY <3>1
    <3> QED BY <2>1, <2>7, <3>2
  <2>10. b = l \/ \E n \in found : b = n.it_s - 1
    <3> SUFFICES ASSUME b # l PROVE \E n \in found : b = n.it_s - 1
      OBVIOUS
    <3>1. e \in Int /\ e - 1 \in 0 .. (l - p) /\ e - 1 \notin B
      BY <2>1, <2>5, <2>6
    <3>2. PICK n \in found : ~(n.it_l < p \/ l - (e - 1) < n.it_s)
      BY <3>1
    <3> QED BY <2>1, <2>8, <3>1, <3>2
  <2> HIDE DEF A, B, b
  <2>11. \A n \in found : n.it_l < a \/ b < n.it_s
    BY <2>1, <2>7, <2>8
  <2> DEFINE g == [s |-> a, l |-> b]
  <2>12. g \in [s : s .. l, l : s .. l] /\ g.s = a /\ g.l = b
    BY <2>7, <2>8
  <2> HIDE DEF g
  <2>13. g \in Gs
    BY <2>1, <2>7, <2>8, <2>9, <2>10, <2>11, <2>12 DEF Gaps
  <2> QED BY <2>7, <2>8, <2>12, <2>13
<1> QED BY <1>1, <1>4, <1>5

\* What is found in s .. l and what takes its place.
LEMMA SetIs ==
  ASSUME IInv, NEW s \in Pages, NEW l \in Pages, NEW k \in AttrKinds, NEW v \in {0, 1},
         set_attr(s, l, k, v), NEW found, found = Found(s, l), NEW Gs, Gs = Gaps(found, s, l)
  PROVE  /\ found \subseteq tree /\ \A n \in tree : n \in found <=> n.it_s <= l /\ s <= n.it_l
         /\ tree' = (tree \ found) \cup Replacing(s, l, k, v)
         /\ \A m \in Replacing(s, l, k, v) :
              \/ \E n \in found : m \in Overlapped(n, s, l, k, v)
              \/ \E g \in Gs : m = NewRange(g.s, g.l, Apply(Default, k, v))
         /\ \A n \in found : Overlapped(n, s, l, k, v) \subseteq Replacing(s, l, k, v)
         /\ \A g \in Gs : NewRange(g.s, g.l, Apply(Default, k, v)) \in Replacing(s, l, k, v)
         /\ \A g \in Gs : /\ g.s \in s .. l /\ g.l \in s .. l /\ g.s <= g.l
                          /\ \A n \in found : n.it_l < g.s \/ g.l < n.it_s
         /\ \A g, h \in Gs : g = h \/ g.l < h.s \/ h.l < g.s
         /\ \A p \in s .. l : \/ \E n \in found : n.it_s <= p /\ p <= n.it_l
                              \/ \E g \in Gs : g.s <= p /\ p <= g.l
         /\ \A g \in Gs : LET m == NewRange(g.s, g.l, Apply(Default, k, v))
                          IN Fresh(m) /\ m.it_s = g.s /\ m.it_l = g.l /\ m.attr = Apply(Default, k, v)
<1>1. Tree /\ Deferred
  BY DEF IInv
<1>2. found \subseteq tree /\ \A n \in tree : n \in found <=> n.it_s <= l /\ s <= n.it_l
  BY DEF Found, Overlap
<1>3. tree' = (tree \ found) \cup Replacing(s, l, k, v)
  BY DEF set_attr, RangeAdd
<1>4. /\ \A m \in Replacing(s, l, k, v) :
              \/ \E n \in found : m \in Overlapped(n, s, l, k, v)
              \/ \E g \in Gs : m = NewRange(g.s, g.l, Apply(Default, k, v))
      /\ \A n \in found : Overlapped(n, s, l, k, v) \subseteq Replacing(s, l, k, v)
      /\ \A g \in Gs : NewRange(g.s, g.l, Apply(Default, k, v)) \in Replacing(s, l, k, v)
  BY DEF Replacing
<1>5. \A n \in found : n.it_s \in Int /\ n.it_l \in Int /\ n.it_s <= n.it_l
  BY <1>1, <1>2, TreeRange, RangeFields, Inside
<1>6. s \in Nat /\ l \in Nat
  BY PagesAre
<1>7. /\ \A g \in Gs : /\ g.s \in s .. l /\ g.l \in s .. l /\ g.s <= g.l
                       /\ \A n \in found : n.it_l < g.s \/ g.l < n.it_s
      /\ \A g, h \in Gs : g = h \/ g.l < h.s \/ h.l < g.s
      /\ \A p \in s .. l : \/ \E n \in found : n.it_s <= p /\ p <= n.it_l
                           \/ \E g \in Gs : g.s <= p /\ p <= g.l
  BY <1>5, <1>6, GapsAre
<1>8. ASSUME NEW g \in Gs, NEW m, m = NewRange(g.s, g.l, Apply(Default, k, v))
      PROVE  Fresh(m) /\ m.it_s = g.s /\ m.it_l = g.l /\ m.attr = Apply(Default, k, v)
  <2> DEFINE c == g.s
             d == g.l
             attr == Apply(Default, k, v)
  <2>1. c \in Pages /\ d \in Pages /\ c <= d /\ attr \in Attrs /\ m = NewRange(c, d, attr)
    BY <1>7, <1>8, Between, DefaultIs, AttrSet
  <2> HIDE DEF c, d, attr
  <2>2. Fresh(m) /\ m.it_s = c /\ m.it_l = d /\ m.attr = attr
    BY <2>1, NewIsFresh
  <2> QED BY <2>2 DEF c, d, attr
<1> QED BY <1>2, <1>3, <1>4, <1>7, <1>8

\* The tree after that, also if a range was torn.
LEMMA SetTree ==
  ASSUME IInv, NEW s \in Pages, NEW l \in Pages, NEW k \in AttrKinds, NEW v \in {0, 1},
         set_attr(s, l, k, v)
  PROVE  /\ Tree' /\ \A m \in tree' : m.op # "unmap"
         /\ \A m \in tree' : \A y \in Living(m) : \A p \in Pages : In(p, y) => p \in mapped
<1> DEFINE found == Found(s, l)
           Gs == Gaps(found, s, l)
           O(n) == Overlapped(n, s, l, k, v)
           N(g) == NewRange(g.s, g.l, Apply(Default, k, v))
           G == Replacing(s, l, k, v)
<1>1. Tree /\ Deferred /\ Contents
  BY DEF IInv
<1>2. /\ s <= l /\ s .. l \subseteq mapped /\ list = <<>>
      /\ \A n \in found : Splittable(n, s, l)
  BY DEF set_attr, Flushed
<1>3. /\ found \subseteq tree /\ \A n \in tree : n \in found <=> n.it_s <= l /\ s <= n.it_l
      /\ tree' = (tree \ found) \cup G
      /\ \A m \in G : (\E n \in found : m \in O(n)) \/ (\E g \in Gs : m = N(g))
      /\ \A g \in Gs : /\ g.s \in s .. l /\ g.l \in s .. l /\ g.s <= g.l
                       /\ \A n \in found : n.it_l < g.s \/ g.l < n.it_s
      /\ \A g, h \in Gs : g = h \/ g.l < h.s \/ h.l < g.s
      /\ \A g \in Gs : Fresh(N(g)) /\ N(g).it_s = g.s /\ N(g).it_l = g.l
  BY SetIs
<1>4. ASSUME NEW n \in tree
      PROVE  /\ n \in RangeRec /\ Shape(n) /\ n.op # "unmap"
             /\ n.it_s \in Int /\ n.it_l \in Int /\ n.it_s <= n.it_l
  <2>1. ToSet(list) = {}
    BY <1>2 DEF ToSet
  <2>2. n.op # "unmap"
    BY <1>1, <2>1 DEF Deferred, Listed
  <2> QED BY <1>1, <2>2, TreeRange, RangeFields, Inside
<1>5. ASSUME NEW n \in found
      PROVE  /\ \A m \in O(n) : Piece(m, n)
             /\ \A g, h \in O(n) : g = h \/ Apart(g, h)
  BY <1>2, <1>3, <1>4, Pieces
<1> HIDE DEF found, Gs, O, N, G
<1>6. ASSUME NEW m \in G
      PROVE  /\ m \in RangeRec /\ Shape(m) /\ m.op # "unmap"
             /\ m.it_s \in Int /\ m.it_l \in Int /\ m.it_s <= m.it_l
  <2>1. m \in RangeRec /\ Shape(m) /\ m.op # "unmap"
    BY <1>3, <1>5 DEF Piece, Fresh, Plain
  <2> QED BY <2>1, RangeFields, Inside
<1>7. s \in Int /\ l \in Int /\ \A p : p \in s .. l <=> p \in Pages /\ s <= p /\ p <= l
  BY PagesAre, Between
<1>8. ASSUME NEW n \in found, NEW m \in O(n) PROVE n.it_s <= m.it_s /\ m.it_l <= n.it_l
  BY <1>5 DEF Piece
<1>9. ASSUME NEW m \in G, NEW h \in G PROVE m = h \/ Apart(m, h)
  <2>1. ASSUME NEW a \in found, m \in O(a), NEW b \in found, h \in O(b) PROVE m = h \/ Apart(m, h)
    <3>1. CASE a = b
      BY <1>5, <2>1, <3>1
    <3>2. CASE a # b
      <4>1. a.it_l < b.it_s \/ b.it_l < a.it_s
        BY <1>1, <1>3, <3>2 DEF Tree
      <4>2. a.it_s \in Int /\ a.it_l \in Int /\ b.it_s \in Int /\ b.it_l \in Int
        BY <1>3, <1>4
      <4> QED BY <1>6, <1>8, <2>1, <4>1, <4>2 DEF Apart
    <3> QED BY <3>1, <3>2
  <2>2. ASSUME NEW u \in G, NEW w \in G, NEW a \in found, u \in O(a), NEW g \in Gs, w = N(g)
        PROVE  Apart(u, w) /\ Apart(w, u)
    <3>1. a.it_l < w.it_s \/ w.it_l < a.it_s
      BY <1>3, <2>2
    <3>2. a.it_s \in Int /\ a.it_l \in Int
      BY <1>3, <1>4
    <3> QED BY <1>6, <1>8, <2>2, <3>1, <3>2 DEF Apart
  <2>3. ASSUME NEW a \in Gs, m = N(a), NEW b \in Gs, h = N(b) PROVE m = h \/ Apart(m, h)
    BY <1>3, <2>3 DEF Apart
  <2> QED BY <1>3, <2>1, <2>2, <2>3
<1>10. ASSUME NEW m \in G, NEW n \in tree \ found PROVE Apart(m, n)
  <2>1. n.it_s \in Int /\ n.it_l \in Int /\ (l < n.it_s \/ n.it_l < s)
    BY <1>3, <1>4, <1>7
  <2>2. ASSUME NEW a \in found, m \in O(a) PROVE Apart(m, n)
    <3>1. a.it_s \in Int /\ a.it_l \in Int /\ (a.it_l < n.it_s \/ n.it_l < a.it_s)
      BY <1>1, <1>3, <1>4 DEF Tree
    <3> QED BY <1>6, <1>8, <2>1, <2>2, <3>1 DEF Apart
  <2>3. ASSUME NEW g \in Gs, m = N(g) PROVE Apart(m, n)
    <3>1. m.it_s \in s .. l /\ m.it_l \in s .. l
      BY <1>3, <2>3
    <3> QED BY <1>6, <1>7, <2>1, <3>1 DEF Apart
  <2> QED BY <1>3, <2>2, <2>3
<1>11. Tree'
  BY <1>1, <1>3, <1>6, <1>9, <1>10, ReplaceTree
<1>12. \A m \in tree' : m.op # "unmap"
  BY <1>3, <1>4, <1>6
<1>13. ASSUME NEW m \in tree', NEW y \in Living(m), NEW p \in Pages, In(p, y) PROVE p \in mapped
  <2>1. ASSUME NEW n \in tree, NEW x \in Living(n), In(p, x) PROVE p \in mapped
    BY <1>1, <2>1 DEF Contents, Sound
  <2>2. CASE m \in tree
    BY <1>13, <2>1, <2>2
  <2>3. ASSUME NEW n \in found, m \in O(n) PROVE p \in mapped
    BY <1>3, <1>5, <1>13, <2>1, <2>3 DEF Piece
  <2>4. ASSUME NEW g \in Gs, m = N(g) PROVE p \in mapped
    <3>1. m.it_s <= p /\ p <= m.it_l /\ m.it_s \in s .. l /\ m.it_l \in s .. l
      BY <1>3, <1>13, <2>4, FreshPages
    <3>2. p \in s .. l
      BY <1>7, <3>1, PagesAre
    <3> QED BY <1>2, <3>2
  <2> QED BY <1>3, <2>2, <2>3, <2>4
<1> QED BY <1>11, <1>12, <1>13

\* If no range was torn, attributes and pages are kept.
LEMMA SetContents ==
  ASSUME IInv, ~torn, NEW s \in Pages, NEW l \in Pages, NEW k \in AttrKinds, NEW v \in {0, 1},
         set_attr(s, l, k, v)
  PROVE  /\ \A m \in tree' : Plain(m)
         /\ Contents' /\ Kept'
<1> DEFINE I == s .. l
           found == Found(s, l)
           O(n) == Overlapped(n, s, l, k, v)
           Gs == Gaps(found, s, l)
           N(g) == NewRange(g.s, g.l, Apply(Default, k, v))
           G == Replacing(s, l, k, v)
<1>1. Types /\ Tree /\ Deferred /\ Contents /\ Kept
  BY DEF IInv
<1>2. /\ s <= l /\ I \subseteq mapped /\ list = <<>> /\ mapped' = mapped /\ gpu' = gpu /\ torn' = torn
      /\ want' = [p \in Pages |-> IF p \in I THEN Apply(want[p], k, v) ELSE want[p]]
  BY DEF set_attr, Flushed
<1>4. s \in Int /\ l \in Int /\ \A p : p \in I <=> p \in Pages /\ s <= p /\ p <= l
  BY PagesAre, Between
<1>5. ASSUME NEW n \in tree
      PROVE  /\ Fresh(n) /\ n \in RangeRec /\ n.it_s \in Int /\ n.it_l \in Int /\ n.it_s <= n.it_l
             /\ n.attr \in Attrs
  <2>1. ToSet(list) = {}
    BY <1>2 DEF ToSet
  <2>2. Plain(n)
    BY <1>1, <2>1 DEF Deferred, Listed
  <2>3. n \in RangeRec /\ Shape(n)
    BY <1>1, TreeRange
  <2> QED BY <2>2, <2>3, RangeFields, Inside DEF Fresh
<1>3. /\ found \subseteq tree /\ \A n \in tree : n \in found <=> n.it_s <= l /\ s <= n.it_l
      /\ tree' = (tree \ found) \cup G
      /\ \A m \in G : (\E n \in found : m \in O(n)) \/ (\E g \in Gs : m = N(g))
      /\ \A n \in found : O(n) \subseteq G
      /\ \A g \in Gs : N(g) \in G
      /\ \A g \in Gs : /\ g.s \in I /\ g.l \in I /\ g.s <= g.l
                       /\ \A n \in found : n.it_l < g.s \/ g.l < n.it_s
      /\ \A p \in I : \/ \E n \in found : n.it_s <= p /\ p <= n.it_l
                      \/ \E g \in Gs : g.s <= p /\ p <= g.l
      /\ \A g \in Gs : Fresh(N(g)) /\ N(g).it_s = g.s /\ N(g).it_l = g.l /\ N(g).attr = Apply(Default, k, v)
  BY SetIs
<1>7. ASSUME NEW n \in found
      PROVE  \E set \in Attrs : set.cmp = Apply(n.attr, k, v).cmp /\ Replaces(O(n), n, s, l, set)
  <2>1. Fresh(n) /\ Overlap(n, s, l)
    BY <1>3, <1>5 DEF Overlap
  <2> QED BY <1>2, <2>1, OverlappedAre
<1> HIDE DEF I, found, O, Gs, N, G
<1>11. ASSUME NEW n \in found, NEW u \in O(n) PROVE n.it_s <= u.it_s /\ u.it_l <= n.it_l /\ Fresh(u)
  BY <1>7 DEF Replaces
<1>12. \A m \in G : Fresh(m) /\ m.it_s \in Int /\ m.it_l \in Int /\ m.it_s <= m.it_l
  <2>1. \A m \in G : Fresh(m)
    BY <1>3, <1>11
  <2> QED BY <2>1, RangeFields, Inside DEF Fresh
<1>17. ASSUME NEW n \in tree, NEW p \in Pages, n.it_s <= p, p <= n.it_l
       PROVE  p \in mapped /\ n.attr.cmp = want[p].cmp
  <2>1. Own(n) \in Living(n) /\ In(p, Own(n)) /\ Own(n).attr = n.attr
    BY <1>5, <1>17, FreshPages
  <2> QED BY <1>1, <2>1 DEF Contents, Sound
<1>18. \A p \in Pages : want[p] \in Attrs
  BY <1>1 DEF Types
<1>19. ASSUME NEW m \in tree', NEW p \in Pages, m.it_s <= p, p <= m.it_l
       PROVE  p \in mapped /\ m.attr.cmp = want'[p].cmp
  <2>1. CASE m \in tree \ found
    <3>1. p \notin I
      BY <1>3, <1>4, <1>5, <1>19, <2>1, PagesAre
    <3> QED BY <1>2, <1>17, <1>19, <2>1, <3>1
  <2>2. CASE m \in G /\ \E n \in found : m \in O(n)
    <3>1. PICK n \in found : m \in O(n) /\ n.it_s <= m.it_s /\ m.it_l <= n.it_l
      BY <1>11, <2>2
    <3>2. PICK set \in Attrs : set.cmp = Apply(n.attr, k, v).cmp /\ Replaces(O(n), n, s, l, set)
      BY <1>7
    <3>3. n \in tree /\ n.it_s \in Int /\ n.it_l \in Int /\ m.it_s \in Int /\ m.it_l \in Int /\ p \in Int
      BY <1>3, <1>5, <1>12, <2>2, PagesAre
    <3>4. p \in mapped /\ n.attr.cmp = want[p].cmp
      BY <1>17, <1>19, <3>1, <3>3
    <3>5. CASE s <= m.it_s /\ m.it_l <= l /\ m.attr = set
      <4>1. want'[p] = Apply(want[p], k, v)
        BY <1>2, <1>4, <1>19, <3>3, <3>5
      <4>2. want[p] \in Attrs /\ n.attr \in Attrs
        BY <1>5, <1>18, <3>3
      <4>3. Apply(want[p], k, v).cmp = Apply(n.attr, k, v).cmp
        BY <3>4, <4>2, AttrSet
      <4> QED BY <3>2, <3>4, <3>5, <4>1, <4>3
    <3>6. CASE (m.it_l < s \/ l < m.it_s) /\ m.attr = n.attr
      <4>1. want'[p] = want[p]
        BY <1>2, <1>4, <1>19, <3>3, <3>6
      <4> QED BY <3>4, <3>6, <4>1
    <3> QED BY <3>1, <3>2, <3>5, <3>6 DEF Replaces
  <2>3. CASE \E g \in Gs : m = N(g)
    <3>1. PICK g \in Gs : m = N(g)
      BY <2>3
    <3>2. /\ g.s <= p /\ p <= g.l /\ m.attr = Apply(Default, k, v) /\ g.s \in I /\ g.l \in I
          /\ \A n \in found : n.it_l < g.s \/ g.l < n.it_s
      BY <1>3, <1>19, <3>1
    <3>3. p \in I /\ p \in Int /\ g.s \in Int /\ g.l \in Int
      BY <1>4, <3>2, PagesAre
    <3>4. \A n \in tree : ~(n.it_s <= p /\ p <= n.it_l)
      BY <1>3, <1>4, <1>5, <3>2, <3>3
    <3>5. ~InLiving(p)
      BY <1>5, <3>4, Inside DEF InLiving, Fresh
    <3>6. p \in mapped /\ want[p].cmp = Default.cmp
      BY <1>1, <1>2, <3>3, <3>5 DEF Kept
    <3>7. want'[p] = Apply(want[p], k, v)
      BY <1>2, <3>3
    <3>8. Apply(want[p], k, v).cmp = Apply(Default, k, v).cmp
      BY <1>18, <3>6, AttrSet, DefaultIs
    <3> QED BY <3>2, <3>6, <3>7, <3>8
  <2> QED BY <1>3, <2>1, <2>2, <2>3
<1>20. \A m \in tree' : Fresh(m)
  BY <1>3, <1>5, <1>12
<1>21. Contents'
  <2> SUFFICES ASSUME NEW m \in tree', NEW y \in Living(m), NEW p \in Pages, In(p, y)
               PROVE  p \in mapped /\ y.attr.cmp = want'[p].cmp
    BY <1>2 DEF Contents, Sound
  <2>1. y.attr = m.attr /\ m.it_s <= p /\ p <= m.it_l
    BY <1>20, FreshPages
  <2> QED BY <1>19, <2>1
<1>22. ASSUME NEW p \in Pages, InLiving(p) \/ p \in I PROVE InLiving(p)'
  <2>1. ASSUME NEW m \in tree', m.it_s <= p, p <= m.it_l PROVE InLiving(p)'
    <3>1. Own(m) \in Living(m) /\ In(p, Own(m))
      BY <1>20, <2>1, FreshPages
    <3> QED BY <3>1 DEF InLiving
  <2>2. ASSUME NEW n \in tree, n.it_s <= p, p <= n.it_l PROVE InLiving(p)'
    <3>1. CASE n \notin found
      BY <1>3, <2>1, <2>2, <3>1
    <3>2. CASE n \in found
      <4>1. \E m \in O(n) : m.it_s <= p /\ p <= m.it_l
        BY <1>7, <2>2, <3>2 DEF Replaces
      <4>2. O(n) \subseteq tree'
        BY <1>3, <3>2
      <4> QED BY <2>1, <4>1, <4>2
    <3> QED BY <3>1, <3>2
  <2>3. CASE InLiving(p)
    <3>1. PICK n \in tree : \E x \in Living(n) : In(p, x)
      BY <2>3 DEF InLiving
    <3>2. n.it_s <= p /\ p <= n.it_l
      BY <1>5, <3>1, Inside DEF Fresh
    <3> QED BY <2>2, <3>2
  <2>4. CASE p \in I
    <3>1. CASE \E n \in found : n.it_s <= p /\ p <= n.it_l
      BY <1>3, <2>2, <3>1
    <3>2. CASE \E g \in Gs : g.s <= p /\ p <= g.l
      <4>1. PICK g \in Gs : g.s <= p /\ p <= g.l
        BY <3>2
      <4>2. N(g) \in tree'
        BY <1>3
      <4> QED BY <1>3, <2>1, <4>1, <4>2
    <3> QED BY <1>3, <2>4, <3>1, <3>2
  <2> QED BY <1>22, <2>3, <2>4
<1>24. Kept'
  <2>1. \A p \in gpu' : InLiving(p)'
    BY <1>1, <1>2, <1>22 DEF Kept, Types
  <2>2. \A p \in mapped : want'[p].cmp # Default.cmp => InLiving(p)'
    BY <1>1, <1>2, <1>22 DEF Kept, Types
  <2>3. \A p \in Pages \ mapped : want'[p].cmp = Default.cmp
    BY <1>1, <1>2 DEF Kept
  <2> QED BY <1>2, <2>1, <2>2, <2>3 DEF Kept
<1>25. \A m \in tree' : Plain(m)
  BY <1>20 DEF Fresh
<1> QED BY <1>21, <1>24, <1>25

LEMMA SetStep ==
  ASSUME IInv, NEW s \in Pages, NEW l \in Pages, NEW k \in AttrKinds, NEW v \in {0, 1},
         set_attr(s, l, k, v)
  PROVE  IInv'
<1>1. Types /\ Tree /\ Deferred /\ Contents /\ Kept
  BY DEF IInv
<1>2. /\ list = <<>> /\ list' = list /\ mapped' = mapped /\ wk' = wk /\ gpu' = gpu /\ torn' = torn
      /\ got = {} /\ got' = got /\ todo' = Updated(s, l, k, v)
      /\ tree' = RangeAdd(s, l, k, v)
      /\ want' = [p \in Pages |-> IF p \in s .. l THEN Apply(want[p], k, v) ELSE want[p]]
  BY DEF set_attr, Flushed, Busy
<1>3. /\ Tree' /\ \A m \in tree' : m.op # "unmap"
      /\ \A m \in tree' : \A y \in Living(m) : \A p \in Pages : In(p, y) => p \in mapped
  BY SetTree
<1>4. ~torn => (\A m \in tree' : Plain(m)) /\ Contents' /\ Kept'
  BY SetContents
<1>5. Deferred'
  <2>1. ToSet(list) = {} /\ wk # "lock"
    BY <1>1, <1>2 DEF ToSet, Deferred
  <2> QED BY <1>1, <1>2, <1>3, <1>4, <2>1 DEF Deferred, Listed
<1>6. Contents' /\ Kept'
  <2>1. CASE torn
    BY <1>2, <1>3, <2>1 DEF Contents, Sound, Kept
  <2> QED BY <1>4, <2>1
<1>7. Mapping'
  <2> DEFINE X == {u \in Replacing(s, l, k, v) : s <= u.it_s /\ u.it_l <= l}
             Y == {Id(m) : m \in UNION {Overlapped(n, s, l, k, v) :
                                          n \in {f \in Found(s, l) : SameAttrs(f.attr, k, v)}}}
             A == {m \in X : Id(m) \notin Y}
  <2>1. todo' = {Id(m) : m \in X} \ Y
    BY <1>2 DEF Updated
  <2>2. X \subseteq tree'
    BY <1>2 DEF RangeAdd
  <2> HIDE DEF X, Y
  <2>3. A \in SUBSET tree' /\ (\A n \in A : n.op # "unmap") /\ todo' = {Id(n) : n \in A} /\ got' = {}
    BY <1>2, <1>3, <2>1, <2>2
  <2> HIDE DEF A
  <2> QED BY <1>3, <2>3, NewTodo
<1>8. Types'
  <2>1. want' \in [Pages -> Attrs]
    BY <1>1, <1>2, AttrSet DEF Types
  <2> QED BY <1>1, <1>2, <2>1 DEF Types
<1> QED BY <1>3, <1>5, <1>6, <1>7, <1>8 DEF IInv
-----------------------------------------------------------------------------
LEMMA InitIInv == RangesInit => IInv
<1> SUFFICES ASSUME RangesInit PROVE IInv
  OBVIOUS
<1>1. /\ tree = {} /\ list = <<>> /\ mapped = Pages /\ gpu = {} /\ todo = {} /\ got = {} /\ torn = FALSE
      /\ wk = "idle" /\ want = [p \in Pages |-> Default]
  BY DEF RangesInit
<1>2. ToSet(list) = {} /\ list \in Seq(Pages \X Pages) /\ IsInjective(list)
  BY <1>1 DEF ToSet, IsInjective
<1>3. Types
  BY <1>1, DefaultIs DEF Types
<1>4. Tree /\ Deferred
  BY <1>1, <1>2 DEF Tree, Deferred
<1>5. Contents /\ Kept /\ Mapping
  BY <1>1 DEF Contents, Kept, Mapping
<1> QED BY <1>3, <1>4, <1>5 DEF IInv

LEMMA StutterStep ==
  ASSUME IInv, UNCHANGED rvars
  PROVE  IInv'
BY DEF IInv, rvars, Types, Tree, Deferred, Listed, Contents, Sound, Kept, InLiving, Mapping

LEMMA NextIInv == IInv /\ [RangesNext]_rvars => IInv'
<1> SUFFICES ASSUME IInv, [RangesNext]_rvars PROVE IInv'
  OBVIOUS
<1>1. CASE UNCHANGED rvars
  BY <1>1, StutterStep
<1>2. ASSUME NEW s \in Pages, NEW l \in Pages, NEW k \in AttrKinds, NEW v \in {0, 1},
             set_attr(s, l, k, v)
      PROVE  IInv'
  BY <1>2, SetStep
<1>3. ASSUME NEW s \in Pages, NEW l \in Pages, munmap(s, l) \/ invalidate(s, l) \/ mmap(s, l)
      PROVE  IInv'
  BY <1>3, MunmapStep, InvalidateStep, MmapStep
<1>4. ASSUME NEW p \in Pages, cpu_fault(p) \/ cpu_fault_fails(p) \/ restore_pages(p) PROVE IInv'
  BY <1>4, FaultStep, FaultFailsStep, RestoreStep
<1>5. CASE get_pages \/ map_nothing \/ get_fails \/ map_pages
  BY <1>5, GetStep, MapStep
<1>6. CASE deferred_peek \/ deferred_handle
  BY <1>6, PeekStep, HandleStep
<1> QED BY <1>1, <1>2, <1>3, <1>4, <1>5, <1>6 DEF RangesNext

LEMMA IInvOneRange == IInv => OneRangePerPage
<1> SUFFICES ASSUME IInv PROVE OneRangePerPage
  OBVIOUS
<1>1. Types /\ Tree /\ Deferred
  BY DEF IInv
<1>2. RangesTypeOK
  <2>1. ASSUME NEW n \in tree
        PROVE  /\ {n.it_s, n.it_l, n.s, n.l} \subseteq Pages
               /\ n.s <= n.l /\ n.attr \in Attrs /\ n.op \in Ops
               /\ \A x \in n.kids : /\ {x.s, x.l} \subseteq Pages /\ x.s <= x.l
                                    /\ x.attr \in Attrs /\ x.op \in {"add", "unmap"}
    <3>1. /\ n \in RangeRec /\ Parts(n) = n.kids \cup {Own(n)} /\ n.kids \subseteq Kid
          /\ Own(n).s = n.s /\ Own(n).l = n.l
      BY <1>1, TreeRange, RangeFields
    <3>2. \A x \in Parts(n) : x.s <= x.l
      BY <1>1, TreeRange DEF Shape, Divides
    <3>3. n.s <= n.l /\ \A x \in n.kids : x.s <= x.l
      BY <3>1, <3>2
    <3>4. \A x \in n.kids : /\ {x.s, x.l} \subseteq Pages /\ x.attr \in Attrs /\ x.op \in {"add", "unmap"}
      BY <3>1, KidFields
    <3> QED BY <3>1, <3>3, <3>4, RangeFields DEF Ops
  <2>2. Cardinality(got) <= 1 /\ todo \cup {g.id : g \in got} \subseteq {Id(n) : n \in tree}
    <3>1. got = {} \/ \E g : got = {g}
      BY DEF IInv, Mapping
    <3>2. Cardinality(got) = 0 \/ Cardinality(got) = 1
      BY <3>1, FS_EmptySet, FS_Singleton
    <3>3. todo \cup {g.id : g \in got} \subseteq {Id(n) : n \in tree}
      BY DEF IInv, Mapping
    <3> QED BY <3>2, <3>3
  <2> QED BY <1>1, <2>1, <2>2 DEF RangesTypeOK, Types, Deferred
<1>3. ASSUME NEW p \in Pages PROVE Cardinality(At(p)) <= 1
  <2>1. \A m, n \in At(p) : m = n
    <3> SUFFICES ASSUME NEW m \in At(p), NEW n \in At(p) PROVE m = n
      OBVIOUS
    <3>1. m \in tree /\ n \in tree /\ m.it_s <= p /\ p <= m.it_l /\ n.it_s <= p /\ p <= n.it_l
      BY DEF At
    <3>2. m.it_s \in Int /\ m.it_l \in Int /\ n.it_s \in Int /\ n.it_l \in Int /\ p \in Int
      BY <1>1, <3>1, TreeRange, RangeFields, PagesAre
    <3>3. m = n \/ m.it_l < n.it_s \/ n.it_l < m.it_s
      BY <1>1, <3>1 DEF Tree
    <3> QED BY <3>1, <3>2, <3>3
  <2>2. CASE At(p) = {}
    BY <2>2, FS_EmptySet
  <2>3. CASE At(p) # {}
    <3>1. PICK n : At(p) = {n}
      BY <2>1, <2>3
    <3> QED BY <3>1, FS_Singleton
  <2> QED BY <2>2, <2>3
<1>4. ASSUME NEW p \in Pages, NEW n \in At(p) PROVE Cardinality({x \in Parts(n) : In(p, x)}) = 1
  <2>1. n \in tree /\ n.it_s <= p /\ p <= n.it_l
    BY DEF At
  <2>2. /\ n.it_s \in Int /\ n.it_l \in Int /\ p \in Int
        /\ Parts(n) \subseteq Part /\ Divides(Parts(n), n.it_s, n.it_l)
    BY <1>1, <2>1, TreeRange, RangeFields, PartsArePart, PagesAre DEF Shape
  <2>3. PICK x \in Parts(n) : In(p, x)
    BY <2>1, <2>2 DEF Divides
  <2>4. ASSUME NEW y \in Parts(n), In(p, y) PROVE y = x
    <3>1. /\ x.s \in Int /\ x.l \in Int /\ y.s \in Int /\ y.l \in Int
      BY <2>2, PartFields
    <3>2. x = y \/ x.l < y.s \/ y.l < x.s
      BY <2>2 DEF Divides
    <3> QED BY <2>2, <2>3, <2>4, <3>1, <3>2 DEF In
  <2>5. {y \in Parts(n) : In(p, y)} = {x}
    BY <2>3, <2>4
  <2> QED BY <2>5, FS_Singleton
<1> QED BY <1>2, <1>3, <1>4 DEF OneRangePerPage

LEMMA IInvContents == IInv => UnmappedIsGone /\ GpuMapsLiving /\ AttrsKept
<1> SUFFICES ASSUME IInv PROVE UnmappedIsGone /\ GpuMapsLiving /\ AttrsKept
  OBVIOUS
<1>1. Types /\ Tree /\ Deferred /\ Contents /\ Kept
  BY DEF IInv
<1>2. UnmappedIsGone
  BY <1>1 DEF UnmappedIsGone, InLiving, Contents, Sound
<1>3. GpuMapsLiving
  BY <1>1, <1>2 DEF UnmappedIsGone, GpuMapsLiving, Kept, Types
<1>4. ASSUME ~torn, NEW n \in tree, NEW x \in Living(n), NEW p \in x.s .. x.l
      PROVE  x.attr.cmp = want[p].cmp
  <2>1. x \in Part
    BY <1>1, TreeRange, PartsArePart DEF Living
  <2>2. x.s \in Pages /\ x.l \in Pages
    BY <2>1, PartFields
  <2>3. p \in Pages /\ In(p, x)
    BY <2>2, Between DEF In
  <2> QED BY <1>1, <1>4, <2>3 DEF Contents, Sound
<1>5. AttrsKept
  BY <1>1, <1>4 DEF AttrsKept, Kept
<1> QED BY <1>2, <1>3, <1>5
-----------------------------------------------------------------------------
\* The tree is made of disjoint ranges whose parts divide them, the list has the ranges that
\* wait for the worker, and living parts have pages of the CPU and their attributes, whatever
\* munmap, the ioctl, faults and the worker do in between.
THEOREM Invariance == RangesSpec => []IInv
<1>1. RangesInit => IInv
  BY InitIInv
<1>2. IInv /\ [RangesNext]_rvars => IInv'
  BY NextIInv
<1> QED BY <1>1, <1>2, PTL DEF RangesSpec

\* svm_range_unmap_split, svm_range_split_by_granularity, svm_range_add and the worker leave
\* every address with one range and one part of it.
THEOREM OneRange == RangesSpec => []OneRangePerPage
<1>1. IInv => OneRangePerPage
  BY IInvOneRange
<1> QED BY <1>1, Invariance, PTL

\* svm_range_unmap_from_cpu cuts what munmap has unmapped out of the range and of all its
\* children, so that the worker does not bring it back.
THEOREM UnmappedGone == RangesSpec => []UnmappedIsGone
<1>1. IInv => UnmappedIsGone
  BY IInvContents
<1> QED BY <1>1, Invariance, PTL

\* Until a failing split tears a range, the GPU never maps a page without a living range or one
\* that the CPU has unmapped, also when munmap comes between svm_range_validate_and_map's
\* look-up of the pages and their mapping.
THEOREM GpuLiving == RangesSpec => []GpuMapsLiving
<1>1. IInv => GpuMapsLiving
  BY IInvContents
<1> QED BY <1>1, Invariance, PTL

\* What svm_range_set_attr set last stays with a page through splits, clones and the worker,
\* until a failing split tears a range.
THEOREM AttributesKept == RangesSpec => []AttrsKept
<1>1. IInv => AttrsKept
  BY IInvContents
<1> QED BY <1>1, Invariance, PTL
=============================================================================
