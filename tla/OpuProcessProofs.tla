-------------------------- MODULE OpuProcessProofs --------------------------
(***************************************************************************)
(* Proofs about OpuProcess, for every number of address spaces, threads,   *)
(* lookups, PASIDs and files: the reference count of a process is the      *)
(* number of its holders, a process found inside an SRCU section is alive, *)
(* and no work that was queued in time outlives its process.  All under    *)
(* ~EarlyLookups, the assumption of the run: no lookup meets a failing     *)
(* registration.                                                           *)
(***************************************************************************)
EXTENDS OpuProcess, FiniteSetTheorems, TLAPS

\* Thread t opens the device with process p and has come to step c.
At(t, c, p) == opener[t].pc = c /\ opener[t].proc = p

\* Context u looks process p up and has come to step c.
Has(u, c, p) == user[u].pc = c /\ user[u].proc = p

\* A process being created is in the table; its creator has the mutex, so that no open
\* finds it, and nobody has it but lookups.
Made(t, p) ==
  st[p] = "hashed" /\ mmof[p] = Home[t] /\ mutex = {t} /\ p \notin notifier /\ files[p] = 0
Registering ==
  \A t \in Threads, p \in Procs : At(t, "register", p) => Made(t, p) /\ mm[Home[t]] = "live"

\* A thread that died keeps the mutex, so that the release of its mm comes to nothing.
Dying ==
  \A t \in Threads, p \in Procs :
    At(t, "bug", p) => Made(t, p) /\ mm[Home[t]] \in {"live", "unhash"}

\* An opener that has its reference has a process in the table.
Checking ==
  \A t \in Threads, p \in Procs : At(t, "check", p) =>
    st[p] = "hashed" /\ mmof[p] = Home[t] /\ mm[Home[t]] = "live" /\ p \in notifier

\* An opener whose initialization failed has a process out of the table with a notifier,
\* for itself.
Putting ==
  \A t \in Threads, p \in Procs : At(t, "put", p) =>
    /\ st[p] = "unhashed" /\ mmof[p] = Home[t] /\ mm[Home[t]] = "live" /\ p \in notifier
    /\ \A o \in Threads : At(o, "put", p) => o = t

\* A thread of m died in opu_open.
Stuck(m) == \E t \in Threads, p \in Procs : Home[t] = m /\ At(t, "bug", p)

\* A notifier is found a second time by a thread that dies of it.
ExtraIsStuck == \A p \in extra : Stuck(mmof[p])

\* What is in the table has a notifier or is being registered.
Kept(p) ==
  p \in notifier \/ \E t \in Threads : At(t, "register", p) \/ At(t, "bug", p)
HashedIsKept == \A p \in Procs : st[p] = "hashed" => Kept(p)

\* A notifier outlives the table only while its release, or the error path, is under way,
\* or because it was found a second time.
NotifierKept ==
  \A p \in notifier, m \in Mms : mmof[p] = m =>
    \/ st[p] = "hashed"
    \/ /\ st[p] = "unhashed"
       /\ \/ mm[m] \in {"sync", "evicted", "restored", "cancel"}
          \/ \E t \in Threads : At(t, "put", p)
          \/ Stuck(m)

\* A lookup has found a process in the table, or one whose grace period waits for it.
FoundIsAwaited ==
  \A u \in Users, p \in Procs, m \in Mms : Has(u, "found", p) /\ mmof[p] = m =>
    \/ st[p] = "hashed"
    \/ /\ st[p] = "unhashed" /\ p \in notifier
       /\ \/ mm[m] = "sync" /\ u \in readers[m]
          \/ \E t \in Threads : At(t, "put", p) /\ u \in waits[t]

\* A release that has come to step s is still to cancel the works of kind k.
ToCancel(s, k) ==
  s = "sync" \/ (s = "evicted" /\ k # "evict") \/ (s = "restored" /\ k = "svm")

\* A work queued in time has a process in the table, or one that is to cancel it.
WorkIsAwaited ==
  \A p \in Procs, k \in Kinds, m \in Mms : <<p, k>> \in work \ late /\ mmof[p] = m =>
    p \in notifier /\ (st[p] = "hashed" \/ (st[p] = "unhashed" /\ ToCancel(mm[m], k)))

\* Nobody has a process that was never made, or that was freed.
Unowned ==
  \A p \in Procs : st[p] \in {"none", "freed"} => files[p] = 0 /\ \A u \in Users : ~Has(u, "held", p)

Counted == \A p \in Procs : ref[p] = Holders(p)

IInv == /\ ProcessTypeOK /\ Registering /\ Dying /\ Checking /\ Putting /\ ExtraIsStuck
        /\ HashedIsKept /\ NotifierKept /\ FoundIsAwaited /\ WorkIsAwaited /\ Unowned
        /\ Counted
-----------------------------------------------------------------------------
(* What counts as a reference, term by term. *)
Checks(p) == {t \in Threads : At(t, "check", p)}
Helds(p) == {u \in Users : Has(u, "held", p)}
Terms(p) == Ones(Kept(p)) + files[p] + Cardinality(Checks(p)) + Cardinality(Helds(p))

\* The number of holders, by terms.
LEMMA HoldersByTerm ==
  ASSUME NEW p \in Procs PROVE Holders(p) = Terms(p) /\ Holders(p)' = Terms(p)'
BY DEF Holders, Terms, Kept, Checks, Helds, At, Has

LEMMA TermsNext ==
  ASSUME NEW p \in Procs
  PROVE  Terms(p)' = Ones(Kept(p)') + files'[p] + Cardinality(Checks(p)') + Cardinality(Helds(p)')
BY DEF Terms

\* The terms are numbers.
LEMMA TermTypes ==
  ASSUME NEW p \in Procs
  PROVE  /\ IsFiniteSet(Checks(p)) /\ IsFiniteSet(Helds(p))
         /\ Cardinality(Checks(p)) \in Nat /\ Cardinality(Helds(p)) \in Nat
         /\ Ones(Kept(p)) \in 0 .. 1
<1>1. IsFiniteSet(Checks(p)) /\ IsFiniteSet(Helds(p))
  <2>1. Checks(p) \subseteq Threads /\ Helds(p) \subseteq Users
    BY DEF Checks, Helds
  <2> QED BY <2>1, FS_Subset, ProcSetsAssumption
<1>2. Cardinality(Checks(p)) \in Nat /\ Cardinality(Helds(p)) \in Nat
  BY <1>1, FS_CardinalityType
<1>3. Ones(Kept(p)) \in 0 .. 1
  BY DEF Ones
<1> QED BY <1>1, <1>2, <1>3

\* The value of Ones is that of its argument.
LEMMA OnesOf ==
  ASSUME NEW a, NEW b, a <=> b PROVE Ones(a) = Ones(b)
BY DEF Ones

\* A new holder and one that lets go.
LEMMA OneMore ==
  ASSUME NEW S, IsFiniteSet(S), NEW x, x \notin S
  PROVE  Cardinality(S \cup {x}) = Cardinality(S) + 1
BY FS_AddElement

LEMMA OneLess ==
  ASSUME NEW S, IsFiniteSet(S), NEW x, x \in S
  PROVE  Cardinality(S \ {x}) = Cardinality(S) - 1 /\ Cardinality(S) > 0
<1>1. IsFiniteSet(S \ {x}) /\ x \notin S \ {x} /\ (S \ {x}) \cup {x} = S
  BY FS_RemoveElement
<1>2. Cardinality(S) = Cardinality(S \ {x}) + 1
  BY <1>1, OneMore
<1>3. Cardinality(S \ {x}) \in Nat
  BY <1>1, FS_CardinalityType
<1> QED BY <1>2, <1>3

\* A step of the thread t, and one of the context u.
LEMMA OpenerStep ==
  ASSUME ProcessTypeOK, NEW t \in Threads, NEW c, NEW p \in Procs,
         opener' = [opener EXCEPT ![t] = [pc |-> c, proc |-> p]]
  PROVE  /\ opener'[t] = [pc |-> c, proc |-> p]
         /\ \A n \in Threads : n # t => opener'[n] = opener[n]
         /\ \A n \in Threads : \A d, x : At(n, d, x)' <=> IF n = t THEN d = c /\ x = p ELSE At(n, d, x)
<1>1. opener'[t].pc = c /\ opener'[t].proc = p /\ opener'[t] = [pc |-> c, proc |-> p]
  <2>1. opener[t] \in [pc : {"idle", "register", "check", "put", "bug"}, proc : Procs]
    BY DEF ProcessTypeOK
  <2> QED BY <2>1 DEF ProcessTypeOK
<1>2. \A n \in Threads : n # t => opener'[n] = opener[n]
  BY DEF ProcessTypeOK
<1> QED BY <1>1, <1>2 DEF At

\* A step that keeps the process.
LEMMA KeepOpenerProc ==
  ASSUME ProcessTypeOK, NEW t \in Threads, NEW c, opener' = [opener EXCEPT ![t].pc = c]
  PROVE  opener' = [opener EXCEPT ![t] = [pc |-> c, proc |-> opener[t].proc]]
<1>1. opener[t] \in [pc : {"idle", "register", "check", "put", "bug"}, proc : Procs] /\ opener \in [Threads -> [pc : {"idle", "register", "check", "put", "bug"}, proc : Procs]]
  BY DEF ProcessTypeOK
<1>2. [opener[t] EXCEPT !.pc = c] = [pc |-> c, proc |-> opener[t].proc]
  BY <1>1
<1>3. opener' = [opener EXCEPT ![t] = [opener[t] EXCEPT !.pc = c]]
  BY <1>1
<1> QED BY <1>2, <1>3

LEMMA KeepUserProc ==
  ASSUME ProcessTypeOK, NEW u \in Users, NEW c, user' = [user EXCEPT ![u].pc = c]
  PROVE  user' = [user EXCEPT ![u] = [pc |-> c, proc |-> user[u].proc]]
<1>1. user[u] \in [pc : {"idle", "found", "held"}, proc : Procs] /\ user \in [Users -> [pc : {"idle", "found", "held"}, proc : Procs]]
  BY DEF ProcessTypeOK
<1>2. [user[u] EXCEPT !.pc = c] = [pc |-> c, proc |-> user[u].proc]
  BY <1>1
<1>3. user' = [user EXCEPT ![u] = [user[u] EXCEPT !.pc = c]]
  BY <1>1
<1> QED BY <1>2, <1>3

LEMMA UserStep ==
  ASSUME ProcessTypeOK, NEW u \in Users, NEW c, NEW p \in Procs,
         user' = [user EXCEPT ![u] = [pc |-> c, proc |-> p]]
  PROVE  /\ user'[u] = [pc |-> c, proc |-> p]
         /\ \A v \in Users : v # u => user'[v] = user[v]
         /\ \A v \in Users : \A d, x : Has(v, d, x)' <=> IF v = u THEN d = c /\ x = p ELSE Has(v, d, x)
<1>1. user'[u].pc = c /\ user'[u].proc = p /\ user'[u] = [pc |-> c, proc |-> p]
  <2>1. user[u] \in [pc : {"idle", "found", "held"}, proc : Procs]
    BY DEF ProcessTypeOK
  <2> QED BY <2>1 DEF ProcessTypeOK
<1>2. \A v \in Users : v # u => user'[v] = user[v]
  BY DEF ProcessTypeOK
<1> QED BY <1>1, <1>2 DEF Has
-----------------------------------------------------------------------------
(* One lemma per action: it preserves every part of the invariant. *)

LEMMA OpenFindInv ==
  ASSUME IInv, ~EarlyLookups, NEW t \in Threads, NEW p \in Procs, open_find(t, p)
  PROVE  IInv'
<1>1. ProcessTypeOK
  BY DEF IInv
<1>2. \A o \in Threads : Home[o] \in Mms
  BY ProcSetsAssumption
<1>3. mm[Home[t]] = "live" /\ mutex = {} /\ st[p] = "hashed" /\ mmof[p] = Home[t] /\ opener[t].pc = "idle"
  BY <1>1, <1>2 DEF open_find, works, grace, At, Has, Hashed, Registered, ProcessTypeOK
<1>4. \A d, x : At(t, d, x) => d = "idle"
  BY <1>3 DEF At
<1>5. \A o \in Threads : \A x \in Procs : ~At(o, "register", x) /\ ~At(o, "bug", x)
  BY <1>3 DEF IInv, Registering, Dying, Made
<1>6. 1 \in Procs
  BY ProcBoundsAssumption DEF Procs
<1>7. opener' = [opener EXCEPT ![t] = [pc |-> "check", proc |-> p]]
  BY DEF open_find, works, grace, Idle
<1>8. 
      /\ opener'[t] = [pc |-> "check", proc |-> p]
      /\ \A n \in Threads : n # t => opener'[n] = opener[n]
      /\ \A n \in Threads : \A d, x : At(n, d, x)' <=> IF n = t THEN d = "check" /\ x = p ELSE At(n, d, x)
  BY <1>7, <1>6, <1>1, OpenerStep
<1>9. user' = user /\ \A v \in Users : \A d, x : Has(v, d, x)' <=> Has(v, d, x)
  BY DEF open_find, works, grace, Has
<1>10. st' = st /\ mmof' = mmof /\ files' = files /\ notifier' = notifier /\ extra' = extra /\ work' = work /\ late' = late /\ mm' = mm /\ mutex' = mutex /\ waits' = waits /\ readers' = readers
  BY DEF open_find, works, grace
<1>11. \A x \in Mms : Stuck(x) => Stuck(x)'
  BY <1>3, <1>2, <1>4, <1>5, <1>8 DEF Stuck
<1>12. (st \in [Procs -> {"none", "hashed", "unhashed", "nomm", "freed"}] /\ mmof \in [Procs -> Mms] /\ pasid \in [Procs -> Pasids \cup {NoPasid}] /\ files \in [Procs -> Nat] /\ notifier \subseteq Procs)'
  BY <1>1 DEF open_find, works, grace, ProcessTypeOK
<1>13. (work \subseteq Procs \X Kinds /\ mm \in [Mms -> {"live", "unhash", "sync", "evicted", "restored", "cancel", "gone"}] /\ mutex \subseteq Threads /\ waits \in [Threads -> SUBSET Users] /\ readers \in [Mms -> SUBSET Users] /\ user \in [Users -> [pc : {"idle", "found", "held"}, proc : Procs]])'
  BY <1>1 DEF open_find, works, grace, ProcessTypeOK
<1>14. (extra \subseteq notifier /\ late \subseteq work)'
  BY <1>2, <1>4, <1>5, <1>10, <1>11, <1>1 DEF ProcessTypeOK, Registered
<1>15. (opener \in [Threads -> [pc : {"idle", "register", "check", "put", "bug"}, proc : Procs]])'
  BY <1>1, <1>6 DEF open_find, works, grace, ProcessTypeOK, Idle
<1>16. \A x \in Procs : files[x] \in Nat /\ files'[x] \in Nat
  BY <1>1, <1>12, <1>13, <1>14, <1>15 DEF ProcessTypeOK
<1>17. \A q \in Procs : ref'[q] = Holders(q)' /\ ref'[q] \in Nat
  <2> SUFFICES ASSUME NEW q \in Procs PROVE ref'[q] = Holders(q)' /\ ref'[q] \in Nat
    OBVIOUS
  <2>1. Holders(q) = Terms(q) /\ Holders(q)' = Terms(q)'
    BY HoldersByTerm
  <2>2. ref[q] = Terms(q) /\ ref[q] \in Nat
    BY <2>1 DEF IInv, Counted, ProcessTypeOK
  <2>3. /\ IsFiniteSet(Checks(q)) /\ IsFiniteSet(Helds(q))
        /\ Cardinality(Checks(q)) \in Nat /\ Cardinality(Helds(q)) \in Nat
        /\ Ones(Kept(q)) \in 0 .. 1
    BY TermTypes
  <2>4. Kept(q)' <=> Kept(q)
    BY <1>3, <1>2, <1>4, <1>5, <1>8, <1>9, <1>10, <1>11 DEF IInv, Registering, Checking, Putting, Dying, Made, Kept
  <2>5. Ones(Kept(q)') = Ones(Kept(q))
    BY <2>4, OnesOf
  <2>6. IF q = p THEN Checks(q)' = Checks(q) \cup {t} /\ t \notin Checks(q) ELSE Checks(q)' = Checks(q)
    BY <1>3, <1>2, <1>4, <1>5, <1>8, <1>9, <1>10, <1>11 DEF Checks, At, Has
  <2>7. Cardinality(Checks(q)') = Cardinality(Checks(q)) + (IF q = p THEN 1 ELSE 0)
    BY <2>3, <2>6, OneMore
  <2>8. Helds(q)' = Helds(q)
    BY <1>3, <1>2, <1>4, <1>5, <1>8, <1>9, <1>10, <1>11 DEF Helds
  <2>9. Cardinality(Helds(q)') = Cardinality(Helds(q))
    BY <2>8
  <2>10. ref'[q] = ref[q] + (IF q = p THEN 1 ELSE 0)
    BY <1>1, <2>2 DEF open_find, works, grace, ProcessTypeOK
  <2>20. Ones(Kept(q)') \in 0 .. 1 /\ Cardinality(Checks(q)') \in Nat /\ Cardinality(Helds(q)') \in Nat
    <3>1. (Checks(q)' \subseteq Threads) /\ (Helds(q)' \subseteq Users)
      BY DEF Checks, Helds
    <3>2. IsFiniteSet(Checks(q)') /\ IsFiniteSet(Helds(q)')
      BY <3>1, FS_Subset, ProcSetsAssumption
    <3>3. Ones(Kept(q)') \in 0 .. 1
      BY DEF Ones
    <3> QED BY <3>2, <3>3, FS_CardinalityType
  <2>21. Terms(q) = Ones(Kept(q)) + files[q] + Cardinality(Checks(q)) + Cardinality(Helds(q))
    BY DEF Terms
  <2>22. Terms(q)' = Ones(Kept(q)') + files'[q] + Cardinality(Checks(q)') + Cardinality(Helds(q)')
    BY TermsNext
  <2>23. files'[q] = files[q] /\ files[q] \in Nat /\ files'[q] \in Nat
    BY <1>16, <1>10
  <2> HIDE DEF open_find, IInv
  <2> QED BY <2>1, <2>2, <2>3, <2>5, <2>7, <2>9, <2>10, <2>20, <2>21, <2>22, <2>23
<1>18. (ref \in [Procs -> Nat])'
  BY <1>17, <1>1 DEF open_find, works, grace, ProcessTypeOK
<1>19. ProcessTypeOK'
  BY <1>12, <1>13, <1>14, <1>15, <1>18 DEF ProcessTypeOK
<1>20. Registering'
  BY <1>3, <1>2, <1>4, <1>5, <1>8, <1>9, <1>10, <1>11, <1>1, <1>16 DEF IInv, ProcessTypeOK, Registering, Made, Checking
<1>21. Dying'
  BY <1>3, <1>2, <1>4, <1>5, <1>8, <1>9, <1>10, <1>11, <1>1, <1>16 DEF IInv, ProcessTypeOK, Dying, Made, Registering, Checking
<1>22. Checking'
  BY <1>3, <1>2, <1>4, <1>5, <1>8, <1>9, <1>10, <1>11, <1>1, <1>16 DEF IInv, ProcessTypeOK, Checking, HashedIsKept, Kept
<1>23. Putting'
  BY <1>3, <1>2, <1>4, <1>5, <1>8, <1>9, <1>10, <1>11, <1>1, <1>16 DEF IInv, ProcessTypeOK, Putting, Registering, Made
<1>24. ExtraIsStuck'
  BY <1>3, <1>2, <1>4, <1>5, <1>8, <1>9, <1>10, <1>11, <1>1, <1>16 DEF IInv, ProcessTypeOK, ExtraIsStuck, Registered, Stuck
<1>25. HashedIsKept'
  BY <1>3, <1>2, <1>4, <1>5, <1>8, <1>9, <1>10, <1>11, <1>1, <1>16 DEF IInv, ProcessTypeOK, HashedIsKept, Kept, Registering, Checking, Made
<1>26. NotifierKept'
  BY <1>3, <1>2, <1>4, <1>5, <1>8, <1>9, <1>10, <1>11, <1>1, <1>16 DEF IInv, ProcessTypeOK, NotifierKept, Putting, Registering, Made, Checking, ExtraIsStuck
<1>27. FoundIsAwaited'
  BY <1>3, <1>2, <1>4, <1>5, <1>8, <1>9, <1>10, <1>11, <1>1, <1>16 DEF IInv, ProcessTypeOK, FoundIsAwaited, Putting, Registering, Made, HashedIsKept, Kept, NotifierKept
<1>28. WorkIsAwaited'
  BY <1>3, <1>2, <1>4, <1>5, <1>8, <1>9, <1>10, <1>11, <1>1, <1>16 DEF IInv, ProcessTypeOK, WorkIsAwaited, ToCancel, NotifierKept, Registering, Made, Putting
<1>29. Unowned'
  BY <1>3, <1>2, <1>4, <1>5, <1>8, <1>9, <1>10, <1>11, <1>1, <1>16 DEF IInv, ProcessTypeOK, Unowned, FoundIsAwaited, Checking, Registering, Made
<1> QED BY <1>19, <1>17, <1>20, <1>21, <1>22, <1>23, <1>24, <1>25, <1>26, <1>27, <1>28, <1>29 DEF IInv, Counted

LEMMA OpenCreateInv ==
  ASSUME IInv, ~EarlyLookups, NEW t \in Threads, NEW p \in Procs, NEW pa \in Pasids, open_create(t, p, pa)
  PROVE  IInv'
<1>1. ProcessTypeOK
  BY DEF IInv
<1>2. \A o \in Threads : Home[o] \in Mms
  BY ProcSetsAssumption
<1>3. mm[Home[t]] = "live" /\ mutex = {} /\ st[p] = "none" /\ opener[t].pc = "idle"
  BY <1>1, <1>2 DEF open_create, works, grace, At, Has, Hashed, Registered, ProcessTypeOK
<1>4. \A d, x : At(t, d, x) => d = "idle"
  BY <1>3 DEF At
<1>5. \A o \in Threads : \A x \in Procs : ~At(o, "register", x) /\ ~At(o, "bug", x)
  BY <1>3 DEF IInv, Registering, Dying, Made
<1>6. p \notin notifier /\ \A k \in Kinds : <<p, k>> \notin work \ late
  BY <1>3, <1>1 DEF IInv, NotifierKept, WorkIsAwaited, ProcessTypeOK
<1>7. ~Kept(p)
  BY <1>3, <1>6, <1>5 DEF Kept
<1>8. 1 \in Procs
  BY ProcBoundsAssumption DEF Procs
<1>9. opener' = [opener EXCEPT ![t] = [pc |-> "register", proc |-> p]]
  BY DEF open_create, works, grace, Idle
<1>10. 
      /\ opener'[t] = [pc |-> "register", proc |-> p]
      /\ \A n \in Threads : n # t => opener'[n] = opener[n]
      /\ \A n \in Threads : \A d, x : At(n, d, x)' <=> IF n = t THEN d = "register" /\ x = p ELSE At(n, d, x)
  BY <1>9, <1>8, <1>1, OpenerStep
<1>11. user' = user /\ \A v \in Users : \A d, x : Has(v, d, x)' <=> Has(v, d, x)
  BY DEF open_create, works, grace, Has
<1>12. files' = files /\ notifier' = notifier /\ extra' = extra /\ work' = work /\ late' = late /\ mm' = mm /\ waits' = waits /\ readers' = readers
  BY DEF open_create, works, grace
<1>13. \A x \in Procs : st'[x] = IF x = p THEN "hashed" ELSE st[x]
  BY <1>1, <1>2 DEF open_create, works, grace, ProcessTypeOK, Hashed
<1>14. \A x \in Procs : mmof'[x] = IF x = p THEN Home[t] ELSE mmof[x]
  BY <1>1, <1>2 DEF open_create, works, grace, ProcessTypeOK, Hashed
<1>15. mutex' = {t}
  BY <1>1, <1>2 DEF open_create, works, grace, ProcessTypeOK, Hashed
<1>16. \A x \in Mms : Stuck(x) => Stuck(x)'
  BY <1>3, <1>2, <1>4, <1>5, <1>6, <1>7, <1>10 DEF Stuck
<1>17. (files \in [Procs -> Nat] /\ notifier \subseteq Procs /\ work \subseteq Procs \X Kinds)'
  BY <1>1 DEF open_create, works, grace, ProcessTypeOK
<1>18. (mm \in [Mms -> {"live", "unhash", "sync", "evicted", "restored", "cancel", "gone"}] /\ waits \in [Threads -> SUBSET Users] /\ readers \in [Mms -> SUBSET Users] /\ user \in [Users -> [pc : {"idle", "found", "held"}, proc : Procs]])'
  BY <1>1 DEF open_create, works, grace, ProcessTypeOK
<1>19. (st \in [Procs -> {"none", "hashed", "unhashed", "nomm", "freed"}])'
  BY <1>1, <1>2 DEF open_create, works, grace, ProcessTypeOK, Reading
<1>20. (mmof \in [Procs -> Mms])'
  BY <1>1, <1>2 DEF open_create, works, grace, ProcessTypeOK, Reading
<1>21. (pasid \in [Procs -> Pasids \cup {NoPasid}])'
  BY <1>1, <1>2 DEF open_create, works, grace, ProcessTypeOK, Reading
<1>22. (mutex \subseteq Threads)'
  BY <1>1, <1>2 DEF open_create, works, grace, ProcessTypeOK, Reading
<1>23. (extra \subseteq notifier /\ late \subseteq work)'
  BY <1>2, <1>4, <1>5, <1>6, <1>7, <1>12, <1>13, <1>14, <1>15, <1>16, <1>1 DEF ProcessTypeOK, Registered
<1>24. (opener \in [Threads -> [pc : {"idle", "register", "check", "put", "bug"}, proc : Procs]])'
  BY <1>1, <1>8 DEF open_create, works, grace, ProcessTypeOK, Idle
<1>25. \A x \in Procs : files[x] \in Nat /\ files'[x] \in Nat
  BY <1>1, <1>17, <1>18, <1>19, <1>20, <1>21, <1>22, <1>23, <1>24 DEF ProcessTypeOK
<1>26. \A q \in Procs : ref'[q] = Holders(q)' /\ ref'[q] \in Nat
  <2> SUFFICES ASSUME NEW q \in Procs PROVE ref'[q] = Holders(q)' /\ ref'[q] \in Nat
    OBVIOUS
  <2>1. Holders(q) = Terms(q) /\ Holders(q)' = Terms(q)'
    BY HoldersByTerm
  <2>2. ref[q] = Terms(q) /\ ref[q] \in Nat
    BY <2>1 DEF IInv, Counted, ProcessTypeOK
  <2>3. /\ IsFiniteSet(Checks(q)) /\ IsFiniteSet(Helds(q))
        /\ Cardinality(Checks(q)) \in Nat /\ Cardinality(Helds(q)) \in Nat
        /\ Ones(Kept(q)) \in 0 .. 1
    BY TermTypes
  <2>4. IF q = p THEN Kept(q)' /\ ~Kept(q) ELSE Kept(q)' <=> Kept(q)
    BY <1>3, <1>2, <1>4, <1>5, <1>6, <1>7, <1>10, <1>11, <1>12, <1>13, <1>14, <1>15, <1>16 DEF IInv, Registering, Checking, Putting, Dying, Made, NotifierKept, Kept
  <2>5. Ones(Kept(q)') = Ones(Kept(q)) + (IF q = p THEN 1 ELSE 0)
    BY <2>4 DEF Ones
  <2>6. Checks(q)' = Checks(q)
    BY <1>3, <1>2, <1>4, <1>5, <1>6, <1>7, <1>10, <1>11, <1>12, <1>13, <1>14, <1>15, <1>16 DEF Checks
  <2>7. Cardinality(Checks(q)') = Cardinality(Checks(q))
    BY <2>6
  <2>8. Helds(q)' = Helds(q)
    BY <1>3, <1>2, <1>4, <1>5, <1>6, <1>7, <1>10, <1>11, <1>12, <1>13, <1>14, <1>15, <1>16 DEF Helds
  <2>9. Cardinality(Helds(q)') = Cardinality(Helds(q))
    BY <2>8
  <2>10. ref'[q] = IF q = p THEN 1 ELSE ref[q]
    BY <1>1, <2>2 DEF open_create, works, grace, ProcessTypeOK
  <2>11. q = p => files[q] = 0 /\ Checks(q) = {} /\ Helds(q) = {}
    BY <1>3, <1>2, <1>4, <1>5, <1>6, <1>7, <1>10, <1>11, <1>12, <1>13, <1>14, <1>15, <1>16 DEF IInv, Registering, Checking, Putting, Dying, Made, Unowned, Checks, Helds, Has
  <2>12. q = p => Ones(Kept(q)) = 0
    BY <2>4 DEF Ones
  <2>13. Cardinality({}) = 0
    BY FS_EmptySet
  <2>14. q = p => Terms(q)' = 1
    BY <2>5, <2>7, <2>9, <2>11, <2>12, <2>13, <1>12, TermsNext
  <2>20. Ones(Kept(q)') \in 0 .. 1 /\ Cardinality(Checks(q)') \in Nat /\ Cardinality(Helds(q)') \in Nat
    <3>1. (Checks(q)' \subseteq Threads) /\ (Helds(q)' \subseteq Users)
      BY DEF Checks, Helds
    <3>2. IsFiniteSet(Checks(q)') /\ IsFiniteSet(Helds(q)')
      BY <3>1, FS_Subset, ProcSetsAssumption
    <3>3. Ones(Kept(q)') \in 0 .. 1
      BY DEF Ones
    <3> QED BY <3>2, <3>3, FS_CardinalityType
  <2>21. Terms(q) = Ones(Kept(q)) + files[q] + Cardinality(Checks(q)) + Cardinality(Helds(q))
    BY DEF Terms
  <2>22. Terms(q)' = Ones(Kept(q)') + files'[q] + Cardinality(Checks(q)') + Cardinality(Helds(q)')
    BY TermsNext
  <2>23. files'[q] = files[q] /\ files[q] \in Nat /\ files'[q] \in Nat
    BY <1>25, <1>12
  <2> HIDE DEF open_create, IInv
  <2> QED BY <2>14, <2>1, <2>2, <2>3, <2>5, <2>7, <2>9, <2>10, <2>20, <2>21, <2>22, <2>23
<1>27. (ref \in [Procs -> Nat])'
  BY <1>26, <1>1 DEF open_create, works, grace, ProcessTypeOK
<1>28. ProcessTypeOK'
  BY <1>17, <1>18, <1>19, <1>20, <1>21, <1>22, <1>23, <1>24, <1>27 DEF ProcessTypeOK
<1>29. Registering'
  BY <1>3, <1>2, <1>4, <1>5, <1>6, <1>7, <1>10, <1>11, <1>12, <1>13, <1>14, <1>15, <1>16, <1>1, <1>25 DEF IInv, ProcessTypeOK, Registering, Made, Unowned
<1>30. Dying'
  BY <1>3, <1>2, <1>4, <1>5, <1>6, <1>7, <1>10, <1>11, <1>12, <1>13, <1>14, <1>15, <1>16, <1>1, <1>25 DEF IInv, ProcessTypeOK, Dying, Made, Registering, Checking
<1>31. Checking'
  BY <1>3, <1>2, <1>4, <1>5, <1>6, <1>7, <1>10, <1>11, <1>12, <1>13, <1>14, <1>15, <1>16, <1>1, <1>25 DEF IInv, ProcessTypeOK, Checking, Registering, Dying, Made, HashedIsKept, NotifierKept
<1>32. Putting'
  BY <1>3, <1>2, <1>4, <1>5, <1>6, <1>7, <1>10, <1>11, <1>12, <1>13, <1>14, <1>15, <1>16, <1>1, <1>25 DEF IInv, ProcessTypeOK, Putting, Registering, Made
<1>33. ExtraIsStuck'
  BY <1>3, <1>2, <1>4, <1>5, <1>6, <1>7, <1>10, <1>11, <1>12, <1>13, <1>14, <1>15, <1>16, <1>1, <1>25 DEF IInv, ProcessTypeOK, ExtraIsStuck, Registered, Stuck
<1>34. HashedIsKept'
  BY <1>3, <1>2, <1>4, <1>5, <1>6, <1>7, <1>10, <1>11, <1>12, <1>13, <1>14, <1>15, <1>16, <1>1, <1>25 DEF IInv, ProcessTypeOK, HashedIsKept, Kept, Registering, Checking, Made
<1>35. NotifierKept'
  BY <1>3, <1>2, <1>4, <1>5, <1>6, <1>7, <1>10, <1>11, <1>12, <1>13, <1>14, <1>15, <1>16, <1>1, <1>25 DEF IInv, ProcessTypeOK, NotifierKept, Putting, Registering, Made, Checking, ExtraIsStuck
<1>36. FoundIsAwaited'
  BY <1>3, <1>2, <1>4, <1>5, <1>6, <1>7, <1>10, <1>11, <1>12, <1>13, <1>14, <1>15, <1>16, <1>1, <1>25 DEF IInv, ProcessTypeOK, FoundIsAwaited, Putting, Registering, Made, HashedIsKept, Kept, NotifierKept
<1>37. WorkIsAwaited'
  BY <1>3, <1>2, <1>4, <1>5, <1>6, <1>7, <1>10, <1>11, <1>12, <1>13, <1>14, <1>15, <1>16, <1>1, <1>25 DEF IInv, ProcessTypeOK, WorkIsAwaited, ToCancel, NotifierKept, Registering, Made, Putting
<1>38. Unowned'
  BY <1>3, <1>2, <1>4, <1>5, <1>6, <1>7, <1>10, <1>11, <1>12, <1>13, <1>14, <1>15, <1>16, <1>1, <1>25 DEF IInv, ProcessTypeOK, Unowned, FoundIsAwaited, Checking, Registering, Made
<1> QED BY <1>28, <1>26, <1>29, <1>30, <1>31, <1>32, <1>33, <1>34, <1>35, <1>36, <1>37, <1>38 DEF IInv, Counted

LEMMA OpenRegisterInv ==
  ASSUME IInv, ~EarlyLookups, NEW t \in Threads, open_register(t)
  PROVE  IInv'
<1> DEFINE p == opener[t].proc
<1>1. ProcessTypeOK
  BY DEF IInv
<1>2. \A o \in Threads : Home[o] \in Mms
  BY ProcSetsAssumption
<1>3. p \in Procs
  BY DEF IInv, ProcessTypeOK
<1>4. p = opener[t].proc
  OBVIOUS
<1> HIDE DEF p
<1>5. At(t, "register", p) /\ \A x \in notifier : mmof[x] # Home[t]
  BY <1>4, <1>1, <1>2 DEF open_register, works, grace, At, Has, Hashed, Registered, ProcessTypeOK
<1>6. \A d, x : At(t, d, x) => d = "register" /\ x = p
  BY <1>5 DEF At
<1>7. Made(t, p) /\ mm[Home[t]] = "live"
  BY <1>3, <1>5 DEF IInv, Registering
<1>8. \A o \in Threads : \A x \in Procs : (At(o, "register", x) \/ At(o, "bug", x)) => o = t
  BY <1>7 DEF IInv, Registering, Dying, Made
<1>9. 1 \in Procs
  BY ProcBoundsAssumption DEF Procs
<1>10. opener' = [opener EXCEPT ![t] = [pc |-> "check", proc |-> p]]
  BY <1>4, <1>1, KeepOpenerProc DEF open_register, works, grace
<1>11. 
      /\ opener'[t] = [pc |-> "check", proc |-> p]
      /\ \A n \in Threads : n # t => opener'[n] = opener[n]
      /\ \A n \in Threads : \A d, x : At(n, d, x)' <=> IF n = t THEN d = "check" /\ x = p ELSE At(n, d, x)
  BY <1>10, <1>9, <1>3, <1>1, OpenerStep
<1>12. user' = user /\ \A v \in Users : \A d, x : Has(v, d, x)' <=> Has(v, d, x)
  BY DEF open_register, works, grace, Has
<1>13. st' = st /\ mmof' = mmof /\ files' = files /\ extra' = extra /\ work' = work /\ late' = late /\ mm' = mm /\ waits' = waits /\ readers' = readers
  BY DEF open_register, works, grace
<1>14. notifier' = notifier \cup {p}
  BY <1>4, <1>3, <1>1, <1>2 DEF open_register, works, grace, ProcessTypeOK, Hashed
<1>15. mutex' = {}
  BY <1>4, <1>3, <1>1, <1>2 DEF open_register, works, grace, ProcessTypeOK, Hashed
<1>16. \A x \in Mms : Stuck(x) => Stuck(x)'
  BY <1>3, <1>5, <1>2, <1>6, <1>7, <1>8, <1>11 DEF Stuck
<1>17. (st \in [Procs -> {"none", "hashed", "unhashed", "nomm", "freed"}] /\ mmof \in [Procs -> Mms] /\ pasid \in [Procs -> Pasids \cup {NoPasid}] /\ files \in [Procs -> Nat])'
  BY <1>1 DEF open_register, works, grace, ProcessTypeOK
<1>18. (work \subseteq Procs \X Kinds /\ mm \in [Mms -> {"live", "unhash", "sync", "evicted", "restored", "cancel", "gone"}] /\ waits \in [Threads -> SUBSET Users] /\ readers \in [Mms -> SUBSET Users] /\ user \in [Users -> [pc : {"idle", "found", "held"}, proc : Procs]])'
  BY <1>1 DEF open_register, works, grace, ProcessTypeOK
<1>19. (notifier \subseteq Procs)'
  BY <1>3, <1>1, <1>2 DEF open_register, works, grace, ProcessTypeOK, Reading
<1>20. (mutex \subseteq Threads)'
  BY <1>3, <1>1, <1>2 DEF open_register, works, grace, ProcessTypeOK, Reading
<1>21. (extra \subseteq notifier /\ late \subseteq work)'
  BY <1>3, <1>2, <1>6, <1>7, <1>8, <1>13, <1>14, <1>15, <1>16, <1>1 DEF ProcessTypeOK, Registered
<1>22. (opener \in [Threads -> [pc : {"idle", "register", "check", "put", "bug"}, proc : Procs]])'
  BY <1>3, <1>1, <1>9 DEF open_register, works, grace, ProcessTypeOK, Idle
<1>23. \A x \in Procs : files[x] \in Nat /\ files'[x] \in Nat
  BY <1>1, <1>17, <1>18, <1>19, <1>20, <1>21, <1>22 DEF ProcessTypeOK
<1>24. \A q \in Procs : ref'[q] = Holders(q)' /\ ref'[q] \in Nat
  <2> SUFFICES ASSUME NEW q \in Procs PROVE ref'[q] = Holders(q)' /\ ref'[q] \in Nat
    OBVIOUS
  <2>1. Holders(q) = Terms(q) /\ Holders(q)' = Terms(q)'
    BY HoldersByTerm
  <2>2. ref[q] = Terms(q) /\ ref[q] \in Nat
    BY <2>1 DEF IInv, Counted, ProcessTypeOK
  <2>3. /\ IsFiniteSet(Checks(q)) /\ IsFiniteSet(Helds(q))
        /\ Cardinality(Checks(q)) \in Nat /\ Cardinality(Helds(q)) \in Nat
        /\ Ones(Kept(q)) \in 0 .. 1
    BY TermTypes
  <2>4. Kept(q)' <=> Kept(q)
    BY <1>3, <1>5, <1>2, <1>6, <1>7, <1>8, <1>11, <1>12, <1>13, <1>14, <1>15, <1>16 DEF IInv, Registering, Checking, Putting, Dying, Made, Kept
  <2>5. Ones(Kept(q)') = Ones(Kept(q))
    BY <2>4, OnesOf
  <2>6. IF q = p THEN Checks(q)' = Checks(q) \cup {t} /\ t \notin Checks(q) ELSE Checks(q)' = Checks(q)
    BY <1>3, <1>5, <1>2, <1>6, <1>7, <1>8, <1>11, <1>12, <1>13, <1>14, <1>15, <1>16 DEF Checks, At, Has
  <2>7. Cardinality(Checks(q)') = Cardinality(Checks(q)) + (IF q = p THEN 1 ELSE 0)
    BY <2>3, <2>6, OneMore
  <2>8. Helds(q)' = Helds(q)
    BY <1>3, <1>5, <1>2, <1>6, <1>7, <1>8, <1>11, <1>12, <1>13, <1>14, <1>15, <1>16 DEF Helds
  <2>9. Cardinality(Helds(q)') = Cardinality(Helds(q))
    BY <2>8
  <2>10. ref'[q] = ref[q] + (IF q = p THEN 1 ELSE 0)
    BY <1>4, <1>1, <2>2 DEF open_register, works, grace, ProcessTypeOK
  <2>20. Ones(Kept(q)') \in 0 .. 1 /\ Cardinality(Checks(q)') \in Nat /\ Cardinality(Helds(q)') \in Nat
    <3>1. (Checks(q)' \subseteq Threads) /\ (Helds(q)' \subseteq Users)
      BY DEF Checks, Helds
    <3>2. IsFiniteSet(Checks(q)') /\ IsFiniteSet(Helds(q)')
      BY <3>1, FS_Subset, ProcSetsAssumption
    <3>3. Ones(Kept(q)') \in 0 .. 1
      BY DEF Ones
    <3> QED BY <3>2, <3>3, FS_CardinalityType
  <2>21. Terms(q) = Ones(Kept(q)) + files[q] + Cardinality(Checks(q)) + Cardinality(Helds(q))
    BY DEF Terms
  <2>22. Terms(q)' = Ones(Kept(q)') + files'[q] + Cardinality(Checks(q)') + Cardinality(Helds(q)')
    BY TermsNext
  <2>23. files'[q] = files[q] /\ files[q] \in Nat /\ files'[q] \in Nat
    BY <1>23, <1>13
  <2> HIDE DEF open_register, IInv
  <2> QED BY <2>1, <2>2, <2>3, <2>5, <2>7, <2>9, <2>10, <2>20, <2>21, <2>22, <2>23
<1>25. (ref \in [Procs -> Nat])'
  BY <1>24, <1>1 DEF open_register, works, grace, ProcessTypeOK
<1>26. ProcessTypeOK'
  BY <1>17, <1>18, <1>19, <1>20, <1>21, <1>22, <1>25 DEF ProcessTypeOK
<1>27. Registering'
  BY <1>3, <1>5, <1>2, <1>6, <1>7, <1>8, <1>11, <1>12, <1>13, <1>14, <1>15, <1>16, <1>1, <1>23 DEF IInv, ProcessTypeOK, Registering, Made, Checking
<1>28. Dying'
  BY <1>3, <1>5, <1>2, <1>6, <1>7, <1>8, <1>11, <1>12, <1>13, <1>14, <1>15, <1>16, <1>1, <1>23 DEF IInv, ProcessTypeOK, Dying, Made, Registering, Checking
<1>29. Checking'
  BY <1>3, <1>5, <1>2, <1>6, <1>7, <1>8, <1>11, <1>12, <1>13, <1>14, <1>15, <1>16, <1>1, <1>23 DEF IInv, ProcessTypeOK, Checking, Registering, Dying, Made, HashedIsKept, NotifierKept
<1>30. Putting'
  BY <1>3, <1>5, <1>2, <1>6, <1>7, <1>8, <1>11, <1>12, <1>13, <1>14, <1>15, <1>16, <1>1, <1>23 DEF IInv, ProcessTypeOK, Putting, Registering, Made
<1>31. ExtraIsStuck'
  BY <1>3, <1>5, <1>2, <1>6, <1>7, <1>8, <1>11, <1>12, <1>13, <1>14, <1>15, <1>16, <1>1, <1>23 DEF IInv, ProcessTypeOK, ExtraIsStuck, Registered, Stuck
<1>32. HashedIsKept'
  BY <1>3, <1>5, <1>2, <1>6, <1>7, <1>8, <1>11, <1>12, <1>13, <1>14, <1>15, <1>16, <1>1, <1>23 DEF IInv, ProcessTypeOK, HashedIsKept, Kept, Registering, Checking, Made
<1>33. NotifierKept'
  BY <1>3, <1>5, <1>2, <1>6, <1>7, <1>8, <1>11, <1>12, <1>13, <1>14, <1>15, <1>16, <1>1, <1>23 DEF IInv, ProcessTypeOK, NotifierKept, Putting, Registering, Made, Checking, ExtraIsStuck
<1>34. FoundIsAwaited'
  BY <1>3, <1>5, <1>2, <1>6, <1>7, <1>8, <1>11, <1>12, <1>13, <1>14, <1>15, <1>16, <1>1, <1>23 DEF IInv, ProcessTypeOK, FoundIsAwaited, Putting, Registering, Made, HashedIsKept, Kept, NotifierKept
<1>35. WorkIsAwaited'
  BY <1>3, <1>5, <1>2, <1>6, <1>7, <1>8, <1>11, <1>12, <1>13, <1>14, <1>15, <1>16, <1>1, <1>23 DEF IInv, ProcessTypeOK, WorkIsAwaited, ToCancel, NotifierKept, Registering, Made, Putting
<1>36. Unowned'
  BY <1>3, <1>5, <1>2, <1>6, <1>7, <1>8, <1>11, <1>12, <1>13, <1>14, <1>15, <1>16, <1>1, <1>23 DEF IInv, ProcessTypeOK, Unowned, FoundIsAwaited, Checking, Registering, Made
<1> QED BY <1>26, <1>24, <1>27, <1>28, <1>29, <1>30, <1>31, <1>32, <1>33, <1>34, <1>35, <1>36 DEF IInv, Counted

LEMMA OpenRegisterBugInv ==
  ASSUME IInv, ~EarlyLookups, NEW t \in Threads, open_register_bug(t)
  PROVE  IInv'
<1> DEFINE p == opener[t].proc
<1>1. ProcessTypeOK
  BY DEF IInv
<1>2. \A o \in Threads : Home[o] \in Mms
  BY ProcSetsAssumption
<1>3. p \in Procs
  BY DEF IInv, ProcessTypeOK
<1>4. p = opener[t].proc
  OBVIOUS
<1> HIDE DEF p
<1>5. At(t, "register", p)
  BY <1>4, <1>1, <1>2 DEF open_register_bug, works, grace, At, Has, Hashed, Registered, ProcessTypeOK
<1>6. \A d, x : At(t, d, x) => d = "register" /\ x = p
  BY <1>5 DEF At
<1>7. Made(t, p) /\ mm[Home[t]] = "live"
  BY <1>3, <1>5 DEF IInv, Registering
<1>8. \A o \in Threads : \A x \in Procs : (At(o, "register", x) \/ At(o, "bug", x)) => o = t
  BY <1>7 DEF IInv, Registering, Dying, Made
<1>9. \A x : x \in Registered(Home[t]) <=> x \in notifier /\ mmof[x] = Home[t]
  BY <1>1 DEF Registered, ProcessTypeOK
<1>10. 1 \in Procs
  BY ProcBoundsAssumption DEF Procs
<1>11. opener' = [opener EXCEPT ![t] = [pc |-> "bug", proc |-> p]]
  BY <1>4, <1>1, KeepOpenerProc DEF open_register_bug, works, grace
<1>12. 
      /\ opener'[t] = [pc |-> "bug", proc |-> p]
      /\ \A n \in Threads : n # t => opener'[n] = opener[n]
      /\ \A n \in Threads : \A d, x : At(n, d, x)' <=> IF n = t THEN d = "bug" /\ x = p ELSE At(n, d, x)
  BY <1>11, <1>10, <1>3, <1>1, OpenerStep
<1>13. user' = user /\ \A v \in Users : \A d, x : Has(v, d, x)' <=> Has(v, d, x)
  BY DEF open_register_bug, works, grace, Has
<1>14. st' = st /\ mmof' = mmof /\ files' = files /\ notifier' = notifier /\ work' = work /\ late' = late /\ mm' = mm /\ mutex' = mutex /\ waits' = waits /\ readers' = readers
  BY DEF open_register_bug, works, grace
<1>15. extra' = extra \cup Registered(Home[t])
  BY <1>4, <1>3, <1>1, <1>2, <1>9 DEF open_register_bug, works, grace, ProcessTypeOK, Hashed
<1>16. \A x \in Mms : Stuck(x) => Stuck(x)'
  BY <1>3, <1>5, <1>2, <1>6, <1>7, <1>8, <1>9, <1>12 DEF Stuck
<1>17. (st \in [Procs -> {"none", "hashed", "unhashed", "nomm", "freed"}] /\ mmof \in [Procs -> Mms] /\ pasid \in [Procs -> Pasids \cup {NoPasid}] /\ files \in [Procs -> Nat] /\ notifier \subseteq Procs)'
  BY <1>1 DEF open_register_bug, works, grace, ProcessTypeOK
<1>18. (work \subseteq Procs \X Kinds /\ mm \in [Mms -> {"live", "unhash", "sync", "evicted", "restored", "cancel", "gone"}] /\ mutex \subseteq Threads /\ waits \in [Threads -> SUBSET Users] /\ readers \in [Mms -> SUBSET Users] /\ user \in [Users -> [pc : {"idle", "found", "held"}, proc : Procs]])'
  BY <1>1 DEF open_register_bug, works, grace, ProcessTypeOK
<1>19. (extra \subseteq notifier /\ late \subseteq work)'
  BY <1>3, <1>2, <1>6, <1>7, <1>8, <1>9, <1>14, <1>15, <1>16, <1>1 DEF ProcessTypeOK, Registered
<1>20. (opener \in [Threads -> [pc : {"idle", "register", "check", "put", "bug"}, proc : Procs]])'
  BY <1>3, <1>1, <1>10 DEF open_register_bug, works, grace, ProcessTypeOK, Idle
<1>21. \A x \in Procs : files[x] \in Nat /\ files'[x] \in Nat
  BY <1>1, <1>17, <1>18, <1>19, <1>20 DEF ProcessTypeOK
<1>22. \A q \in Procs : ref'[q] = Holders(q)' /\ ref'[q] \in Nat
  <2> SUFFICES ASSUME NEW q \in Procs PROVE ref'[q] = Holders(q)' /\ ref'[q] \in Nat
    OBVIOUS
  <2>1. Holders(q) = Terms(q) /\ Holders(q)' = Terms(q)'
    BY HoldersByTerm
  <2>2. ref[q] = Terms(q) /\ ref[q] \in Nat
    BY <2>1 DEF IInv, Counted, ProcessTypeOK
  <2>3. /\ IsFiniteSet(Checks(q)) /\ IsFiniteSet(Helds(q))
        /\ Cardinality(Checks(q)) \in Nat /\ Cardinality(Helds(q)) \in Nat
        /\ Ones(Kept(q)) \in 0 .. 1
    BY TermTypes
  <2>4. Kept(q)' <=> Kept(q)
    BY <1>3, <1>5, <1>2, <1>6, <1>7, <1>8, <1>9, <1>12, <1>13, <1>14, <1>15, <1>16 DEF IInv, Registering, Checking, Putting, Dying, Made, Kept
  <2>5. Ones(Kept(q)') = Ones(Kept(q))
    BY <2>4, OnesOf
  <2>6. Checks(q)' = Checks(q)
    BY <1>3, <1>5, <1>2, <1>6, <1>7, <1>8, <1>9, <1>12, <1>13, <1>14, <1>15, <1>16 DEF Checks
  <2>7. Cardinality(Checks(q)') = Cardinality(Checks(q))
    BY <2>6
  <2>8. Helds(q)' = Helds(q)
    BY <1>3, <1>5, <1>2, <1>6, <1>7, <1>8, <1>9, <1>12, <1>13, <1>14, <1>15, <1>16 DEF Helds
  <2>9. Cardinality(Helds(q)') = Cardinality(Helds(q))
    BY <2>8
  <2>10. ref'[q] = ref[q]
    BY <1>4, <1>1, <2>2 DEF open_register_bug, works, grace, ProcessTypeOK
  <2>20. Ones(Kept(q)') \in 0 .. 1 /\ Cardinality(Checks(q)') \in Nat /\ Cardinality(Helds(q)') \in Nat
    <3>1. (Checks(q)' \subseteq Threads) /\ (Helds(q)' \subseteq Users)
      BY DEF Checks, Helds
    <3>2. IsFiniteSet(Checks(q)') /\ IsFiniteSet(Helds(q)')
      BY <3>1, FS_Subset, ProcSetsAssumption
    <3>3. Ones(Kept(q)') \in 0 .. 1
      BY DEF Ones
    <3> QED BY <3>2, <3>3, FS_CardinalityType
  <2>21. Terms(q) = Ones(Kept(q)) + files[q] + Cardinality(Checks(q)) + Cardinality(Helds(q))
    BY DEF Terms
  <2>22. Terms(q)' = Ones(Kept(q)') + files'[q] + Cardinality(Checks(q)') + Cardinality(Helds(q)')
    BY TermsNext
  <2>23. files'[q] = files[q] /\ files[q] \in Nat /\ files'[q] \in Nat
    BY <1>21, <1>14
  <2> HIDE DEF open_register_bug, IInv
  <2> QED BY <2>1, <2>2, <2>3, <2>5, <2>7, <2>9, <2>10, <2>20, <2>21, <2>22, <2>23
<1>23. (ref \in [Procs -> Nat])'
  BY <1>22, <1>1 DEF open_register_bug, works, grace, ProcessTypeOK
<1>24. ProcessTypeOK'
  BY <1>17, <1>18, <1>19, <1>20, <1>23 DEF ProcessTypeOK
<1>25. Registering'
  BY <1>3, <1>5, <1>2, <1>6, <1>7, <1>8, <1>9, <1>12, <1>13, <1>14, <1>15, <1>16, <1>1, <1>21 DEF IInv, ProcessTypeOK, Registering, Made, Checking
<1>26. Dying'
  BY <1>3, <1>5, <1>2, <1>6, <1>7, <1>8, <1>9, <1>12, <1>13, <1>14, <1>15, <1>16, <1>1, <1>21 DEF IInv, ProcessTypeOK, Dying, Made, Registering, Checking
<1>27. Checking'
  BY <1>3, <1>5, <1>2, <1>6, <1>7, <1>8, <1>9, <1>12, <1>13, <1>14, <1>15, <1>16, <1>1, <1>21 DEF IInv, ProcessTypeOK, Checking, Registering, Dying, Made, HashedIsKept, NotifierKept
<1>28. Putting'
  BY <1>3, <1>5, <1>2, <1>6, <1>7, <1>8, <1>9, <1>12, <1>13, <1>14, <1>15, <1>16, <1>1, <1>21 DEF IInv, ProcessTypeOK, Putting, Registering, Made
<1>29. ExtraIsStuck'
  BY <1>3, <1>5, <1>2, <1>6, <1>7, <1>8, <1>9, <1>12, <1>13, <1>14, <1>15, <1>16, <1>1, <1>21 DEF IInv, ProcessTypeOK, ExtraIsStuck, Registered, Stuck
<1>30. HashedIsKept'
  BY <1>3, <1>5, <1>2, <1>6, <1>7, <1>8, <1>9, <1>12, <1>13, <1>14, <1>15, <1>16, <1>1, <1>21 DEF IInv, ProcessTypeOK, HashedIsKept, Kept, Registering, Checking, Made
<1>31. NotifierKept'
  BY <1>3, <1>5, <1>2, <1>6, <1>7, <1>8, <1>9, <1>12, <1>13, <1>14, <1>15, <1>16, <1>1, <1>21 DEF IInv, ProcessTypeOK, NotifierKept, Putting, Registering, Made, Checking, ExtraIsStuck
<1>32. FoundIsAwaited'
  BY <1>3, <1>5, <1>2, <1>6, <1>7, <1>8, <1>9, <1>12, <1>13, <1>14, <1>15, <1>16, <1>1, <1>21 DEF IInv, ProcessTypeOK, FoundIsAwaited, Putting, Registering, Made, HashedIsKept, Kept, NotifierKept
<1>33. WorkIsAwaited'
  BY <1>3, <1>5, <1>2, <1>6, <1>7, <1>8, <1>9, <1>12, <1>13, <1>14, <1>15, <1>16, <1>1, <1>21 DEF IInv, ProcessTypeOK, WorkIsAwaited, ToCancel, NotifierKept, Registering, Made, Putting
<1>34. Unowned'
  BY <1>3, <1>5, <1>2, <1>6, <1>7, <1>8, <1>9, <1>12, <1>13, <1>14, <1>15, <1>16, <1>1, <1>21 DEF IInv, ProcessTypeOK, Unowned, FoundIsAwaited, Checking, Registering, Made
<1> QED BY <1>24, <1>22, <1>25, <1>26, <1>27, <1>28, <1>29, <1>30, <1>31, <1>32, <1>33, <1>34 DEF IInv, Counted

LEMMA OpenRegisterFailsInv ==
  ASSUME IInv, ~EarlyLookups, NEW t \in Threads, open_register_fails(t)
  PROVE  IInv'
<1> DEFINE p == opener[t].proc
<1>1. ProcessTypeOK
  BY DEF IInv
<1>2. \A o \in Threads : Home[o] \in Mms
  BY ProcSetsAssumption
<1>3. p \in Procs
  BY DEF IInv, ProcessTypeOK
<1>4. p = opener[t].proc
  OBVIOUS
<1> HIDE DEF p
<1>5. At(t, "register", p) /\ \A u \in Users : user[u].pc = "idle" \/ user[u].proc # p
  BY <1>4, <1>1, <1>2 DEF open_register_fails, works, grace, At, Has, Hashed, Registered, ProcessTypeOK
<1>6. \A d, x : At(t, d, x) => d = "register" /\ x = p
  BY <1>5 DEF At
<1>7. Made(t, p) /\ mm[Home[t]] = "live"
  BY <1>3, <1>5 DEF IInv, Registering
<1>8. \A o \in Threads : \A x \in Procs : (At(o, "register", x) \/ At(o, "bug", x)) => o = t
  BY <1>7 DEF IInv, Registering, Dying, Made
<1>9. \A v \in Users : ~Has(v, "found", p) /\ ~Has(v, "held", p)
  BY <1>5 DEF Has
<1>10. 1 \in Procs
  BY ProcBoundsAssumption DEF Procs
<1>11. opener' = [opener EXCEPT ![t] = [pc |-> "idle", proc |-> 1]]
  BY DEF open_register_fails, works, grace, Idle
<1>12. 
      /\ opener'[t] = [pc |-> "idle", proc |-> 1]
      /\ \A n \in Threads : n # t => opener'[n] = opener[n]
      /\ \A n \in Threads : \A d, x : At(n, d, x)' <=> IF n = t THEN d = "idle" /\ x = 1 ELSE At(n, d, x)
  BY <1>11, <1>10, <1>3, <1>1, OpenerStep
<1>13. user' = user /\ \A v \in Users : \A d, x : Has(v, d, x)' <=> Has(v, d, x)
  BY DEF open_register_fails, works, grace, Has
<1>14. mmof' = mmof /\ files' = files /\ notifier' = notifier /\ extra' = extra /\ work' = work /\ late' = late /\ mm' = mm /\ waits' = waits /\ readers' = readers
  BY DEF open_register_fails, works, grace
<1>15. \A x \in Procs : st'[x] = IF x = p THEN "freed" ELSE st[x]
  BY <1>4, <1>3, <1>1, <1>2 DEF open_register_fails, works, grace, ProcessTypeOK, Hashed
<1>16. mutex' = {}
  BY <1>4, <1>3, <1>1, <1>2 DEF open_register_fails, works, grace, ProcessTypeOK, Hashed
<1>17. \A x \in Mms : Stuck(x) => Stuck(x)'
  BY <1>3, <1>5, <1>2, <1>6, <1>7, <1>8, <1>9, <1>12 DEF Stuck
<1>18. (mmof \in [Procs -> Mms] /\ pasid \in [Procs -> Pasids \cup {NoPasid}] /\ files \in [Procs -> Nat] /\ notifier \subseteq Procs)'
  BY <1>1 DEF open_register_fails, works, grace, ProcessTypeOK
<1>19. (work \subseteq Procs \X Kinds /\ mm \in [Mms -> {"live", "unhash", "sync", "evicted", "restored", "cancel", "gone"}] /\ waits \in [Threads -> SUBSET Users] /\ readers \in [Mms -> SUBSET Users] /\ user \in [Users -> [pc : {"idle", "found", "held"}, proc : Procs]])'
  BY <1>1 DEF open_register_fails, works, grace, ProcessTypeOK
<1>20. (st \in [Procs -> {"none", "hashed", "unhashed", "nomm", "freed"}])'
  BY <1>3, <1>1, <1>2 DEF open_register_fails, works, grace, ProcessTypeOK, Reading
<1>21. (mutex \subseteq Threads)'
  BY <1>3, <1>1, <1>2 DEF open_register_fails, works, grace, ProcessTypeOK, Reading
<1>22. (extra \subseteq notifier /\ late \subseteq work)'
  BY <1>3, <1>2, <1>6, <1>7, <1>8, <1>9, <1>14, <1>15, <1>16, <1>17, <1>1 DEF ProcessTypeOK, Registered
<1>23. (opener \in [Threads -> [pc : {"idle", "register", "check", "put", "bug"}, proc : Procs]])'
  BY <1>3, <1>1, <1>10 DEF open_register_fails, works, grace, ProcessTypeOK, Idle
<1>24. \A x \in Procs : files[x] \in Nat /\ files'[x] \in Nat
  BY <1>1, <1>18, <1>19, <1>20, <1>21, <1>22, <1>23 DEF ProcessTypeOK
<1>25. \A q \in Procs : ref'[q] = Holders(q)' /\ ref'[q] \in Nat
  <2> SUFFICES ASSUME NEW q \in Procs PROVE ref'[q] = Holders(q)' /\ ref'[q] \in Nat
    OBVIOUS
  <2>1. Holders(q) = Terms(q) /\ Holders(q)' = Terms(q)'
    BY HoldersByTerm
  <2>2. ref[q] = Terms(q) /\ ref[q] \in Nat
    BY <2>1 DEF IInv, Counted, ProcessTypeOK
  <2>3. /\ IsFiniteSet(Checks(q)) /\ IsFiniteSet(Helds(q))
        /\ Cardinality(Checks(q)) \in Nat /\ Cardinality(Helds(q)) \in Nat
        /\ Ones(Kept(q)) \in 0 .. 1
    BY TermTypes
  <2>4. IF q = p THEN ~Kept(q)' /\ Kept(q) ELSE Kept(q)' <=> Kept(q)
    BY <1>3, <1>5, <1>2, <1>6, <1>7, <1>8, <1>9, <1>12, <1>13, <1>14, <1>15, <1>16, <1>17 DEF IInv, Registering, Checking, Putting, Dying, Made, NotifierKept, Kept
  <2>5. Ones(Kept(q)') = Ones(Kept(q)) - (IF q = p THEN 1 ELSE 0)
    BY <2>4 DEF Ones
  <2>6. Checks(q)' = Checks(q)
    BY <1>3, <1>5, <1>2, <1>6, <1>7, <1>8, <1>9, <1>12, <1>13, <1>14, <1>15, <1>16, <1>17 DEF Checks
  <2>7. Cardinality(Checks(q)') = Cardinality(Checks(q))
    BY <2>6
  <2>8. Helds(q)' = Helds(q)
    BY <1>3, <1>5, <1>2, <1>6, <1>7, <1>8, <1>9, <1>12, <1>13, <1>14, <1>15, <1>16, <1>17 DEF Helds
  <2>9. Cardinality(Helds(q)') = Cardinality(Helds(q))
    BY <2>8
  <2>10. ref'[q] = IF q = p THEN 0 ELSE ref[q]
    BY <1>4, <1>1, <2>2 DEF open_register_fails, works, grace, ProcessTypeOK
  <2>11. q = p => files[q] = 0 /\ Checks(q) = {} /\ Helds(q) = {}
    BY <1>3, <1>5, <1>2, <1>6, <1>7, <1>8, <1>9, <1>12, <1>13, <1>14, <1>15, <1>16, <1>17 DEF IInv, Registering, Checking, Putting, Dying, Made, Unowned, Checks, Helds, Has
  <2>12. q = p => Ones(Kept(q)) = 1
    BY <2>4 DEF Ones
  <2>13. Cardinality({}) = 0
    BY FS_EmptySet
  <2>14. q = p => Terms(q)' = 0
    BY <2>5, <2>7, <2>9, <2>11, <2>12, <2>13, <1>14, TermsNext
  <2>20. Ones(Kept(q)') \in 0 .. 1 /\ Cardinality(Checks(q)') \in Nat /\ Cardinality(Helds(q)') \in Nat
    <3>1. (Checks(q)' \subseteq Threads) /\ (Helds(q)' \subseteq Users)
      BY DEF Checks, Helds
    <3>2. IsFiniteSet(Checks(q)') /\ IsFiniteSet(Helds(q)')
      BY <3>1, FS_Subset, ProcSetsAssumption
    <3>3. Ones(Kept(q)') \in 0 .. 1
      BY DEF Ones
    <3> QED BY <3>2, <3>3, FS_CardinalityType
  <2>21. Terms(q) = Ones(Kept(q)) + files[q] + Cardinality(Checks(q)) + Cardinality(Helds(q))
    BY DEF Terms
  <2>22. Terms(q)' = Ones(Kept(q)') + files'[q] + Cardinality(Checks(q)') + Cardinality(Helds(q)')
    BY TermsNext
  <2>23. files'[q] = files[q] /\ files[q] \in Nat /\ files'[q] \in Nat
    BY <1>24, <1>14
  <2> HIDE DEF open_register_fails, IInv
  <2> QED BY <2>14, <2>1, <2>2, <2>3, <2>5, <2>7, <2>9, <2>10, <2>20, <2>21, <2>22, <2>23
<1>26. (ref \in [Procs -> Nat])'
  BY <1>25, <1>1 DEF open_register_fails, works, grace, ProcessTypeOK
<1>27. ProcessTypeOK'
  BY <1>18, <1>19, <1>20, <1>21, <1>22, <1>23, <1>26 DEF ProcessTypeOK
<1>28. Registering'
  BY <1>3, <1>5, <1>2, <1>6, <1>7, <1>8, <1>9, <1>12, <1>13, <1>14, <1>15, <1>16, <1>17, <1>1, <1>24 DEF IInv, ProcessTypeOK, Registering, Made, Checking
<1>29. Dying'
  BY <1>3, <1>5, <1>2, <1>6, <1>7, <1>8, <1>9, <1>12, <1>13, <1>14, <1>15, <1>16, <1>17, <1>1, <1>24 DEF IInv, ProcessTypeOK, Dying, Made, Registering, Checking
<1>30. Checking'
  BY <1>3, <1>5, <1>2, <1>6, <1>7, <1>8, <1>9, <1>12, <1>13, <1>14, <1>15, <1>16, <1>17, <1>1, <1>24 DEF IInv, ProcessTypeOK, Checking, Registering, Dying, Made, HashedIsKept, NotifierKept
<1>31. Putting'
  BY <1>3, <1>5, <1>2, <1>6, <1>7, <1>8, <1>9, <1>12, <1>13, <1>14, <1>15, <1>16, <1>17, <1>1, <1>24 DEF IInv, ProcessTypeOK, Putting, Registering, Made
<1>32. ExtraIsStuck'
  BY <1>3, <1>5, <1>2, <1>6, <1>7, <1>8, <1>9, <1>12, <1>13, <1>14, <1>15, <1>16, <1>17, <1>1, <1>24 DEF IInv, ProcessTypeOK, ExtraIsStuck, Registered, Stuck
<1>33. HashedIsKept'
  BY <1>3, <1>5, <1>2, <1>6, <1>7, <1>8, <1>9, <1>12, <1>13, <1>14, <1>15, <1>16, <1>17, <1>1, <1>24 DEF IInv, ProcessTypeOK, HashedIsKept, Kept, Registering, Checking, Made
<1>34. NotifierKept'
  BY <1>3, <1>5, <1>2, <1>6, <1>7, <1>8, <1>9, <1>12, <1>13, <1>14, <1>15, <1>16, <1>17, <1>1, <1>24 DEF IInv, ProcessTypeOK, NotifierKept, Made
<1>35. FoundIsAwaited'
  BY <1>3, <1>5, <1>2, <1>6, <1>7, <1>8, <1>9, <1>12, <1>13, <1>14, <1>15, <1>16, <1>17, <1>1, <1>24 DEF IInv, ProcessTypeOK, FoundIsAwaited, Putting, Registering, Made, HashedIsKept, Kept, NotifierKept
<1>36. WorkIsAwaited'
  BY <1>3, <1>5, <1>2, <1>6, <1>7, <1>8, <1>9, <1>12, <1>13, <1>14, <1>15, <1>16, <1>17, <1>1, <1>24 DEF IInv, ProcessTypeOK, WorkIsAwaited, ToCancel, NotifierKept, Registering, Made, Putting
<1>37. Unowned'
  BY <1>3, <1>5, <1>2, <1>6, <1>7, <1>8, <1>9, <1>12, <1>13, <1>14, <1>15, <1>16, <1>17, <1>1, <1>24 DEF IInv, ProcessTypeOK, Unowned, FoundIsAwaited, Checking, Registering, Made
<1> QED BY <1>27, <1>25, <1>28, <1>29, <1>30, <1>31, <1>32, <1>33, <1>34, <1>35, <1>36, <1>37 DEF IInv, Counted

LEMMA OpenCwsrFailsInv ==
  ASSUME IInv, ~EarlyLookups, NEW t \in Threads, open_cwsr_fails(t)
  PROVE  IInv'
<1> DEFINE p == opener[t].proc
<1>1. ProcessTypeOK
  BY DEF IInv
<1>2. \A o \in Threads : Home[o] \in Mms
  BY ProcSetsAssumption
<1>3. p \in Procs
  BY DEF IInv, ProcessTypeOK
<1>4. p = opener[t].proc
  OBVIOUS
<1> HIDE DEF p
<1>5. At(t, "register", p)
  BY <1>4, <1>1, <1>2 DEF open_cwsr_fails, works, grace, At, Has, Hashed, Registered, ProcessTypeOK
<1>6. \A d, x : At(t, d, x) => d = "register" /\ x = p
  BY <1>5 DEF At
<1>7. Made(t, p) /\ mm[Home[t]] = "live"
  BY <1>3, <1>5 DEF IInv, Registering
<1>8. \A o \in Threads : \A x \in Procs : (At(o, "register", x) \/ At(o, "bug", x)) => o = t
  BY <1>7 DEF IInv, Registering, Dying, Made
<1>9. 1 \in Procs
  BY ProcBoundsAssumption DEF Procs
<1>10. opener' = [opener EXCEPT ![t] = [pc |-> "put", proc |-> p]]
  BY <1>4, <1>1, KeepOpenerProc DEF open_cwsr_fails, works, grace
<1>11. 
      /\ opener'[t] = [pc |-> "put", proc |-> p]
      /\ \A n \in Threads : n # t => opener'[n] = opener[n]
      /\ \A n \in Threads : \A d, x : At(n, d, x)' <=> IF n = t THEN d = "put" /\ x = p ELSE At(n, d, x)
  BY <1>10, <1>9, <1>3, <1>1, OpenerStep
<1>12. user' = user /\ \A v \in Users : \A d, x : Has(v, d, x)' <=> Has(v, d, x)
  BY DEF open_cwsr_fails, works, grace, Has
<1>13. mmof' = mmof /\ files' = files /\ extra' = extra /\ work' = work /\ late' = late /\ mm' = mm /\ readers' = readers
  BY DEF open_cwsr_fails, works, grace
<1>14. \A x \in Procs : st'[x] = IF x = p THEN "unhashed" ELSE st[x]
  BY <1>4, <1>3, <1>1, <1>2 DEF open_cwsr_fails, works, grace, ProcessTypeOK, Hashed
<1>15. notifier' = notifier \cup {p}
  BY <1>4, <1>3, <1>1, <1>2 DEF open_cwsr_fails, works, grace, ProcessTypeOK, Hashed
<1>16. mutex' = {}
  BY <1>4, <1>3, <1>1, <1>2 DEF open_cwsr_fails, works, grace, ProcessTypeOK, Hashed
<1>17. \A o \in Threads : waits'[o] = IF o = t THEN Reading ELSE waits[o]
  BY <1>4, <1>3, <1>1, <1>2 DEF open_cwsr_fails, works, grace, ProcessTypeOK, Hashed
<1>18. \A v \in Users : \A x : Has(v, "found", x) => v \in Reading
  BY DEF Has, Reading
<1>19. \A x \in Mms : Stuck(x) => Stuck(x)'
  BY <1>3, <1>5, <1>2, <1>6, <1>7, <1>8, <1>11 DEF Stuck
<1>20. (mmof \in [Procs -> Mms] /\ pasid \in [Procs -> Pasids \cup {NoPasid}] /\ files \in [Procs -> Nat])'
  BY <1>1 DEF open_cwsr_fails, works, grace, ProcessTypeOK
<1>21. (work \subseteq Procs \X Kinds /\ mm \in [Mms -> {"live", "unhash", "sync", "evicted", "restored", "cancel", "gone"}] /\ readers \in [Mms -> SUBSET Users] /\ user \in [Users -> [pc : {"idle", "found", "held"}, proc : Procs]])'
  BY <1>1 DEF open_cwsr_fails, works, grace, ProcessTypeOK
<1>22. (st \in [Procs -> {"none", "hashed", "unhashed", "nomm", "freed"}])'
  BY <1>3, <1>1, <1>2 DEF open_cwsr_fails, works, grace, ProcessTypeOK, Reading
<1>23. (notifier \subseteq Procs)'
  BY <1>3, <1>1, <1>2 DEF open_cwsr_fails, works, grace, ProcessTypeOK, Reading
<1>24. (mutex \subseteq Threads)'
  BY <1>3, <1>1, <1>2 DEF open_cwsr_fails, works, grace, ProcessTypeOK, Reading
<1>25. (waits \in [Threads -> SUBSET Users])'
  BY <1>3, <1>1, <1>2 DEF open_cwsr_fails, works, grace, ProcessTypeOK, Reading
<1>26. (extra \subseteq notifier /\ late \subseteq work)'
  BY <1>3, <1>2, <1>6, <1>7, <1>8, <1>13, <1>14, <1>15, <1>16, <1>17, <1>18, <1>19, <1>1 DEF ProcessTypeOK, Registered
<1>27. (opener \in [Threads -> [pc : {"idle", "register", "check", "put", "bug"}, proc : Procs]])'
  BY <1>3, <1>1, <1>9 DEF open_cwsr_fails, works, grace, ProcessTypeOK, Idle
<1>28. \A x \in Procs : files[x] \in Nat /\ files'[x] \in Nat
  BY <1>1, <1>20, <1>21, <1>22, <1>23, <1>24, <1>25, <1>26, <1>27 DEF ProcessTypeOK
<1>29. \A q \in Procs : ref'[q] = Holders(q)' /\ ref'[q] \in Nat
  <2> SUFFICES ASSUME NEW q \in Procs PROVE ref'[q] = Holders(q)' /\ ref'[q] \in Nat
    OBVIOUS
  <2>1. Holders(q) = Terms(q) /\ Holders(q)' = Terms(q)'
    BY HoldersByTerm
  <2>2. ref[q] = Terms(q) /\ ref[q] \in Nat
    BY <2>1 DEF IInv, Counted, ProcessTypeOK
  <2>3. /\ IsFiniteSet(Checks(q)) /\ IsFiniteSet(Helds(q))
        /\ Cardinality(Checks(q)) \in Nat /\ Cardinality(Helds(q)) \in Nat
        /\ Ones(Kept(q)) \in 0 .. 1
    BY TermTypes
  <2>4. Kept(q)' <=> Kept(q)
    BY <1>3, <1>5, <1>2, <1>6, <1>7, <1>8, <1>11, <1>12, <1>13, <1>14, <1>15, <1>16, <1>17, <1>18, <1>19 DEF IInv, Registering, Checking, Putting, Dying, Made, Kept
  <2>5. Ones(Kept(q)') = Ones(Kept(q))
    BY <2>4, OnesOf
  <2>6. Checks(q)' = Checks(q)
    BY <1>3, <1>5, <1>2, <1>6, <1>7, <1>8, <1>11, <1>12, <1>13, <1>14, <1>15, <1>16, <1>17, <1>18, <1>19 DEF Checks
  <2>7. Cardinality(Checks(q)') = Cardinality(Checks(q))
    BY <2>6
  <2>8. Helds(q)' = Helds(q)
    BY <1>3, <1>5, <1>2, <1>6, <1>7, <1>8, <1>11, <1>12, <1>13, <1>14, <1>15, <1>16, <1>17, <1>18, <1>19 DEF Helds
  <2>9. Cardinality(Helds(q)') = Cardinality(Helds(q))
    BY <2>8
  <2>10. ref'[q] = ref[q]
    BY <1>4, <1>1, <2>2 DEF open_cwsr_fails, works, grace, ProcessTypeOK
  <2>20. Ones(Kept(q)') \in 0 .. 1 /\ Cardinality(Checks(q)') \in Nat /\ Cardinality(Helds(q)') \in Nat
    <3>1. (Checks(q)' \subseteq Threads) /\ (Helds(q)' \subseteq Users)
      BY DEF Checks, Helds
    <3>2. IsFiniteSet(Checks(q)') /\ IsFiniteSet(Helds(q)')
      BY <3>1, FS_Subset, ProcSetsAssumption
    <3>3. Ones(Kept(q)') \in 0 .. 1
      BY DEF Ones
    <3> QED BY <3>2, <3>3, FS_CardinalityType
  <2>21. Terms(q) = Ones(Kept(q)) + files[q] + Cardinality(Checks(q)) + Cardinality(Helds(q))
    BY DEF Terms
  <2>22. Terms(q)' = Ones(Kept(q)') + files'[q] + Cardinality(Checks(q)') + Cardinality(Helds(q)')
    BY TermsNext
  <2>23. files'[q] = files[q] /\ files[q] \in Nat /\ files'[q] \in Nat
    BY <1>28, <1>13
  <2> HIDE DEF open_cwsr_fails, IInv
  <2> QED BY <2>1, <2>2, <2>3, <2>5, <2>7, <2>9, <2>10, <2>20, <2>21, <2>22, <2>23
<1>30. (ref \in [Procs -> Nat])'
  BY <1>29, <1>1 DEF open_cwsr_fails, works, grace, ProcessTypeOK
<1>31. ProcessTypeOK'
  BY <1>20, <1>21, <1>22, <1>23, <1>24, <1>25, <1>26, <1>27, <1>30 DEF ProcessTypeOK
<1>32. Registering'
  BY <1>3, <1>5, <1>2, <1>6, <1>7, <1>8, <1>11, <1>12, <1>13, <1>14, <1>15, <1>16, <1>17, <1>18, <1>19, <1>1, <1>28 DEF IInv, ProcessTypeOK, Registering, Made, Checking
<1>33. Dying'
  BY <1>3, <1>5, <1>2, <1>6, <1>7, <1>8, <1>11, <1>12, <1>13, <1>14, <1>15, <1>16, <1>17, <1>18, <1>19, <1>1, <1>28 DEF IInv, ProcessTypeOK, Dying, Made, Registering, Checking
<1>34. Checking'
  BY <1>3, <1>5, <1>2, <1>6, <1>7, <1>8, <1>11, <1>12, <1>13, <1>14, <1>15, <1>16, <1>17, <1>18, <1>19, <1>1, <1>28 DEF IInv, ProcessTypeOK, Checking, Registering, Dying, Made, HashedIsKept, NotifierKept
<1>35. Putting'
  BY <1>3, <1>5, <1>2, <1>6, <1>7, <1>8, <1>11, <1>12, <1>13, <1>14, <1>15, <1>16, <1>17, <1>18, <1>19, <1>1, <1>28 DEF IInv, ProcessTypeOK, Putting, Registering, Made
<1>36. ExtraIsStuck'
  BY <1>3, <1>5, <1>2, <1>6, <1>7, <1>8, <1>11, <1>12, <1>13, <1>14, <1>15, <1>16, <1>17, <1>18, <1>19, <1>1, <1>28 DEF IInv, ProcessTypeOK, ExtraIsStuck, Registered, Stuck
<1>37. HashedIsKept'
  BY <1>3, <1>5, <1>2, <1>6, <1>7, <1>8, <1>11, <1>12, <1>13, <1>14, <1>15, <1>16, <1>17, <1>18, <1>19, <1>1, <1>28 DEF IInv, ProcessTypeOK, HashedIsKept, Kept, Registering, Checking, Made
<1>38. NotifierKept'
  BY <1>3, <1>5, <1>2, <1>6, <1>7, <1>8, <1>11, <1>12, <1>13, <1>14, <1>15, <1>16, <1>17, <1>18, <1>19, <1>1, <1>28 DEF IInv, ProcessTypeOK, NotifierKept, Putting, Registering, Made, Checking, ExtraIsStuck
<1>39. FoundIsAwaited'
  <2> SUFFICES ASSUME NEW v \in Users, NEW q \in Procs, NEW n \in Mms, Has(v, "found", q)', mmof'[q] = n
               PROVE  \/ st'[q] = "hashed"
                      \/ /\ st'[q] = "unhashed" /\ q \in notifier'
                         /\ \/ mm'[n] = "sync" /\ v \in readers'[n]
                            \/ \E o \in Threads : At(o, "put", q)' /\ v \in waits'[o]
    BY DEF FoundIsAwaited
  <2>1. Has(v, "found", q) /\ v \in Reading /\ mmof[q] = n
    BY <1>3, <1>5, <1>2, <1>6, <1>7, <1>8, <1>11, <1>12, <1>13, <1>14, <1>15, <1>16, <1>17, <1>18, <1>19
  <2>2. CASE q = p
    BY <2>1, <2>2, <1>3, <1>5, <1>2, <1>6, <1>7, <1>8, <1>11, <1>12, <1>13, <1>14, <1>15, <1>16, <1>17, <1>18, <1>19
  <2>3. CASE q # p
    <3>1. \/ st[q] = "hashed"
          \/ /\ st[q] = "unhashed" /\ q \in notifier
             /\ \/ mm[n] = "sync" /\ v \in readers[n]
                \/ \E o \in Threads : At(o, "put", q) /\ v \in waits[o]
      BY <2>1 DEF IInv, FoundIsAwaited
    <3>2. \A o \in Threads : At(o, "put", q) => o # t /\ At(o, "put", q)' /\ waits'[o] = waits[o]
      BY <2>3, <1>3, <1>5, <1>2, <1>6, <1>7, <1>8, <1>11, <1>12, <1>13, <1>14, <1>15, <1>16, <1>17, <1>18, <1>19
    <3>3. st'[q] = st[q] /\ (q \in notifier => q \in notifier') /\ mm' = mm /\ readers' = readers
      BY <2>3, <1>3, <1>5, <1>2, <1>6, <1>7, <1>8, <1>11, <1>12, <1>13, <1>14, <1>15, <1>16, <1>17, <1>18, <1>19
    <3> QED BY <3>1, <3>2, <3>3
  <2> QED BY <2>2, <2>3
<1>40. WorkIsAwaited'
  BY <1>3, <1>5, <1>2, <1>6, <1>7, <1>8, <1>11, <1>12, <1>13, <1>14, <1>15, <1>16, <1>17, <1>18, <1>19, <1>1, <1>28 DEF IInv, ProcessTypeOK, WorkIsAwaited, ToCancel, NotifierKept, Registering, Made, Putting
<1>41. Unowned'
  BY <1>3, <1>5, <1>2, <1>6, <1>7, <1>8, <1>11, <1>12, <1>13, <1>14, <1>15, <1>16, <1>17, <1>18, <1>19, <1>1, <1>28 DEF IInv, ProcessTypeOK, Unowned, FoundIsAwaited, Checking, Registering, Made
<1> QED BY <1>31, <1>29, <1>32, <1>33, <1>34, <1>35, <1>36, <1>37, <1>38, <1>39, <1>40, <1>41 DEF IInv, Counted

LEMMA OpenPutInv ==
  ASSUME IInv, ~EarlyLookups, NEW t \in Threads, open_put(t)
  PROVE  IInv'
<1> DEFINE p == opener[t].proc
<1>1. ProcessTypeOK
  BY DEF IInv
<1>2. \A o \in Threads : Home[o] \in Mms
  BY ProcSetsAssumption
<1>3. p \in Procs
  BY DEF IInv, ProcessTypeOK
<1>4. p = opener[t].proc
  OBVIOUS
<1> HIDE DEF p
<1>5. At(t, "put", p) /\ waits[t] = {}
  BY <1>4, <1>1, <1>2 DEF open_put, works, grace, At, Has, Hashed, Registered, ProcessTypeOK
<1>6. \A d, x : At(t, d, x) => d = "put" /\ x = p
  BY <1>5 DEF At
<1>7. 1 \in Procs
  BY ProcBoundsAssumption DEF Procs
<1>8. opener' = [opener EXCEPT ![t] = [pc |-> "idle", proc |-> 1]]
  BY DEF open_put, works, grace, Idle
<1>9. 
      /\ opener'[t] = [pc |-> "idle", proc |-> 1]
      /\ \A n \in Threads : n # t => opener'[n] = opener[n]
      /\ \A n \in Threads : \A d, x : At(n, d, x)' <=> IF n = t THEN d = "idle" /\ x = 1 ELSE At(n, d, x)
  BY <1>8, <1>7, <1>3, <1>1, OpenerStep
<1>10. user' = user /\ \A v \in Users : \A d, x : Has(v, d, x)' <=> Has(v, d, x)
  BY DEF open_put, works, grace, Has
<1>11. st' = st /\ mmof' = mmof /\ files' = files /\ work' = work /\ late' = late /\ mm' = mm /\ mutex' = mutex /\ waits' = waits /\ readers' = readers
  BY DEF open_put, works, grace
<1>12. notifier' = IF p \in extra THEN notifier ELSE notifier \ {p}
  BY <1>4, <1>3, <1>1, <1>2 DEF open_put, works, grace, ProcessTypeOK, Hashed
<1>13. extra' = extra \ {p}
  BY <1>4, <1>3, <1>1, <1>2 DEF open_put, works, grace, ProcessTypeOK, Hashed
<1>14. \A x \in Mms : Stuck(x) => Stuck(x)'
  BY <1>3, <1>5, <1>2, <1>6, <1>9 DEF Stuck
<1>15. (st \in [Procs -> {"none", "hashed", "unhashed", "nomm", "freed"}] /\ mmof \in [Procs -> Mms] /\ pasid \in [Procs -> Pasids \cup {NoPasid}] /\ files \in [Procs -> Nat] /\ work \subseteq Procs \X Kinds)'
  BY <1>1 DEF open_put, works, grace, ProcessTypeOK
<1>16. (mm \in [Mms -> {"live", "unhash", "sync", "evicted", "restored", "cancel", "gone"}] /\ mutex \subseteq Threads /\ waits \in [Threads -> SUBSET Users] /\ readers \in [Mms -> SUBSET Users] /\ user \in [Users -> [pc : {"idle", "found", "held"}, proc : Procs]])'
  BY <1>1 DEF open_put, works, grace, ProcessTypeOK
<1>17. (notifier \subseteq Procs)'
  BY <1>3, <1>1, <1>2 DEF open_put, works, grace, ProcessTypeOK, Reading
<1>18. (extra \subseteq notifier /\ late \subseteq work)'
  BY <1>3, <1>2, <1>6, <1>11, <1>12, <1>13, <1>14, <1>1 DEF ProcessTypeOK, Registered
<1>19. (opener \in [Threads -> [pc : {"idle", "register", "check", "put", "bug"}, proc : Procs]])'
  BY <1>3, <1>1, <1>7 DEF open_put, works, grace, ProcessTypeOK, Idle
<1>20. \A x \in Procs : files[x] \in Nat /\ files'[x] \in Nat
  BY <1>1, <1>15, <1>16, <1>17, <1>18, <1>19 DEF ProcessTypeOK
<1>21. \A q \in Procs : ref'[q] = Holders(q)' /\ ref'[q] \in Nat
  <2> SUFFICES ASSUME NEW q \in Procs PROVE ref'[q] = Holders(q)' /\ ref'[q] \in Nat
    OBVIOUS
  <2>1. Holders(q) = Terms(q) /\ Holders(q)' = Terms(q)'
    BY HoldersByTerm
  <2>2. ref[q] = Terms(q) /\ ref[q] \in Nat
    BY <2>1 DEF IInv, Counted, ProcessTypeOK
  <2>3. /\ IsFiniteSet(Checks(q)) /\ IsFiniteSet(Helds(q))
        /\ Cardinality(Checks(q)) \in Nat /\ Cardinality(Helds(q)) \in Nat
        /\ Ones(Kept(q)) \in 0 .. 1
    BY TermTypes
  <2>4. IF q = p /\ p \notin extra THEN ~Kept(q)' /\ Kept(q) ELSE Kept(q)' <=> Kept(q)
    BY <1>3, <1>5, <1>2, <1>6, <1>9, <1>10, <1>11, <1>12, <1>13, <1>14 DEF IInv, Registering, Checking, Putting, Dying, Made, NotifierKept, Kept
  <2>5. Ones(Kept(q)') = Ones(Kept(q)) - (IF q = p /\ p \notin extra THEN 1 ELSE 0)
    BY <2>4 DEF Ones
  <2>6. Checks(q)' = Checks(q)
    BY <1>3, <1>5, <1>2, <1>6, <1>9, <1>10, <1>11, <1>12, <1>13, <1>14 DEF Checks
  <2>7. Cardinality(Checks(q)') = Cardinality(Checks(q))
    BY <2>6
  <2>8. Helds(q)' = Helds(q)
    BY <1>3, <1>5, <1>2, <1>6, <1>9, <1>10, <1>11, <1>12, <1>13, <1>14 DEF Helds
  <2>9. Cardinality(Helds(q)') = Cardinality(Helds(q))
    BY <2>8
  <2>10. ref'[q] = ref[q] - (IF q = p /\ p \notin extra THEN 1 ELSE 0)
    BY <1>4, <1>1, <2>2 DEF open_put, works, grace, ProcessTypeOK
  <2>20. Ones(Kept(q)') \in 0 .. 1 /\ Cardinality(Checks(q)') \in Nat /\ Cardinality(Helds(q)') \in Nat
    <3>1. (Checks(q)' \subseteq Threads) /\ (Helds(q)' \subseteq Users)
      BY DEF Checks, Helds
    <3>2. IsFiniteSet(Checks(q)') /\ IsFiniteSet(Helds(q)')
      BY <3>1, FS_Subset, ProcSetsAssumption
    <3>3. Ones(Kept(q)') \in 0 .. 1
      BY DEF Ones
    <3> QED BY <3>2, <3>3, FS_CardinalityType
  <2>21. Terms(q) = Ones(Kept(q)) + files[q] + Cardinality(Checks(q)) + Cardinality(Helds(q))
    BY DEF Terms
  <2>22. Terms(q)' = Ones(Kept(q)') + files'[q] + Cardinality(Checks(q)') + Cardinality(Helds(q)')
    BY TermsNext
  <2>23. files'[q] = files[q] /\ files[q] \in Nat /\ files'[q] \in Nat
    BY <1>20, <1>11
  <2> HIDE DEF open_put, IInv
  <2> QED BY <2>1, <2>2, <2>3, <2>5, <2>7, <2>9, <2>10, <2>20, <2>21, <2>22, <2>23
<1>22. (ref \in [Procs -> Nat])'
  BY <1>21, <1>1 DEF open_put, works, grace, ProcessTypeOK
<1>23. ProcessTypeOK'
  BY <1>15, <1>16, <1>17, <1>18, <1>19, <1>22 DEF ProcessTypeOK
<1>24. Registering'
  BY <1>3, <1>5, <1>2, <1>6, <1>9, <1>10, <1>11, <1>12, <1>13, <1>14, <1>1, <1>20 DEF IInv, ProcessTypeOK, Registering, Made, Checking
<1>25. Dying'
  BY <1>3, <1>5, <1>2, <1>6, <1>9, <1>10, <1>11, <1>12, <1>13, <1>14, <1>1, <1>20 DEF IInv, ProcessTypeOK, Dying, Made, Registering, Checking
<1>26. Checking'
  BY <1>3, <1>5, <1>2, <1>6, <1>9, <1>10, <1>11, <1>12, <1>13, <1>14, <1>1, <1>20 DEF IInv, ProcessTypeOK, Checking, Putting
<1>27. Putting'
  BY <1>3, <1>5, <1>2, <1>6, <1>9, <1>10, <1>11, <1>12, <1>13, <1>14, <1>1, <1>20 DEF IInv, ProcessTypeOK, Putting, Registering, Made
<1>28. ExtraIsStuck'
  BY <1>3, <1>5, <1>2, <1>6, <1>9, <1>10, <1>11, <1>12, <1>13, <1>14, <1>1, <1>20 DEF IInv, ProcessTypeOK, ExtraIsStuck, Registered, Stuck
<1>29. HashedIsKept'
  BY <1>3, <1>5, <1>2, <1>6, <1>9, <1>10, <1>11, <1>12, <1>13, <1>14, <1>1, <1>20 DEF IInv, ProcessTypeOK, HashedIsKept, Kept, Putting
<1>30. NotifierKept'
  BY <1>3, <1>5, <1>2, <1>6, <1>9, <1>10, <1>11, <1>12, <1>13, <1>14, <1>1, <1>20 DEF IInv, ProcessTypeOK, NotifierKept, Putting, Registering, Made, Checking, ExtraIsStuck
<1>31. FoundIsAwaited'
  BY <1>3, <1>5, <1>2, <1>6, <1>9, <1>10, <1>11, <1>12, <1>13, <1>14, <1>1, <1>20 DEF IInv, ProcessTypeOK, FoundIsAwaited, Putting, Registering, Made, HashedIsKept, Kept, NotifierKept
<1>32. WorkIsAwaited'
  BY <1>3, <1>5, <1>2, <1>6, <1>9, <1>10, <1>11, <1>12, <1>13, <1>14, <1>1, <1>20 DEF IInv, ProcessTypeOK, WorkIsAwaited, ToCancel, NotifierKept, Registering, Made, Putting
<1>33. Unowned'
  BY <1>3, <1>5, <1>2, <1>6, <1>9, <1>10, <1>11, <1>12, <1>13, <1>14, <1>1, <1>20 DEF IInv, ProcessTypeOK, Unowned, FoundIsAwaited, Checking, Registering, Made
<1> QED BY <1>23, <1>21, <1>24, <1>25, <1>26, <1>27, <1>28, <1>29, <1>30, <1>31, <1>32, <1>33 DEF IInv, Counted

LEMMA OpenCheckInv ==
  ASSUME IInv, ~EarlyLookups, NEW t \in Threads, NEW locked \in BOOLEAN, open_check(t, locked)
  PROVE  IInv'
<1> DEFINE p == opener[t].proc
<1>1. ProcessTypeOK
  BY DEF IInv
<1>2. \A o \in Threads : Home[o] \in Mms
  BY ProcSetsAssumption
<1>3. p \in Procs
  BY DEF IInv, ProcessTypeOK
<1>4. p = opener[t].proc
  OBVIOUS
<1> HIDE DEF p
<1>5. At(t, "check", p)
  BY <1>4, <1>1, <1>2 DEF open_check, works, grace, At, Has, Hashed, Registered, ProcessTypeOK
<1>6. \A d, x : At(t, d, x) => d = "check" /\ x = p
  BY <1>5 DEF At
<1>7. 1 \in Procs
  BY ProcBoundsAssumption DEF Procs
<1>8. opener' = [opener EXCEPT ![t] = [pc |-> "idle", proc |-> 1]]
  BY DEF open_check, works, grace, Idle
<1>9. 
      /\ opener'[t] = [pc |-> "idle", proc |-> 1]
      /\ \A n \in Threads : n # t => opener'[n] = opener[n]
      /\ \A n \in Threads : \A d, x : At(n, d, x)' <=> IF n = t THEN d = "idle" /\ x = 1 ELSE At(n, d, x)
  BY <1>8, <1>7, <1>3, <1>1, OpenerStep
<1>10. user' = user /\ \A v \in Users : \A d, x : Has(v, d, x)' <=> Has(v, d, x)
  BY DEF open_check, works, grace, Has
<1>11. st' = st /\ mmof' = mmof /\ notifier' = notifier /\ extra' = extra /\ work' = work /\ late' = late /\ mm' = mm /\ mutex' = mutex /\ waits' = waits /\ readers' = readers
  BY DEF open_check, works, grace
<1>12. \A x \in Procs : files'[x] = IF x = p /\ ~locked THEN files[x] + 1 ELSE files[x]
  BY <1>4, <1>3, <1>1, <1>2 DEF open_check, works, grace, ProcessTypeOK, Hashed
<1>13. \A x \in Mms : Stuck(x) => Stuck(x)'
  BY <1>3, <1>5, <1>2, <1>6, <1>9 DEF Stuck
<1>14. (st \in [Procs -> {"none", "hashed", "unhashed", "nomm", "freed"}] /\ mmof \in [Procs -> Mms] /\ pasid \in [Procs -> Pasids \cup {NoPasid}] /\ notifier \subseteq Procs /\ work \subseteq Procs \X Kinds)'
  BY <1>1 DEF open_check, works, grace, ProcessTypeOK
<1>15. (mm \in [Mms -> {"live", "unhash", "sync", "evicted", "restored", "cancel", "gone"}] /\ mutex \subseteq Threads /\ waits \in [Threads -> SUBSET Users] /\ readers \in [Mms -> SUBSET Users] /\ user \in [Users -> [pc : {"idle", "found", "held"}, proc : Procs]])'
  BY <1>1 DEF open_check, works, grace, ProcessTypeOK
<1>16. (files \in [Procs -> Nat])'
  BY <1>3, <1>1, <1>2, <1>5, <1>2, <1>6, <1>11, <1>12, <1>13 DEF open_check, works, grace, ProcessTypeOK, Reading
<1>17. (extra \subseteq notifier /\ late \subseteq work)'
  BY <1>3, <1>2, <1>6, <1>11, <1>12, <1>13, <1>1 DEF ProcessTypeOK, Registered
<1>18. (opener \in [Threads -> [pc : {"idle", "register", "check", "put", "bug"}, proc : Procs]])'
  BY <1>3, <1>1, <1>7 DEF open_check, works, grace, ProcessTypeOK, Idle
<1>19. \A x \in Procs : files[x] \in Nat /\ files'[x] \in Nat
  BY <1>1, <1>14, <1>15, <1>16, <1>17, <1>18 DEF ProcessTypeOK
<1>20. \A q \in Procs : ref'[q] = Holders(q)' /\ ref'[q] \in Nat
  <2> SUFFICES ASSUME NEW q \in Procs PROVE ref'[q] = Holders(q)' /\ ref'[q] \in Nat
    OBVIOUS
  <2>1. Holders(q) = Terms(q) /\ Holders(q)' = Terms(q)'
    BY HoldersByTerm
  <2>2. ref[q] = Terms(q) /\ ref[q] \in Nat
    BY <2>1 DEF IInv, Counted, ProcessTypeOK
  <2>3. /\ IsFiniteSet(Checks(q)) /\ IsFiniteSet(Helds(q))
        /\ Cardinality(Checks(q)) \in Nat /\ Cardinality(Helds(q)) \in Nat
        /\ Ones(Kept(q)) \in 0 .. 1
    BY TermTypes
  <2>4. Kept(q)' <=> Kept(q)
    BY <1>3, <1>5, <1>2, <1>6, <1>9, <1>10, <1>11, <1>12, <1>13 DEF IInv, Registering, Checking, Putting, Dying, Made, Kept
  <2>5. Ones(Kept(q)') = Ones(Kept(q))
    BY <2>4, OnesOf
  <2>6. IF q = p THEN Checks(q)' = Checks(q) \ {t} /\ t \in Checks(q) ELSE Checks(q)' = Checks(q)
    BY <1>3, <1>5, <1>2, <1>6, <1>9, <1>10, <1>11, <1>12, <1>13 DEF Checks, At, Has
  <2>7. Cardinality(Checks(q)') = Cardinality(Checks(q)) - (IF q = p THEN 1 ELSE 0)
    BY <2>3, <2>6, OneLess
  <2>8. Helds(q)' = Helds(q)
    BY <1>3, <1>5, <1>2, <1>6, <1>9, <1>10, <1>11, <1>12, <1>13 DEF Helds
  <2>9. Cardinality(Helds(q)') = Cardinality(Helds(q))
    BY <2>8
  <2>10. ref'[q] = ref[q] - (IF q = p /\ locked THEN 1 ELSE 0)
    BY <1>4, <1>1, <2>2 DEF open_check, works, grace, ProcessTypeOK
  <2>20. Ones(Kept(q)') \in 0 .. 1 /\ Cardinality(Checks(q)') \in Nat /\ Cardinality(Helds(q)') \in Nat
    <3>1. (Checks(q)' \subseteq Threads) /\ (Helds(q)' \subseteq Users)
      BY DEF Checks, Helds
    <3>2. IsFiniteSet(Checks(q)') /\ IsFiniteSet(Helds(q)')
      BY <3>1, FS_Subset, ProcSetsAssumption
    <3>3. Ones(Kept(q)') \in 0 .. 1
      BY DEF Ones
    <3> QED BY <3>2, <3>3, FS_CardinalityType
  <2>21. Terms(q) = Ones(Kept(q)) + files[q] + Cardinality(Checks(q)) + Cardinality(Helds(q))
    BY DEF Terms
  <2>22. Terms(q)' = Ones(Kept(q)') + files'[q] + Cardinality(Checks(q)') + Cardinality(Helds(q)')
    BY TermsNext
  <2>23. files'[q] = files[q] + (IF q = p /\ ~locked THEN 1 ELSE 0) /\ files[q] \in Nat /\ files'[q] \in Nat
    BY <1>19, <1>11, <1>12, <1>13
  <2> HIDE DEF open_check, IInv
  <2> QED BY <2>1, <2>2, <2>3, <2>5, <2>7, <2>9, <2>10, <2>20, <2>21, <2>22, <2>23
<1>21. (ref \in [Procs -> Nat])'
  BY <1>20, <1>1 DEF open_check, works, grace, ProcessTypeOK
<1>22. ProcessTypeOK'
  BY <1>14, <1>15, <1>16, <1>17, <1>18, <1>21 DEF ProcessTypeOK
<1>23. Registering'
  BY <1>3, <1>5, <1>2, <1>6, <1>9, <1>10, <1>11, <1>12, <1>13, <1>1, <1>19, ProcBoundsAssumption DEF IInv, ProcessTypeOK, Registering, Made, Checking
<1>24. Dying'
  BY <1>3, <1>5, <1>2, <1>6, <1>9, <1>10, <1>11, <1>12, <1>13, <1>1, <1>19, ProcBoundsAssumption DEF IInv, ProcessTypeOK, Dying, Made, Registering, Checking
<1>25. Checking'
  BY <1>3, <1>5, <1>2, <1>6, <1>9, <1>10, <1>11, <1>12, <1>13, <1>1, <1>19, ProcBoundsAssumption DEF IInv, ProcessTypeOK, Checking, Registering, Dying, Made, HashedIsKept, NotifierKept
<1>26. Putting'
  BY <1>3, <1>5, <1>2, <1>6, <1>9, <1>10, <1>11, <1>12, <1>13, <1>1, <1>19, ProcBoundsAssumption DEF IInv, ProcessTypeOK, Putting, Registering, Made
<1>27. ExtraIsStuck'
  BY <1>3, <1>5, <1>2, <1>6, <1>9, <1>10, <1>11, <1>12, <1>13, <1>1, <1>19, ProcBoundsAssumption DEF IInv, ProcessTypeOK, ExtraIsStuck, Registered, Stuck
<1>28. HashedIsKept'
  BY <1>3, <1>5, <1>2, <1>6, <1>9, <1>10, <1>11, <1>12, <1>13, <1>1, <1>19, ProcBoundsAssumption DEF IInv, ProcessTypeOK, HashedIsKept, Kept, Registering, Checking, Made
<1>29. NotifierKept'
  BY <1>3, <1>5, <1>2, <1>6, <1>9, <1>10, <1>11, <1>12, <1>13, <1>1, <1>19, ProcBoundsAssumption DEF IInv, ProcessTypeOK, NotifierKept, Putting, Registering, Made, Checking, ExtraIsStuck
<1>30. FoundIsAwaited'
  BY <1>3, <1>5, <1>2, <1>6, <1>9, <1>10, <1>11, <1>12, <1>13, <1>1, <1>19, ProcBoundsAssumption DEF IInv, ProcessTypeOK, FoundIsAwaited, Putting, Registering, Made, HashedIsKept, Kept, NotifierKept
<1>31. WorkIsAwaited'
  BY <1>3, <1>5, <1>2, <1>6, <1>9, <1>10, <1>11, <1>12, <1>13, <1>1, <1>19, ProcBoundsAssumption DEF IInv, ProcessTypeOK, WorkIsAwaited, ToCancel, NotifierKept, Registering, Made, Putting
<1>32. Unowned'
  BY <1>3, <1>5, <1>2, <1>6, <1>9, <1>10, <1>11, <1>12, <1>13, <1>1, <1>19, ProcBoundsAssumption DEF IInv, ProcessTypeOK, Unowned, FoundIsAwaited, Checking, Registering, Made
<1> QED BY <1>22, <1>20, <1>23, <1>24, <1>25, <1>26, <1>27, <1>28, <1>29, <1>30, <1>31, <1>32 DEF IInv, Counted

LEMMA CloseInv ==
  ASSUME IInv, ~EarlyLookups, NEW p \in Procs, close(p)
  PROVE  IInv'
<1>1. ProcessTypeOK
  BY DEF IInv
<1>2. \A o \in Threads : Home[o] \in Mms
  BY ProcSetsAssumption
<1>3. files[p] > 0
  BY <1>1, <1>2 DEF close, works, grace, At, Has, Hashed, Registered, ProcessTypeOK
<1>4. 1 \in Procs
  BY ProcBoundsAssumption DEF Procs
<1>5. opener' = opener /\ \A n \in Threads : \A d, x : At(n, d, x)' <=> At(n, d, x)
  BY DEF close, works, grace, At
<1>6. user' = user /\ \A v \in Users : \A d, x : Has(v, d, x)' <=> Has(v, d, x)
  BY DEF close, works, grace, Has
<1>7. st' = st /\ mmof' = mmof /\ notifier' = notifier /\ extra' = extra /\ work' = work /\ late' = late /\ mm' = mm /\ mutex' = mutex /\ waits' = waits /\ readers' = readers
  BY DEF close, works, grace
<1>8. \A x \in Procs : files'[x] = IF x = p THEN files[x] - 1 ELSE files[x]
  BY <1>1, <1>2 DEF close, works, grace, ProcessTypeOK, Hashed
<1>9. \A x \in Mms : Stuck(x) => Stuck(x)'
  BY <1>3, <1>2, <1>5 DEF Stuck
<1>10. (st \in [Procs -> {"none", "hashed", "unhashed", "nomm", "freed"}] /\ mmof \in [Procs -> Mms] /\ pasid \in [Procs -> Pasids \cup {NoPasid}] /\ notifier \subseteq Procs /\ work \subseteq Procs \X Kinds)'
  BY <1>1 DEF close, works, grace, ProcessTypeOK
<1>11. (mm \in [Mms -> {"live", "unhash", "sync", "evicted", "restored", "cancel", "gone"}] /\ mutex \subseteq Threads /\ waits \in [Threads -> SUBSET Users] /\ readers \in [Mms -> SUBSET Users] /\ opener \in [Threads -> [pc : {"idle", "register", "check", "put", "bug"}, proc : Procs]] /\ user \in [Users -> [pc : {"idle", "found", "held"}, proc : Procs]])'
  BY <1>1 DEF close, works, grace, ProcessTypeOK
<1>12. (files \in [Procs -> Nat])'
  BY <1>1, <1>2, <1>3, <1>2, <1>7, <1>8, <1>9 DEF close, works, grace, ProcessTypeOK, Reading
<1>13. (extra \subseteq notifier /\ late \subseteq work)'
  BY <1>2, <1>7, <1>8, <1>9, <1>1 DEF ProcessTypeOK, Registered
<1>14. \A x \in Procs : files[x] \in Nat /\ files'[x] \in Nat
  BY <1>1, <1>10, <1>11, <1>12, <1>13 DEF ProcessTypeOK
<1>15. \A q \in Procs : ref'[q] = Holders(q)' /\ ref'[q] \in Nat
  <2> SUFFICES ASSUME NEW q \in Procs PROVE ref'[q] = Holders(q)' /\ ref'[q] \in Nat
    OBVIOUS
  <2>1. Holders(q) = Terms(q) /\ Holders(q)' = Terms(q)'
    BY HoldersByTerm
  <2>2. ref[q] = Terms(q) /\ ref[q] \in Nat
    BY <2>1 DEF IInv, Counted, ProcessTypeOK
  <2>3. /\ IsFiniteSet(Checks(q)) /\ IsFiniteSet(Helds(q))
        /\ Cardinality(Checks(q)) \in Nat /\ Cardinality(Helds(q)) \in Nat
        /\ Ones(Kept(q)) \in 0 .. 1
    BY TermTypes
  <2>4. Kept(q)' <=> Kept(q)
    BY <1>3, <1>2, <1>5, <1>6, <1>7, <1>8, <1>9 DEF IInv, Registering, Checking, Putting, Dying, Made, Kept
  <2>5. Ones(Kept(q)') = Ones(Kept(q))
    BY <2>4, OnesOf
  <2>6. Checks(q)' = Checks(q)
    BY <1>3, <1>2, <1>5, <1>6, <1>7, <1>8, <1>9 DEF Checks
  <2>7. Cardinality(Checks(q)') = Cardinality(Checks(q))
    BY <2>6
  <2>8. Helds(q)' = Helds(q)
    BY <1>3, <1>2, <1>5, <1>6, <1>7, <1>8, <1>9 DEF Helds
  <2>9. Cardinality(Helds(q)') = Cardinality(Helds(q))
    BY <2>8
  <2>10. ref'[q] = ref[q] - (IF q = p THEN 1 ELSE 0)
    BY <1>1, <2>2 DEF close, works, grace, ProcessTypeOK
  <2>20. Ones(Kept(q)') \in 0 .. 1 /\ Cardinality(Checks(q)') \in Nat /\ Cardinality(Helds(q)') \in Nat
    <3>1. (Checks(q)' \subseteq Threads) /\ (Helds(q)' \subseteq Users)
      BY DEF Checks, Helds
    <3>2. IsFiniteSet(Checks(q)') /\ IsFiniteSet(Helds(q)')
      BY <3>1, FS_Subset, ProcSetsAssumption
    <3>3. Ones(Kept(q)') \in 0 .. 1
      BY DEF Ones
    <3> QED BY <3>2, <3>3, FS_CardinalityType
  <2>21. Terms(q) = Ones(Kept(q)) + files[q] + Cardinality(Checks(q)) + Cardinality(Helds(q))
    BY DEF Terms
  <2>22. Terms(q)' = Ones(Kept(q)') + files'[q] + Cardinality(Checks(q)') + Cardinality(Helds(q)')
    BY TermsNext
  <2>23. files'[q] = files[q] - (IF q = p THEN 1 ELSE 0) /\ files[q] \in Nat /\ files'[q] \in Nat
    BY <1>14, <1>7, <1>8, <1>9
  <2> HIDE DEF close, IInv
  <2> QED BY <2>1, <2>2, <2>3, <2>5, <2>7, <2>9, <2>10, <2>20, <2>21, <2>22, <2>23
<1>16. (ref \in [Procs -> Nat])'
  BY <1>15, <1>1 DEF close, works, grace, ProcessTypeOK
<1>17. ProcessTypeOK'
  BY <1>10, <1>11, <1>12, <1>13, <1>16 DEF ProcessTypeOK
<1>18. Registering'
  BY <1>3, <1>2, <1>5, <1>6, <1>7, <1>8, <1>9, <1>1, <1>14, ProcBoundsAssumption DEF IInv, ProcessTypeOK, Registering, Made, Checking
<1>19. Dying'
  BY <1>3, <1>2, <1>5, <1>6, <1>7, <1>8, <1>9, <1>1, <1>14, ProcBoundsAssumption DEF IInv, ProcessTypeOK, Dying, Made, Registering, Checking
<1>20. Checking'
  BY <1>3, <1>2, <1>5, <1>6, <1>7, <1>8, <1>9, <1>1, <1>14, ProcBoundsAssumption DEF IInv, ProcessTypeOK, Checking, Registering, Dying, Made, HashedIsKept, NotifierKept
<1>21. Putting'
  BY <1>3, <1>2, <1>5, <1>6, <1>7, <1>8, <1>9, <1>1, <1>14, ProcBoundsAssumption DEF IInv, ProcessTypeOK, Putting, Registering, Made
<1>22. ExtraIsStuck'
  BY <1>3, <1>2, <1>5, <1>6, <1>7, <1>8, <1>9, <1>1, <1>14, ProcBoundsAssumption DEF IInv, ProcessTypeOK, ExtraIsStuck, Registered, Stuck
<1>23. HashedIsKept'
  BY <1>3, <1>2, <1>5, <1>6, <1>7, <1>8, <1>9, <1>1, <1>14, ProcBoundsAssumption DEF IInv, ProcessTypeOK, HashedIsKept, Kept, Registering, Checking, Made
<1>24. NotifierKept'
  BY <1>3, <1>2, <1>5, <1>6, <1>7, <1>8, <1>9, <1>1, <1>14, ProcBoundsAssumption DEF IInv, ProcessTypeOK, NotifierKept, Putting, Registering, Made, Checking, ExtraIsStuck
<1>25. FoundIsAwaited'
  BY <1>3, <1>2, <1>5, <1>6, <1>7, <1>8, <1>9, <1>1, <1>14, ProcBoundsAssumption DEF IInv, ProcessTypeOK, FoundIsAwaited, Putting, Registering, Made, HashedIsKept, Kept, NotifierKept
<1>26. WorkIsAwaited'
  BY <1>3, <1>2, <1>5, <1>6, <1>7, <1>8, <1>9, <1>1, <1>14, ProcBoundsAssumption DEF IInv, ProcessTypeOK, WorkIsAwaited, ToCancel, NotifierKept, Registering, Made, Putting
<1>27. Unowned'
  BY <1>3, <1>2, <1>5, <1>6, <1>7, <1>8, <1>9, <1>1, <1>14, ProcBoundsAssumption DEF IInv, ProcessTypeOK, Unowned, FoundIsAwaited, Checking, Registering, Made
<1> QED BY <1>17, <1>15, <1>18, <1>19, <1>20, <1>21, <1>22, <1>23, <1>24, <1>25, <1>26, <1>27 DEF IInv, Counted

LEMMA LookupFindInv ==
  ASSUME IInv, ~EarlyLookups, NEW u \in Users, NEW p \in Procs, lookup_find(u, p)
  PROVE  IInv'
<1>1. ProcessTypeOK
  BY DEF IInv
<1>2. \A o \in Threads : Home[o] \in Mms
  BY ProcSetsAssumption
<1>3. st[p] = "hashed" /\ user[u].pc = "idle"
  BY <1>1, <1>2 DEF lookup_find, works, grace, At, Has, Hashed, Registered, ProcessTypeOK
<1>4. \A d, x : Has(u, d, x) => d = "idle"
  BY <1>3 DEF Has
<1>5. 1 \in Procs
  BY ProcBoundsAssumption DEF Procs
<1>6. opener' = opener /\ \A n \in Threads : \A d, x : At(n, d, x)' <=> At(n, d, x)
  BY DEF lookup_find, works, grace, At
<1>7. user' = [user EXCEPT ![u] = [pc |-> "found", proc |-> p]]
  BY DEF lookup_find, works, grace, Idle
<1>8. 
      /\ user'[u] = [pc |-> "found", proc |-> p]
      /\ \A v \in Users : v # u => user'[v] = user[v]
      /\ \A v \in Users : \A d, x : Has(v, d, x)' <=> IF v = u THEN d = "found" /\ x = p ELSE Has(v, d, x)
  BY <1>7, <1>5, <1>1, UserStep
<1>9. st' = st /\ mmof' = mmof /\ files' = files /\ notifier' = notifier /\ extra' = extra /\ work' = work /\ late' = late /\ mm' = mm /\ mutex' = mutex /\ waits' = waits /\ readers' = readers
  BY DEF lookup_find, works, grace
<1>10. \A x \in Mms : Stuck(x) => Stuck(x)'
  BY <1>3, <1>2, <1>4, <1>6 DEF Stuck
<1>11. (st \in [Procs -> {"none", "hashed", "unhashed", "nomm", "freed"}] /\ mmof \in [Procs -> Mms] /\ pasid \in [Procs -> Pasids \cup {NoPasid}] /\ files \in [Procs -> Nat] /\ notifier \subseteq Procs)'
  BY <1>1 DEF lookup_find, works, grace, ProcessTypeOK
<1>12. (work \subseteq Procs \X Kinds /\ mm \in [Mms -> {"live", "unhash", "sync", "evicted", "restored", "cancel", "gone"}] /\ mutex \subseteq Threads /\ waits \in [Threads -> SUBSET Users] /\ readers \in [Mms -> SUBSET Users] /\ opener \in [Threads -> [pc : {"idle", "register", "check", "put", "bug"}, proc : Procs]])'
  BY <1>1 DEF lookup_find, works, grace, ProcessTypeOK
<1>13. (extra \subseteq notifier /\ late \subseteq work)'
  BY <1>2, <1>4, <1>9, <1>10, <1>1 DEF ProcessTypeOK, Registered
<1>14. (user \in [Users -> [pc : {"idle", "found", "held"}, proc : Procs]])'
  BY <1>1, <1>5 DEF lookup_find, works, grace, ProcessTypeOK, Idle
<1>15. \A x \in Procs : files[x] \in Nat /\ files'[x] \in Nat
  BY <1>1, <1>11, <1>12, <1>13, <1>14 DEF ProcessTypeOK
<1>16. \A q \in Procs : ref'[q] = Holders(q)' /\ ref'[q] \in Nat
  <2> SUFFICES ASSUME NEW q \in Procs PROVE ref'[q] = Holders(q)' /\ ref'[q] \in Nat
    OBVIOUS
  <2>1. Holders(q) = Terms(q) /\ Holders(q)' = Terms(q)'
    BY HoldersByTerm
  <2>2. ref[q] = Terms(q) /\ ref[q] \in Nat
    BY <2>1 DEF IInv, Counted, ProcessTypeOK
  <2>3. /\ IsFiniteSet(Checks(q)) /\ IsFiniteSet(Helds(q))
        /\ Cardinality(Checks(q)) \in Nat /\ Cardinality(Helds(q)) \in Nat
        /\ Ones(Kept(q)) \in 0 .. 1
    BY TermTypes
  <2>4. Kept(q)' <=> Kept(q)
    BY <1>3, <1>2, <1>4, <1>6, <1>8, <1>9, <1>10 DEF IInv, Registering, Checking, Putting, Dying, Made, Kept
  <2>5. Ones(Kept(q)') = Ones(Kept(q))
    BY <2>4, OnesOf
  <2>6. Checks(q)' = Checks(q)
    BY <1>3, <1>2, <1>4, <1>6, <1>8, <1>9, <1>10 DEF Checks
  <2>7. Cardinality(Checks(q)') = Cardinality(Checks(q))
    BY <2>6
  <2>8. Helds(q)' = Helds(q)
    BY <1>3, <1>2, <1>4, <1>6, <1>8, <1>9, <1>10 DEF Helds
  <2>9. Cardinality(Helds(q)') = Cardinality(Helds(q))
    BY <2>8
  <2>10. ref'[q] = ref[q]
    BY <1>1, <2>2 DEF lookup_find, works, grace, ProcessTypeOK
  <2>20. Ones(Kept(q)') \in 0 .. 1 /\ Cardinality(Checks(q)') \in Nat /\ Cardinality(Helds(q)') \in Nat
    <3>1. (Checks(q)' \subseteq Threads) /\ (Helds(q)' \subseteq Users)
      BY DEF Checks, Helds
    <3>2. IsFiniteSet(Checks(q)') /\ IsFiniteSet(Helds(q)')
      BY <3>1, FS_Subset, ProcSetsAssumption
    <3>3. Ones(Kept(q)') \in 0 .. 1
      BY DEF Ones
    <3> QED BY <3>2, <3>3, FS_CardinalityType
  <2>21. Terms(q) = Ones(Kept(q)) + files[q] + Cardinality(Checks(q)) + Cardinality(Helds(q))
    BY DEF Terms
  <2>22. Terms(q)' = Ones(Kept(q)') + files'[q] + Cardinality(Checks(q)') + Cardinality(Helds(q)')
    BY TermsNext
  <2>23. files'[q] = files[q] /\ files[q] \in Nat /\ files'[q] \in Nat
    BY <1>15, <1>9
  <2> HIDE DEF lookup_find, IInv
  <2> QED BY <2>1, <2>2, <2>3, <2>5, <2>7, <2>9, <2>10, <2>20, <2>21, <2>22, <2>23
<1>17. (ref \in [Procs -> Nat])'
  BY <1>16, <1>1 DEF lookup_find, works, grace, ProcessTypeOK
<1>18. ProcessTypeOK'
  BY <1>11, <1>12, <1>13, <1>14, <1>17 DEF ProcessTypeOK
<1>19. Registering'
  BY <1>3, <1>2, <1>4, <1>6, <1>8, <1>9, <1>10, <1>1, <1>15 DEF IInv, ProcessTypeOK, Registering, Made, Checking
<1>20. Dying'
  BY <1>3, <1>2, <1>4, <1>6, <1>8, <1>9, <1>10, <1>1, <1>15 DEF IInv, ProcessTypeOK, Dying, Made, Registering, Checking
<1>21. Checking'
  BY <1>3, <1>2, <1>4, <1>6, <1>8, <1>9, <1>10, <1>1, <1>15 DEF IInv, ProcessTypeOK, Checking, Registering, Dying, Made, HashedIsKept, NotifierKept
<1>22. Putting'
  BY <1>3, <1>2, <1>4, <1>6, <1>8, <1>9, <1>10, <1>1, <1>15 DEF IInv, ProcessTypeOK, Putting, Registering, Made
<1>23. ExtraIsStuck'
  BY <1>3, <1>2, <1>4, <1>6, <1>8, <1>9, <1>10, <1>1, <1>15 DEF IInv, ProcessTypeOK, ExtraIsStuck, Registered, Stuck
<1>24. HashedIsKept'
  BY <1>3, <1>2, <1>4, <1>6, <1>8, <1>9, <1>10, <1>1, <1>15 DEF IInv, ProcessTypeOK, HashedIsKept, Kept, Registering, Checking, Made
<1>25. NotifierKept'
  BY <1>3, <1>2, <1>4, <1>6, <1>8, <1>9, <1>10, <1>1, <1>15 DEF IInv, ProcessTypeOK, NotifierKept, Putting, Registering, Made, Checking, ExtraIsStuck
<1>26. FoundIsAwaited'
  BY <1>3, <1>2, <1>4, <1>6, <1>8, <1>9, <1>10, <1>1, <1>15 DEF IInv, ProcessTypeOK, FoundIsAwaited, Putting, Registering, Made, HashedIsKept, Kept, NotifierKept
<1>27. WorkIsAwaited'
  BY <1>3, <1>2, <1>4, <1>6, <1>8, <1>9, <1>10, <1>1, <1>15 DEF IInv, ProcessTypeOK, WorkIsAwaited, ToCancel, NotifierKept, Registering, Made, Putting
<1>28. Unowned'
  BY <1>3, <1>2, <1>4, <1>6, <1>8, <1>9, <1>10, <1>1, <1>15 DEF IInv, ProcessTypeOK, Unowned, FoundIsAwaited, Checking, Registering, Made
<1> QED BY <1>18, <1>16, <1>19, <1>20, <1>21, <1>22, <1>23, <1>24, <1>25, <1>26, <1>27, <1>28 DEF IInv, Counted

LEMMA LookupGetInv ==
  ASSUME IInv, ~EarlyLookups, NEW u \in Users, lookup_get(u)
  PROVE  IInv'
<1> DEFINE p == user[u].proc
<1>1. ProcessTypeOK
  BY DEF IInv
<1>2. \A o \in Threads : Home[o] \in Mms
  BY ProcSetsAssumption
<1>3. p \in Procs
  BY DEF IInv, ProcessTypeOK
<1>4. p = user[u].proc
  OBVIOUS
<1> HIDE DEF p
<1>5. Has(u, "found", p)
  BY <1>4, <1>1, <1>2 DEF lookup_get, works, grace, At, Has, Hashed, Registered, ProcessTypeOK
<1>6. \A d, x : Has(u, d, x) => d = "found" /\ x = p
  BY <1>5 DEF Has
<1>7. 1 \in Procs
  BY ProcBoundsAssumption DEF Procs
<1>8. opener' = opener /\ \A n \in Threads : \A d, x : At(n, d, x)' <=> At(n, d, x)
  BY DEF lookup_get, works, grace, At
<1>9. user' = [user EXCEPT ![u] = [pc |-> "held", proc |-> p]]
  BY <1>4, <1>1, KeepUserProc DEF lookup_get, works, grace
<1>10. 
      /\ user'[u] = [pc |-> "held", proc |-> p]
      /\ \A v \in Users : v # u => user'[v] = user[v]
      /\ \A v \in Users : \A d, x : Has(v, d, x)' <=> IF v = u THEN d = "held" /\ x = p ELSE Has(v, d, x)
  BY <1>9, <1>7, <1>3, <1>1, UserStep
<1>11. st' = st /\ mmof' = mmof /\ files' = files /\ notifier' = notifier /\ extra' = extra /\ work' = work /\ late' = late /\ mm' = mm /\ mutex' = mutex
  BY DEF lookup_get, works, grace
<1>12. \A o \in Threads : waits'[o] = waits[o] \ {u}
  BY <1>4, <1>3, <1>1, <1>2 DEF lookup_get, works, grace, ProcessTypeOK, Hashed
<1>13. \A n \in Mms : readers'[n] = readers[n] \ {u}
  BY <1>4, <1>3, <1>1, <1>2 DEF lookup_get, works, grace, ProcessTypeOK, Hashed
<1>14. \A x \in Mms : Stuck(x) => Stuck(x)'
  BY <1>3, <1>5, <1>2, <1>6, <1>8 DEF Stuck
<1>15. (st \in [Procs -> {"none", "hashed", "unhashed", "nomm", "freed"}] /\ mmof \in [Procs -> Mms] /\ pasid \in [Procs -> Pasids \cup {NoPasid}] /\ files \in [Procs -> Nat])'
  BY <1>1 DEF lookup_get, works, grace, ProcessTypeOK
<1>16. (notifier \subseteq Procs /\ work \subseteq Procs \X Kinds /\ mm \in [Mms -> {"live", "unhash", "sync", "evicted", "restored", "cancel", "gone"}] /\ mutex \subseteq Threads /\ opener \in [Threads -> [pc : {"idle", "register", "check", "put", "bug"}, proc : Procs]])'
  BY <1>1 DEF lookup_get, works, grace, ProcessTypeOK
<1>17. (waits \in [Threads -> SUBSET Users])'
  BY <1>3, <1>1, <1>2 DEF lookup_get, works, grace, ProcessTypeOK, Reading
<1>18. (readers \in [Mms -> SUBSET Users])'
  BY <1>3, <1>1, <1>2 DEF lookup_get, works, grace, ProcessTypeOK, Reading
<1>19. (extra \subseteq notifier /\ late \subseteq work)'
  BY <1>3, <1>2, <1>6, <1>11, <1>12, <1>13, <1>14, <1>1 DEF ProcessTypeOK, Registered
<1>20. (user \in [Users -> [pc : {"idle", "found", "held"}, proc : Procs]])'
  BY <1>3, <1>1, <1>7 DEF lookup_get, works, grace, ProcessTypeOK, Idle
<1>21. \A x \in Procs : files[x] \in Nat /\ files'[x] \in Nat
  BY <1>1, <1>15, <1>16, <1>17, <1>18, <1>19, <1>20 DEF ProcessTypeOK
<1>22. \A q \in Procs : ref'[q] = Holders(q)' /\ ref'[q] \in Nat
  <2> SUFFICES ASSUME NEW q \in Procs PROVE ref'[q] = Holders(q)' /\ ref'[q] \in Nat
    OBVIOUS
  <2>1. Holders(q) = Terms(q) /\ Holders(q)' = Terms(q)'
    BY HoldersByTerm
  <2>2. ref[q] = Terms(q) /\ ref[q] \in Nat
    BY <2>1 DEF IInv, Counted, ProcessTypeOK
  <2>3. /\ IsFiniteSet(Checks(q)) /\ IsFiniteSet(Helds(q))
        /\ Cardinality(Checks(q)) \in Nat /\ Cardinality(Helds(q)) \in Nat
        /\ Ones(Kept(q)) \in 0 .. 1
    BY TermTypes
  <2>4. Kept(q)' <=> Kept(q)
    BY <1>3, <1>5, <1>2, <1>6, <1>8, <1>10, <1>11, <1>12, <1>13, <1>14 DEF IInv, Registering, Checking, Putting, Dying, Made, Kept
  <2>5. Ones(Kept(q)') = Ones(Kept(q))
    BY <2>4, OnesOf
  <2>6. Checks(q)' = Checks(q)
    BY <1>3, <1>5, <1>2, <1>6, <1>8, <1>10, <1>11, <1>12, <1>13, <1>14 DEF Checks
  <2>7. Cardinality(Checks(q)') = Cardinality(Checks(q))
    BY <2>6
  <2>8. IF q = p THEN Helds(q)' = Helds(q) \cup {u} /\ u \notin Helds(q) ELSE Helds(q)' = Helds(q)
    BY <1>3, <1>5, <1>2, <1>6, <1>8, <1>10, <1>11, <1>12, <1>13, <1>14 DEF Helds, At, Has
  <2>9. Cardinality(Helds(q)') = Cardinality(Helds(q)) + (IF q = p THEN 1 ELSE 0)
    BY <2>3, <2>8, OneMore
  <2>10. ref'[q] = ref[q] + (IF q = p THEN 1 ELSE 0)
    BY <1>4, <1>1, <2>2 DEF lookup_get, works, grace, ProcessTypeOK
  <2>20. Ones(Kept(q)') \in 0 .. 1 /\ Cardinality(Checks(q)') \in Nat /\ Cardinality(Helds(q)') \in Nat
    <3>1. (Checks(q)' \subseteq Threads) /\ (Helds(q)' \subseteq Users)
      BY DEF Checks, Helds
    <3>2. IsFiniteSet(Checks(q)') /\ IsFiniteSet(Helds(q)')
      BY <3>1, FS_Subset, ProcSetsAssumption
    <3>3. Ones(Kept(q)') \in 0 .. 1
      BY DEF Ones
    <3> QED BY <3>2, <3>3, FS_CardinalityType
  <2>21. Terms(q) = Ones(Kept(q)) + files[q] + Cardinality(Checks(q)) + Cardinality(Helds(q))
    BY DEF Terms
  <2>22. Terms(q)' = Ones(Kept(q)') + files'[q] + Cardinality(Checks(q)') + Cardinality(Helds(q)')
    BY TermsNext
  <2>23. files'[q] = files[q] /\ files[q] \in Nat /\ files'[q] \in Nat
    BY <1>21, <1>11
  <2> HIDE DEF lookup_get, IInv
  <2> QED BY <2>1, <2>2, <2>3, <2>5, <2>7, <2>9, <2>10, <2>20, <2>21, <2>22, <2>23
<1>23. (ref \in [Procs -> Nat])'
  BY <1>22, <1>1 DEF lookup_get, works, grace, ProcessTypeOK
<1>24. ProcessTypeOK'
  BY <1>15, <1>16, <1>17, <1>18, <1>19, <1>20, <1>23 DEF ProcessTypeOK
<1>25. Registering'
  BY <1>3, <1>5, <1>2, <1>6, <1>8, <1>10, <1>11, <1>12, <1>13, <1>14, <1>1, <1>21 DEF IInv, ProcessTypeOK, Registering, Made, Checking
<1>26. Dying'
  BY <1>3, <1>5, <1>2, <1>6, <1>8, <1>10, <1>11, <1>12, <1>13, <1>14, <1>1, <1>21 DEF IInv, ProcessTypeOK, Dying, Made, Registering, Checking
<1>27. Checking'
  BY <1>3, <1>5, <1>2, <1>6, <1>8, <1>10, <1>11, <1>12, <1>13, <1>14, <1>1, <1>21 DEF IInv, ProcessTypeOK, Checking, Registering, Dying, Made, HashedIsKept, NotifierKept
<1>28. Putting'
  BY <1>3, <1>5, <1>2, <1>6, <1>8, <1>10, <1>11, <1>12, <1>13, <1>14, <1>1, <1>21 DEF IInv, ProcessTypeOK, Putting, Registering, Made
<1>29. ExtraIsStuck'
  BY <1>3, <1>5, <1>2, <1>6, <1>8, <1>10, <1>11, <1>12, <1>13, <1>14, <1>1, <1>21 DEF IInv, ProcessTypeOK, ExtraIsStuck, Registered, Stuck
<1>30. HashedIsKept'
  BY <1>3, <1>5, <1>2, <1>6, <1>8, <1>10, <1>11, <1>12, <1>13, <1>14, <1>1, <1>21 DEF IInv, ProcessTypeOK, HashedIsKept, Kept, Registering, Checking, Made
<1>31. NotifierKept'
  BY <1>3, <1>5, <1>2, <1>6, <1>8, <1>10, <1>11, <1>12, <1>13, <1>14, <1>1, <1>21 DEF IInv, ProcessTypeOK, NotifierKept, Putting, Registering, Made, Checking, ExtraIsStuck
<1>32. FoundIsAwaited'
  BY <1>3, <1>5, <1>2, <1>6, <1>8, <1>10, <1>11, <1>12, <1>13, <1>14, <1>1, <1>21 DEF IInv, ProcessTypeOK, FoundIsAwaited, Putting, Registering, Made, HashedIsKept, Kept, NotifierKept
<1>33. WorkIsAwaited'
  BY <1>3, <1>5, <1>2, <1>6, <1>8, <1>10, <1>11, <1>12, <1>13, <1>14, <1>1, <1>21 DEF IInv, ProcessTypeOK, WorkIsAwaited, ToCancel, NotifierKept, Registering, Made, Putting
<1>34. Unowned'
  BY <1>3, <1>5, <1>2, <1>6, <1>8, <1>10, <1>11, <1>12, <1>13, <1>14, <1>1, <1>21 DEF IInv, ProcessTypeOK, Unowned, FoundIsAwaited, Checking, Registering, Made
<1> QED BY <1>24, <1>22, <1>25, <1>26, <1>27, <1>28, <1>29, <1>30, <1>31, <1>32, <1>33, <1>34 DEF IInv, Counted

LEMMA UserPutInv ==
  ASSUME IInv, ~EarlyLookups, NEW u \in Users, user_put(u)
  PROVE  IInv'
<1> DEFINE p == user[u].proc
<1>1. ProcessTypeOK
  BY DEF IInv
<1>2. \A o \in Threads : Home[o] \in Mms
  BY ProcSetsAssumption
<1>3. p \in Procs
  BY DEF IInv, ProcessTypeOK
<1>4. p = user[u].proc
  OBVIOUS
<1> HIDE DEF p
<1>5. Has(u, "held", p)
  BY <1>4, <1>1, <1>2 DEF user_put, works, grace, At, Has, Hashed, Registered, ProcessTypeOK
<1>6. \A d, x : Has(u, d, x) => d = "held" /\ x = p
  BY <1>5 DEF Has
<1>7. 1 \in Procs
  BY ProcBoundsAssumption DEF Procs
<1>8. opener' = opener /\ \A n \in Threads : \A d, x : At(n, d, x)' <=> At(n, d, x)
  BY DEF user_put, works, grace, At
<1>9. user' = [user EXCEPT ![u] = [pc |-> "idle", proc |-> 1]]
  BY DEF user_put, works, grace, Idle
<1>10. 
      /\ user'[u] = [pc |-> "idle", proc |-> 1]
      /\ \A v \in Users : v # u => user'[v] = user[v]
      /\ \A v \in Users : \A d, x : Has(v, d, x)' <=> IF v = u THEN d = "idle" /\ x = 1 ELSE Has(v, d, x)
  BY <1>9, <1>7, <1>3, <1>1, UserStep
<1>11. st' = st /\ mmof' = mmof /\ files' = files /\ notifier' = notifier /\ extra' = extra /\ work' = work /\ late' = late /\ mm' = mm /\ mutex' = mutex /\ waits' = waits /\ readers' = readers
  BY DEF user_put, works, grace
<1>12. \A x \in Mms : Stuck(x) => Stuck(x)'
  BY <1>3, <1>5, <1>2, <1>6, <1>8 DEF Stuck
<1>13. (st \in [Procs -> {"none", "hashed", "unhashed", "nomm", "freed"}] /\ mmof \in [Procs -> Mms] /\ pasid \in [Procs -> Pasids \cup {NoPasid}] /\ files \in [Procs -> Nat] /\ notifier \subseteq Procs)'
  BY <1>1 DEF user_put, works, grace, ProcessTypeOK
<1>14. (work \subseteq Procs \X Kinds /\ mm \in [Mms -> {"live", "unhash", "sync", "evicted", "restored", "cancel", "gone"}] /\ mutex \subseteq Threads /\ waits \in [Threads -> SUBSET Users] /\ readers \in [Mms -> SUBSET Users] /\ opener \in [Threads -> [pc : {"idle", "register", "check", "put", "bug"}, proc : Procs]])'
  BY <1>1 DEF user_put, works, grace, ProcessTypeOK
<1>15. (extra \subseteq notifier /\ late \subseteq work)'
  BY <1>3, <1>2, <1>6, <1>11, <1>12, <1>1 DEF ProcessTypeOK, Registered
<1>16. (user \in [Users -> [pc : {"idle", "found", "held"}, proc : Procs]])'
  BY <1>3, <1>1, <1>7 DEF user_put, works, grace, ProcessTypeOK, Idle
<1>17. \A x \in Procs : files[x] \in Nat /\ files'[x] \in Nat
  BY <1>1, <1>13, <1>14, <1>15, <1>16 DEF ProcessTypeOK
<1>18. \A q \in Procs : ref'[q] = Holders(q)' /\ ref'[q] \in Nat
  <2> SUFFICES ASSUME NEW q \in Procs PROVE ref'[q] = Holders(q)' /\ ref'[q] \in Nat
    OBVIOUS
  <2>1. Holders(q) = Terms(q) /\ Holders(q)' = Terms(q)'
    BY HoldersByTerm
  <2>2. ref[q] = Terms(q) /\ ref[q] \in Nat
    BY <2>1 DEF IInv, Counted, ProcessTypeOK
  <2>3. /\ IsFiniteSet(Checks(q)) /\ IsFiniteSet(Helds(q))
        /\ Cardinality(Checks(q)) \in Nat /\ Cardinality(Helds(q)) \in Nat
        /\ Ones(Kept(q)) \in 0 .. 1
    BY TermTypes
  <2>4. Kept(q)' <=> Kept(q)
    BY <1>3, <1>5, <1>2, <1>6, <1>8, <1>10, <1>11, <1>12 DEF IInv, Registering, Checking, Putting, Dying, Made, Kept
  <2>5. Ones(Kept(q)') = Ones(Kept(q))
    BY <2>4, OnesOf
  <2>6. Checks(q)' = Checks(q)
    BY <1>3, <1>5, <1>2, <1>6, <1>8, <1>10, <1>11, <1>12 DEF Checks
  <2>7. Cardinality(Checks(q)') = Cardinality(Checks(q))
    BY <2>6
  <2>8. IF q = p THEN Helds(q)' = Helds(q) \ {u} /\ u \in Helds(q) ELSE Helds(q)' = Helds(q)
    BY <1>3, <1>5, <1>2, <1>6, <1>8, <1>10, <1>11, <1>12 DEF Helds, At, Has
  <2>9. Cardinality(Helds(q)') = Cardinality(Helds(q)) - (IF q = p THEN 1 ELSE 0)
    BY <2>3, <2>8, OneLess
  <2>10. ref'[q] = ref[q] - (IF q = p THEN 1 ELSE 0)
    BY <1>4, <1>1, <2>2 DEF user_put, works, grace, ProcessTypeOK
  <2>20. Ones(Kept(q)') \in 0 .. 1 /\ Cardinality(Checks(q)') \in Nat /\ Cardinality(Helds(q)') \in Nat
    <3>1. (Checks(q)' \subseteq Threads) /\ (Helds(q)' \subseteq Users)
      BY DEF Checks, Helds
    <3>2. IsFiniteSet(Checks(q)') /\ IsFiniteSet(Helds(q)')
      BY <3>1, FS_Subset, ProcSetsAssumption
    <3>3. Ones(Kept(q)') \in 0 .. 1
      BY DEF Ones
    <3> QED BY <3>2, <3>3, FS_CardinalityType
  <2>21. Terms(q) = Ones(Kept(q)) + files[q] + Cardinality(Checks(q)) + Cardinality(Helds(q))
    BY DEF Terms
  <2>22. Terms(q)' = Ones(Kept(q)') + files'[q] + Cardinality(Checks(q)') + Cardinality(Helds(q)')
    BY TermsNext
  <2>23. files'[q] = files[q] /\ files[q] \in Nat /\ files'[q] \in Nat
    BY <1>17, <1>11
  <2> HIDE DEF user_put, IInv
  <2> QED BY <2>1, <2>2, <2>3, <2>5, <2>7, <2>9, <2>10, <2>20, <2>21, <2>22, <2>23
<1>19. (ref \in [Procs -> Nat])'
  BY <1>18, <1>1 DEF user_put, works, grace, ProcessTypeOK
<1>20. ProcessTypeOK'
  BY <1>13, <1>14, <1>15, <1>16, <1>19 DEF ProcessTypeOK
<1>21. Registering'
  BY <1>3, <1>5, <1>2, <1>6, <1>8, <1>10, <1>11, <1>12, <1>1, <1>17 DEF IInv, ProcessTypeOK, Registering, Made, Checking
<1>22. Dying'
  BY <1>3, <1>5, <1>2, <1>6, <1>8, <1>10, <1>11, <1>12, <1>1, <1>17 DEF IInv, ProcessTypeOK, Dying, Made, Registering, Checking
<1>23. Checking'
  BY <1>3, <1>5, <1>2, <1>6, <1>8, <1>10, <1>11, <1>12, <1>1, <1>17 DEF IInv, ProcessTypeOK, Checking, Registering, Dying, Made, HashedIsKept, NotifierKept
<1>24. Putting'
  BY <1>3, <1>5, <1>2, <1>6, <1>8, <1>10, <1>11, <1>12, <1>1, <1>17 DEF IInv, ProcessTypeOK, Putting, Registering, Made
<1>25. ExtraIsStuck'
  BY <1>3, <1>5, <1>2, <1>6, <1>8, <1>10, <1>11, <1>12, <1>1, <1>17 DEF IInv, ProcessTypeOK, ExtraIsStuck, Registered, Stuck
<1>26. HashedIsKept'
  BY <1>3, <1>5, <1>2, <1>6, <1>8, <1>10, <1>11, <1>12, <1>1, <1>17 DEF IInv, ProcessTypeOK, HashedIsKept, Kept, Registering, Checking, Made
<1>27. NotifierKept'
  BY <1>3, <1>5, <1>2, <1>6, <1>8, <1>10, <1>11, <1>12, <1>1, <1>17 DEF IInv, ProcessTypeOK, NotifierKept, Putting, Registering, Made, Checking, ExtraIsStuck
<1>28. FoundIsAwaited'
  BY <1>3, <1>5, <1>2, <1>6, <1>8, <1>10, <1>11, <1>12, <1>1, <1>17 DEF IInv, ProcessTypeOK, FoundIsAwaited, Putting, Registering, Made, HashedIsKept, Kept, NotifierKept
<1>29. WorkIsAwaited'
  BY <1>3, <1>5, <1>2, <1>6, <1>8, <1>10, <1>11, <1>12, <1>1, <1>17 DEF IInv, ProcessTypeOK, WorkIsAwaited, ToCancel, NotifierKept, Registering, Made, Putting
<1>30. Unowned'
  BY <1>3, <1>5, <1>2, <1>6, <1>8, <1>10, <1>11, <1>12, <1>1, <1>17 DEF IInv, ProcessTypeOK, Unowned, FoundIsAwaited, Checking, Registering, Made
<1> QED BY <1>20, <1>18, <1>21, <1>22, <1>23, <1>24, <1>25, <1>26, <1>27, <1>28, <1>29, <1>30 DEF IInv, Counted

LEMMA MmExitInv ==
  ASSUME IInv, ~EarlyLookups, NEW m \in Mms, mm_exit(m)
  PROVE  IInv'
<1>1. ProcessTypeOK
  BY DEF IInv
<1>2. \A o \in Threads : Home[o] \in Mms
  BY ProcSetsAssumption
<1>3. mm[m] = "live" /\ \A o \in Threads : Home[o] = m => opener[o].pc \in {"idle", "bug"}
  BY <1>1, <1>2 DEF mm_exit, works, grace, At, Has, Hashed, Registered, ProcessTypeOK
<1>4. \A o \in Threads : Home[o] = m => \A d, x : At(o, d, x) => d \in {"idle", "bug"}
  BY <1>3 DEF At
<1>5. 1 \in Procs
  BY ProcBoundsAssumption DEF Procs
<1>6. opener' = opener /\ \A n \in Threads : \A d, x : At(n, d, x)' <=> At(n, d, x)
  BY DEF mm_exit, works, grace, At
<1>7. user' = user /\ \A v \in Users : \A d, x : Has(v, d, x)' <=> Has(v, d, x)
  BY DEF mm_exit, works, grace, Has
<1>8. st' = st /\ mmof' = mmof /\ files' = files /\ notifier' = notifier /\ extra' = extra /\ work' = work /\ late' = late /\ mutex' = mutex /\ waits' = waits /\ readers' = readers
  BY DEF mm_exit, works, grace
<1>9. mm'[m] = (IF \A x \in Procs : ~(st[x] = "hashed" /\ mmof[x] = m) THEN "gone" ELSE "unhash") /\ \A n \in Mms : n # m => mm'[n] = mm[n]
  BY <1>1, <1>2 DEF mm_exit, works, grace, ProcessTypeOK, Hashed
<1>10. \A x \in Mms : Stuck(x) => Stuck(x)'
  BY <1>3, <1>2, <1>4, <1>6 DEF Stuck
<1>11. (st \in [Procs -> {"none", "hashed", "unhashed", "nomm", "freed"}] /\ mmof \in [Procs -> Mms] /\ pasid \in [Procs -> Pasids \cup {NoPasid}] /\ files \in [Procs -> Nat] /\ notifier \subseteq Procs)'
  BY <1>1 DEF mm_exit, works, grace, ProcessTypeOK
<1>12. (work \subseteq Procs \X Kinds /\ mutex \subseteq Threads /\ waits \in [Threads -> SUBSET Users] /\ readers \in [Mms -> SUBSET Users] /\ opener \in [Threads -> [pc : {"idle", "register", "check", "put", "bug"}, proc : Procs]] /\ user \in [Users -> [pc : {"idle", "found", "held"}, proc : Procs]])'
  BY <1>1 DEF mm_exit, works, grace, ProcessTypeOK
<1>13. (mm \in [Mms -> {"live", "unhash", "sync", "evicted", "restored", "cancel", "gone"}])'
  BY <1>1, <1>2, <1>3, <1>2, <1>4, <1>8, <1>9, <1>10 DEF mm_exit, works, grace, ProcessTypeOK, Reading
<1>14. (extra \subseteq notifier /\ late \subseteq work)'
  BY <1>2, <1>4, <1>8, <1>9, <1>10, <1>1 DEF ProcessTypeOK, Registered
<1>15. \A x \in Procs : files[x] \in Nat /\ files'[x] \in Nat
  BY <1>1, <1>11, <1>12, <1>13, <1>14 DEF ProcessTypeOK
<1>16. \A q \in Procs : ref'[q] = Holders(q)' /\ ref'[q] \in Nat
  <2> SUFFICES ASSUME NEW q \in Procs PROVE ref'[q] = Holders(q)' /\ ref'[q] \in Nat
    OBVIOUS
  <2>1. Holders(q) = Terms(q) /\ Holders(q)' = Terms(q)'
    BY HoldersByTerm
  <2>2. ref[q] = Terms(q) /\ ref[q] \in Nat
    BY <2>1 DEF IInv, Counted, ProcessTypeOK
  <2>3. /\ IsFiniteSet(Checks(q)) /\ IsFiniteSet(Helds(q))
        /\ Cardinality(Checks(q)) \in Nat /\ Cardinality(Helds(q)) \in Nat
        /\ Ones(Kept(q)) \in 0 .. 1
    BY TermTypes
  <2>4. Kept(q)' <=> Kept(q)
    BY <1>3, <1>2, <1>4, <1>6, <1>7, <1>8, <1>9, <1>10 DEF IInv, Registering, Checking, Putting, Dying, Made, Kept
  <2>5. Ones(Kept(q)') = Ones(Kept(q))
    BY <2>4, OnesOf
  <2>6. Checks(q)' = Checks(q)
    BY <1>3, <1>2, <1>4, <1>6, <1>7, <1>8, <1>9, <1>10 DEF Checks
  <2>7. Cardinality(Checks(q)') = Cardinality(Checks(q))
    BY <2>6
  <2>8. Helds(q)' = Helds(q)
    BY <1>3, <1>2, <1>4, <1>6, <1>7, <1>8, <1>9, <1>10 DEF Helds
  <2>9. Cardinality(Helds(q)') = Cardinality(Helds(q))
    BY <2>8
  <2>10. ref'[q] = ref[q]
    BY <1>1, <2>2 DEF mm_exit, works, grace, ProcessTypeOK
  <2>20. Ones(Kept(q)') \in 0 .. 1 /\ Cardinality(Checks(q)') \in Nat /\ Cardinality(Helds(q)') \in Nat
    <3>1. (Checks(q)' \subseteq Threads) /\ (Helds(q)' \subseteq Users)
      BY DEF Checks, Helds
    <3>2. IsFiniteSet(Checks(q)') /\ IsFiniteSet(Helds(q)')
      BY <3>1, FS_Subset, ProcSetsAssumption
    <3>3. Ones(Kept(q)') \in 0 .. 1
      BY DEF Ones
    <3> QED BY <3>2, <3>3, FS_CardinalityType
  <2>21. Terms(q) = Ones(Kept(q)) + files[q] + Cardinality(Checks(q)) + Cardinality(Helds(q))
    BY DEF Terms
  <2>22. Terms(q)' = Ones(Kept(q)') + files'[q] + Cardinality(Checks(q)') + Cardinality(Helds(q)')
    BY TermsNext
  <2>23. files'[q] = files[q] /\ files[q] \in Nat /\ files'[q] \in Nat
    BY <1>15, <1>8
  <2> HIDE DEF mm_exit, IInv
  <2> QED BY <2>1, <2>2, <2>3, <2>5, <2>7, <2>9, <2>10, <2>20, <2>21, <2>22, <2>23
<1>17. (ref \in [Procs -> Nat])'
  BY <1>16, <1>1 DEF mm_exit, works, grace, ProcessTypeOK
<1>18. ProcessTypeOK'
  BY <1>11, <1>12, <1>13, <1>14, <1>17 DEF ProcessTypeOK
<1>19. Registering'
  BY <1>3, <1>2, <1>4, <1>6, <1>7, <1>8, <1>9, <1>10, <1>1, <1>15 DEF IInv, ProcessTypeOK, Registering, Made
<1>20. Dying'
  BY <1>3, <1>2, <1>4, <1>6, <1>7, <1>8, <1>9, <1>10, <1>1, <1>15 DEF IInv, ProcessTypeOK, Dying, Made, Registering, Checking
<1>21. Checking'
  BY <1>3, <1>2, <1>4, <1>6, <1>7, <1>8, <1>9, <1>10, <1>1, <1>15 DEF IInv, ProcessTypeOK, Checking, Registering, Dying, Made, HashedIsKept, NotifierKept
<1>22. Putting'
  BY <1>3, <1>2, <1>4, <1>6, <1>7, <1>8, <1>9, <1>10, <1>1, <1>15 DEF IInv, ProcessTypeOK, Putting
<1>23. ExtraIsStuck'
  BY <1>3, <1>2, <1>4, <1>6, <1>7, <1>8, <1>9, <1>10, <1>1, <1>15 DEF IInv, ProcessTypeOK, ExtraIsStuck, Registered, Stuck
<1>24. HashedIsKept'
  BY <1>3, <1>2, <1>4, <1>6, <1>7, <1>8, <1>9, <1>10, <1>1, <1>15 DEF IInv, ProcessTypeOK, HashedIsKept, Kept, Registering, Checking, Made
<1>25. NotifierKept'
  BY <1>3, <1>2, <1>4, <1>6, <1>7, <1>8, <1>9, <1>10, <1>1, <1>15 DEF IInv, ProcessTypeOK, NotifierKept, Putting, Registering, Made, Checking, ExtraIsStuck
<1>26. FoundIsAwaited'
  BY <1>3, <1>2, <1>4, <1>6, <1>7, <1>8, <1>9, <1>10, <1>1, <1>15 DEF IInv, ProcessTypeOK, FoundIsAwaited, Putting, Registering, Made, HashedIsKept, Kept, NotifierKept
<1>27. WorkIsAwaited'
  BY <1>3, <1>2, <1>4, <1>6, <1>7, <1>8, <1>9, <1>10, <1>1, <1>15 DEF IInv, ProcessTypeOK, WorkIsAwaited, ToCancel, NotifierKept, Registering, Made, Putting
<1>28. Unowned'
  BY <1>3, <1>2, <1>4, <1>6, <1>7, <1>8, <1>9, <1>10, <1>1, <1>15 DEF IInv, ProcessTypeOK, Unowned, FoundIsAwaited, Checking, Registering, Made
<1> QED BY <1>18, <1>16, <1>19, <1>20, <1>21, <1>22, <1>23, <1>24, <1>25, <1>26, <1>27, <1>28 DEF IInv, Counted

LEMMA ReleaseUnhashInv ==
  ASSUME IInv, ~EarlyLookups, NEW m \in Mms, release_unhash(m)
  PROVE  IInv'
<1>1. ProcessTypeOK
  BY DEF IInv
<1>2. \A o \in Threads : Home[o] \in Mms
  BY ProcSetsAssumption
<1>3. mm[m] = "unhash" /\ mutex = {}
  BY <1>1, <1>2 DEF release_unhash, works, grace, At, Has, Hashed, Registered, ProcessTypeOK
<1>4. \A o \in Threads : \A x \in Procs : ~At(o, "register", x) /\ ~At(o, "bug", x)
  BY <1>3 DEF IInv, Registering, Dying, Made
<1>5. 1 \in Procs
  BY ProcBoundsAssumption DEF Procs
<1>6. opener' = opener /\ \A n \in Threads : \A d, x : At(n, d, x)' <=> At(n, d, x)
  BY DEF release_unhash, works, grace, At
<1>7. user' = user /\ \A v \in Users : \A d, x : Has(v, d, x)' <=> Has(v, d, x)
  BY DEF release_unhash, works, grace, Has
<1>8. mmof' = mmof /\ files' = files /\ notifier' = notifier /\ extra' = extra /\ work' = work /\ late' = late /\ mutex' = mutex /\ waits' = waits
  BY DEF release_unhash, works, grace
<1>9. \A x \in Procs : st'[x] = IF st[x] = "hashed" /\ mmof[x] = m THEN "unhashed" ELSE st[x]
  BY <1>1, <1>2 DEF release_unhash, works, grace, ProcessTypeOK, Hashed
<1>10. \A n \in Mms : mm'[n] = IF n = m THEN "sync" ELSE mm[n]
  BY <1>1, <1>2 DEF release_unhash, works, grace, ProcessTypeOK, Hashed
<1>11. \A n \in Mms : readers'[n] = IF n = m THEN Reading ELSE readers[n]
  BY <1>1, <1>2 DEF release_unhash, works, grace, ProcessTypeOK, Hashed
<1>12. \A v \in Users : \A x : Has(v, "found", x) => v \in Reading
  BY DEF Has, Reading
<1>13. \A x \in Mms : Stuck(x) => Stuck(x)'
  BY <1>3, <1>2, <1>4, <1>6 DEF Stuck
<1>14. (mmof \in [Procs -> Mms] /\ pasid \in [Procs -> Pasids \cup {NoPasid}] /\ files \in [Procs -> Nat] /\ notifier \subseteq Procs)'
  BY <1>1 DEF release_unhash, works, grace, ProcessTypeOK
<1>15. (work \subseteq Procs \X Kinds /\ mutex \subseteq Threads /\ waits \in [Threads -> SUBSET Users] /\ opener \in [Threads -> [pc : {"idle", "register", "check", "put", "bug"}, proc : Procs]] /\ user \in [Users -> [pc : {"idle", "found", "held"}, proc : Procs]])'
  BY <1>1 DEF release_unhash, works, grace, ProcessTypeOK
<1>16. (st \in [Procs -> {"none", "hashed", "unhashed", "nomm", "freed"}])'
  BY <1>1, <1>2 DEF release_unhash, works, grace, ProcessTypeOK, Reading
<1>17. (mm \in [Mms -> {"live", "unhash", "sync", "evicted", "restored", "cancel", "gone"}])'
  BY <1>1, <1>2, <1>3, <1>2, <1>4, <1>8, <1>9, <1>10, <1>11, <1>12, <1>13 DEF release_unhash, works, grace, ProcessTypeOK, Reading
<1>18. (readers \in [Mms -> SUBSET Users])'
  BY <1>1, <1>2 DEF release_unhash, works, grace, ProcessTypeOK, Reading
<1>19. (extra \subseteq notifier /\ late \subseteq work)'
  BY <1>2, <1>4, <1>8, <1>9, <1>10, <1>11, <1>12, <1>13, <1>1 DEF ProcessTypeOK, Registered
<1>20. \A x \in Procs : files[x] \in Nat /\ files'[x] \in Nat
  BY <1>1, <1>14, <1>15, <1>16, <1>17, <1>18, <1>19 DEF ProcessTypeOK
<1>21. \A q \in Procs : ref'[q] = Holders(q)' /\ ref'[q] \in Nat
  <2> SUFFICES ASSUME NEW q \in Procs PROVE ref'[q] = Holders(q)' /\ ref'[q] \in Nat
    OBVIOUS
  <2>1. Holders(q) = Terms(q) /\ Holders(q)' = Terms(q)'
    BY HoldersByTerm
  <2>2. ref[q] = Terms(q) /\ ref[q] \in Nat
    BY <2>1 DEF IInv, Counted, ProcessTypeOK
  <2>3. /\ IsFiniteSet(Checks(q)) /\ IsFiniteSet(Helds(q))
        /\ Cardinality(Checks(q)) \in Nat /\ Cardinality(Helds(q)) \in Nat
        /\ Ones(Kept(q)) \in 0 .. 1
    BY TermTypes
  <2>4. Kept(q)' <=> Kept(q)
    BY <1>3, <1>2, <1>4, <1>6, <1>7, <1>8, <1>9, <1>10, <1>11, <1>12, <1>13 DEF IInv, Registering, Checking, Putting, Dying, Made, Kept
  <2>5. Ones(Kept(q)') = Ones(Kept(q))
    BY <2>4, OnesOf
  <2>6. Checks(q)' = Checks(q)
    BY <1>3, <1>2, <1>4, <1>6, <1>7, <1>8, <1>9, <1>10, <1>11, <1>12, <1>13 DEF Checks
  <2>7. Cardinality(Checks(q)') = Cardinality(Checks(q))
    BY <2>6
  <2>8. Helds(q)' = Helds(q)
    BY <1>3, <1>2, <1>4, <1>6, <1>7, <1>8, <1>9, <1>10, <1>11, <1>12, <1>13 DEF Helds
  <2>9. Cardinality(Helds(q)') = Cardinality(Helds(q))
    BY <2>8
  <2>10. ref'[q] = ref[q]
    BY <1>1, <2>2 DEF release_unhash, works, grace, ProcessTypeOK
  <2>20. Ones(Kept(q)') \in 0 .. 1 /\ Cardinality(Checks(q)') \in Nat /\ Cardinality(Helds(q)') \in Nat
    <3>1. (Checks(q)' \subseteq Threads) /\ (Helds(q)' \subseteq Users)
      BY DEF Checks, Helds
    <3>2. IsFiniteSet(Checks(q)') /\ IsFiniteSet(Helds(q)')
      BY <3>1, FS_Subset, ProcSetsAssumption
    <3>3. Ones(Kept(q)') \in 0 .. 1
      BY DEF Ones
    <3> QED BY <3>2, <3>3, FS_CardinalityType
  <2>21. Terms(q) = Ones(Kept(q)) + files[q] + Cardinality(Checks(q)) + Cardinality(Helds(q))
    BY DEF Terms
  <2>22. Terms(q)' = Ones(Kept(q)') + files'[q] + Cardinality(Checks(q)') + Cardinality(Helds(q)')
    BY TermsNext
  <2>23. files'[q] = files[q] /\ files[q] \in Nat /\ files'[q] \in Nat
    BY <1>20, <1>8
  <2> HIDE DEF release_unhash, IInv
  <2> QED BY <2>1, <2>2, <2>3, <2>5, <2>7, <2>9, <2>10, <2>20, <2>21, <2>22, <2>23
<1>22. (ref \in [Procs -> Nat])'
  BY <1>21, <1>1 DEF release_unhash, works, grace, ProcessTypeOK
<1>23. ProcessTypeOK'
  BY <1>14, <1>15, <1>16, <1>17, <1>18, <1>19, <1>22 DEF ProcessTypeOK
<1>24. Registering'
  BY <1>3, <1>2, <1>4, <1>6, <1>7, <1>8, <1>9, <1>10, <1>11, <1>12, <1>13, <1>1, <1>20 DEF IInv, ProcessTypeOK, Registering, Made, Checking
<1>25. Dying'
  BY <1>3, <1>2, <1>4, <1>6, <1>7, <1>8, <1>9, <1>10, <1>11, <1>12, <1>13, <1>1, <1>20 DEF IInv, ProcessTypeOK, Dying, Made, Registering, Checking
<1>26. Checking'
  BY <1>3, <1>2, <1>4, <1>6, <1>7, <1>8, <1>9, <1>10, <1>11, <1>12, <1>13, <1>1, <1>20 DEF IInv, ProcessTypeOK, Checking, Registering, Dying, Made, HashedIsKept, NotifierKept
<1>27. Putting'
  BY <1>3, <1>2, <1>4, <1>6, <1>7, <1>8, <1>9, <1>10, <1>11, <1>12, <1>13, <1>1, <1>20 DEF IInv, ProcessTypeOK, Putting, Registering, Made
<1>28. ExtraIsStuck'
  BY <1>3, <1>2, <1>4, <1>6, <1>7, <1>8, <1>9, <1>10, <1>11, <1>12, <1>13, <1>1, <1>20 DEF IInv, ProcessTypeOK, ExtraIsStuck, Registered, Stuck
<1>29. HashedIsKept'
  BY <1>3, <1>2, <1>4, <1>6, <1>7, <1>8, <1>9, <1>10, <1>11, <1>12, <1>13, <1>1, <1>20 DEF IInv, ProcessTypeOK, HashedIsKept, Kept, Registering, Checking, Made
<1>30. NotifierKept'
  BY <1>3, <1>2, <1>4, <1>6, <1>7, <1>8, <1>9, <1>10, <1>11, <1>12, <1>13, <1>1, <1>20 DEF IInv, ProcessTypeOK, NotifierKept, Putting, Registering, Made, Checking, ExtraIsStuck
<1>31. FoundIsAwaited'
  BY <1>3, <1>2, <1>4, <1>6, <1>7, <1>8, <1>9, <1>10, <1>11, <1>12, <1>13, <1>1, <1>20 DEF IInv, ProcessTypeOK, FoundIsAwaited, Putting, Registering, Made, HashedIsKept, Kept, NotifierKept
<1>32. WorkIsAwaited'
  BY <1>3, <1>2, <1>4, <1>6, <1>7, <1>8, <1>9, <1>10, <1>11, <1>12, <1>13, <1>1, <1>20 DEF IInv, ProcessTypeOK, WorkIsAwaited, ToCancel, NotifierKept, Registering, Made, Putting
<1>33. Unowned'
  BY <1>3, <1>2, <1>4, <1>6, <1>7, <1>8, <1>9, <1>10, <1>11, <1>12, <1>13, <1>1, <1>20 DEF IInv, ProcessTypeOK, Unowned, FoundIsAwaited, Checking, Registering, Made
<1> QED BY <1>23, <1>21, <1>24, <1>25, <1>26, <1>27, <1>28, <1>29, <1>30, <1>31, <1>32, <1>33 DEF IInv, Counted

LEMMA CancelInv ==
  ASSUME IInv, ~EarlyLookups, NEW m \in Mms, NEW from, NEW k \in Kinds, NEW to,
         \/ from = "sync" /\ k = "evict" /\ to = "evicted" /\ readers[m] = {}
         \/ from = "evicted" /\ k = "restore" /\ to = "restored"
         \/ from = "restored" /\ k = "svm" /\ to = "cancel",
         cancel(m, from, k, to)
  PROVE  IInv'
<1>1. ProcessTypeOK
  BY DEF IInv
<1>2. \A o \in Threads : Home[o] \in Mms
  BY ProcSetsAssumption
<1>3. mm[m] = from
  BY <1>1, <1>2 DEF cancel, works, grace, At, Has, Hashed, Registered, ProcessTypeOK
<1>4. 
      \/ from = "sync" /\ k = "evict" /\ to = "evicted" /\ readers[m] = {}
      \/ from = "evicted" /\ k = "restore" /\ to = "restored"
      \/ from = "restored" /\ k = "svm" /\ to = "cancel"
  OBVIOUS
<1>5. 1 \in Procs
  BY ProcBoundsAssumption DEF Procs
<1>6. opener' = opener /\ \A n \in Threads : \A d, x : At(n, d, x)' <=> At(n, d, x)
  BY DEF cancel, works, grace, At
<1>7. user' = user /\ \A v \in Users : \A d, x : Has(v, d, x)' <=> Has(v, d, x)
  BY DEF cancel, works, grace, Has
<1>8. st' = st /\ mmof' = mmof /\ files' = files /\ notifier' = notifier /\ extra' = extra /\ mutex' = mutex /\ waits' = waits /\ readers' = readers
  BY DEF cancel, works, grace
<1>9. work' = work \ (Released(m) \X {k})
  BY <1>1, <1>2 DEF cancel, works, grace, ProcessTypeOK, Hashed
<1>10. late' = late \ (Released(m) \X {k})
  BY <1>1, <1>2 DEF cancel, works, grace, ProcessTypeOK, Hashed
<1>11. \A n \in Mms : mm'[n] = IF n = m THEN to ELSE mm[n]
  BY <1>1, <1>2 DEF cancel, works, grace, ProcessTypeOK, Hashed
<1>12. \A x \in Mms : Stuck(x) => Stuck(x)'
  BY <1>3, <1>2, <1>4, <1>6 DEF Stuck
<1>13. (st \in [Procs -> {"none", "hashed", "unhashed", "nomm", "freed"}] /\ mmof \in [Procs -> Mms] /\ pasid \in [Procs -> Pasids \cup {NoPasid}] /\ files \in [Procs -> Nat] /\ notifier \subseteq Procs)'
  BY <1>1 DEF cancel, works, grace, ProcessTypeOK
<1>14. (mutex \subseteq Threads /\ waits \in [Threads -> SUBSET Users] /\ readers \in [Mms -> SUBSET Users] /\ opener \in [Threads -> [pc : {"idle", "register", "check", "put", "bug"}, proc : Procs]] /\ user \in [Users -> [pc : {"idle", "found", "held"}, proc : Procs]])'
  BY <1>1 DEF cancel, works, grace, ProcessTypeOK
<1>15. (work \subseteq Procs \X Kinds)'
  BY <1>1, <1>2, <1>3, <1>2, <1>4, <1>8, <1>9, <1>10, <1>11, <1>12 DEF cancel, works, grace, ProcessTypeOK, Reading
<1>16. (mm \in [Mms -> {"live", "unhash", "sync", "evicted", "restored", "cancel", "gone"}])'
  BY <1>1, <1>2, <1>3, <1>2, <1>4, <1>8, <1>9, <1>10, <1>11, <1>12 DEF cancel, works, grace, ProcessTypeOK, Reading
<1>17. (extra \subseteq notifier /\ late \subseteq work)'
  BY <1>2, <1>4, <1>8, <1>9, <1>10, <1>11, <1>12, <1>1 DEF ProcessTypeOK, Registered
<1>18. \A x \in Procs : files[x] \in Nat /\ files'[x] \in Nat
  BY <1>1, <1>13, <1>14, <1>15, <1>16, <1>17 DEF ProcessTypeOK
<1>19. \A q \in Procs : ref'[q] = Holders(q)' /\ ref'[q] \in Nat
  <2> SUFFICES ASSUME NEW q \in Procs PROVE ref'[q] = Holders(q)' /\ ref'[q] \in Nat
    OBVIOUS
  <2>1. Holders(q) = Terms(q) /\ Holders(q)' = Terms(q)'
    BY HoldersByTerm
  <2>2. ref[q] = Terms(q) /\ ref[q] \in Nat
    BY <2>1 DEF IInv, Counted, ProcessTypeOK
  <2>3. /\ IsFiniteSet(Checks(q)) /\ IsFiniteSet(Helds(q))
        /\ Cardinality(Checks(q)) \in Nat /\ Cardinality(Helds(q)) \in Nat
        /\ Ones(Kept(q)) \in 0 .. 1
    BY TermTypes
  <2>4. Kept(q)' <=> Kept(q)
    BY <1>3, <1>2, <1>4, <1>6, <1>7, <1>8, <1>9, <1>10, <1>11, <1>12 DEF IInv, Registering, Checking, Putting, Dying, Made, Kept
  <2>5. Ones(Kept(q)') = Ones(Kept(q))
    BY <2>4, OnesOf
  <2>6. Checks(q)' = Checks(q)
    BY <1>3, <1>2, <1>4, <1>6, <1>7, <1>8, <1>9, <1>10, <1>11, <1>12 DEF Checks
  <2>7. Cardinality(Checks(q)') = Cardinality(Checks(q))
    BY <2>6
  <2>8. Helds(q)' = Helds(q)
    BY <1>3, <1>2, <1>4, <1>6, <1>7, <1>8, <1>9, <1>10, <1>11, <1>12 DEF Helds
  <2>9. Cardinality(Helds(q)') = Cardinality(Helds(q))
    BY <2>8
  <2>10. ref'[q] = ref[q]
    BY <1>1, <2>2 DEF cancel, works, grace, ProcessTypeOK
  <2>20. Ones(Kept(q)') \in 0 .. 1 /\ Cardinality(Checks(q)') \in Nat /\ Cardinality(Helds(q)') \in Nat
    <3>1. (Checks(q)' \subseteq Threads) /\ (Helds(q)' \subseteq Users)
      BY DEF Checks, Helds
    <3>2. IsFiniteSet(Checks(q)') /\ IsFiniteSet(Helds(q)')
      BY <3>1, FS_Subset, ProcSetsAssumption
    <3>3. Ones(Kept(q)') \in 0 .. 1
      BY DEF Ones
    <3> QED BY <3>2, <3>3, FS_CardinalityType
  <2>21. Terms(q) = Ones(Kept(q)) + files[q] + Cardinality(Checks(q)) + Cardinality(Helds(q))
    BY DEF Terms
  <2>22. Terms(q)' = Ones(Kept(q)') + files'[q] + Cardinality(Checks(q)') + Cardinality(Helds(q)')
    BY TermsNext
  <2>23. files'[q] = files[q] /\ files[q] \in Nat /\ files'[q] \in Nat
    BY <1>18, <1>8
  <2> HIDE DEF cancel, IInv
  <2> QED BY <2>1, <2>2, <2>3, <2>5, <2>7, <2>9, <2>10, <2>20, <2>21, <2>22, <2>23
<1>20. (ref \in [Procs -> Nat])'
  BY <1>19, <1>1 DEF cancel, works, grace, ProcessTypeOK
<1>21. ProcessTypeOK'
  BY <1>13, <1>14, <1>15, <1>16, <1>17, <1>20 DEF ProcessTypeOK
<1>22. Registering'
  BY <1>3, <1>2, <1>4, <1>6, <1>7, <1>8, <1>9, <1>10, <1>11, <1>12, <1>1, <1>18 DEF IInv, ProcessTypeOK, Registering, Made, Checking
<1>23. Dying'
  BY <1>3, <1>2, <1>4, <1>6, <1>7, <1>8, <1>9, <1>10, <1>11, <1>12, <1>1, <1>18 DEF IInv, ProcessTypeOK, Dying, Made
<1>24. Checking'
  BY <1>3, <1>2, <1>4, <1>6, <1>7, <1>8, <1>9, <1>10, <1>11, <1>12, <1>1, <1>18 DEF IInv, ProcessTypeOK, Checking, Registering, Dying, Made, HashedIsKept, NotifierKept
<1>25. Putting'
  BY <1>3, <1>2, <1>4, <1>6, <1>7, <1>8, <1>9, <1>10, <1>11, <1>12, <1>1, <1>18 DEF IInv, ProcessTypeOK, Putting, Registering, Made
<1>26. ExtraIsStuck'
  BY <1>3, <1>2, <1>4, <1>6, <1>7, <1>8, <1>9, <1>10, <1>11, <1>12, <1>1, <1>18 DEF IInv, ProcessTypeOK, ExtraIsStuck, Registered, Stuck
<1>27. HashedIsKept'
  BY <1>3, <1>2, <1>4, <1>6, <1>7, <1>8, <1>9, <1>10, <1>11, <1>12, <1>1, <1>18 DEF IInv, ProcessTypeOK, HashedIsKept, Kept, Registering, Checking, Made
<1>28. NotifierKept'
  BY <1>3, <1>2, <1>4, <1>6, <1>7, <1>8, <1>9, <1>10, <1>11, <1>12, <1>1, <1>18 DEF IInv, ProcessTypeOK, NotifierKept, Putting, Registering, Made, Checking, ExtraIsStuck
<1>29. FoundIsAwaited'
  BY <1>3, <1>2, <1>4, <1>6, <1>7, <1>8, <1>9, <1>10, <1>11, <1>12, <1>1, <1>18 DEF IInv, ProcessTypeOK, FoundIsAwaited, Putting, Registering, Made, HashedIsKept, Kept, NotifierKept
<1>30. WorkIsAwaited'
  <2> SUFFICES ASSUME NEW q \in Procs, NEW j \in Kinds, NEW n \in Mms, <<q, j>> \in work' \ late', mmof'[q] = n
               PROVE  q \in notifier' /\ (st'[q] = "hashed" \/ (st'[q] = "unhashed" /\ ToCancel(mm'[n], j)))
    BY DEF WorkIsAwaited, ToCancel
  <2>1. <<q, j>> \in work \ late /\ mmof[q] = n /\ ~(q \in Released(m) /\ j = k)
    BY <1>3, <1>2, <1>4, <1>6, <1>7, <1>8, <1>9, <1>10, <1>11, <1>12
  <2>2. q \in notifier /\ (st[q] = "hashed" \/ (st[q] = "unhashed" /\ ToCancel(mm[n], j)))
    BY <2>1 DEF IInv, WorkIsAwaited
  <2>3. st' = st /\ notifier' = notifier /\ mm'[n] = IF n = m THEN to ELSE mm[n]
    BY <1>3, <1>2, <1>4, <1>6, <1>7, <1>8, <1>9, <1>10, <1>11, <1>12
  <2>4. CASE n = m /\ st[q] = "unhashed"
    <3>1. q \in Released(m)
      BY <2>1, <2>2, <2>4 DEF Released
    <3>2. j # k /\ j \in {"evict", "restore", "svm"}
      BY <2>1, <3>1 DEF Kinds
    <3>3. ToCancel(from, j)
      BY <2>2, <2>4, <1>3, <1>2, <1>4, <1>6, <1>7, <1>8, <1>9, <1>10, <1>11, <1>12
    <3>4. ToCancel(to, j)
      BY <3>2, <3>3, <1>3, <1>2, <1>4, <1>6, <1>7, <1>8, <1>9, <1>10, <1>11, <1>12 DEF ToCancel
    <3> QED BY <2>2, <2>3, <2>4, <3>4
  <2>5. CASE ~(n = m /\ st[q] = "unhashed")
    BY <2>2, <2>3, <2>5
  <2> QED BY <2>4, <2>5
<1>31. Unowned'
  BY <1>3, <1>2, <1>4, <1>6, <1>7, <1>8, <1>9, <1>10, <1>11, <1>12, <1>1, <1>18 DEF IInv, ProcessTypeOK, Unowned, FoundIsAwaited, Checking, Registering, Made
<1> QED BY <1>21, <1>19, <1>22, <1>23, <1>24, <1>25, <1>26, <1>27, <1>28, <1>29, <1>30, <1>31 DEF IInv, Counted

LEMMA ReleasePutInv ==
  ASSUME IInv, ~EarlyLookups, NEW m \in Mms, release_put(m)
  PROVE  IInv'
<1>1. ProcessTypeOK
  BY DEF IInv
<1>2. \A o \in Threads : Home[o] \in Mms
  BY ProcSetsAssumption
<1>3. mm[m] = "cancel"
  BY <1>1, <1>2 DEF release_put, works, grace, At, Has, Hashed, Registered, ProcessTypeOK
<1>4. \A x : x \in Released(m) <=> x \in notifier /\ mmof[x] = m /\ st[x] = "unhashed"
  BY DEF Released
<1>5. extra \cap Released(m) = {}
  BY <1>1, <1>2, <1>3, <1>4 DEF IInv, ExtraIsStuck, Stuck, Dying
<1>6. 1 \in Procs
  BY ProcBoundsAssumption DEF Procs
<1>7. opener' = opener /\ \A n \in Threads : \A d, x : At(n, d, x)' <=> At(n, d, x)
  BY DEF release_put, works, grace, At
<1>8. user' = user /\ \A v \in Users : \A d, x : Has(v, d, x)' <=> Has(v, d, x)
  BY DEF release_put, works, grace, Has
<1>9. mmof' = mmof /\ files' = files /\ extra' = extra /\ work' = work /\ late' = late /\ mutex' = mutex /\ waits' = waits /\ readers' = readers
  BY DEF release_put, works, grace
<1>10. \A x \in Procs : st'[x] = IF x \in Released(m) THEN "nomm" ELSE st[x]
  BY <1>1, <1>2 DEF release_put, works, grace, ProcessTypeOK, Hashed
<1>11. notifier' = notifier \ Released(m)
  BY <1>1, <1>2 DEF release_put, works, grace, ProcessTypeOK, Hashed
<1>12. \A n \in Mms : mm'[n] = IF n = m THEN "gone" ELSE mm[n]
  BY <1>1, <1>2 DEF release_put, works, grace, ProcessTypeOK, Hashed
<1>13. \A x \in Mms : Stuck(x) => Stuck(x)'
  BY <1>3, <1>2, <1>4, <1>5, <1>7 DEF Stuck
<1>14. (mmof \in [Procs -> Mms] /\ pasid \in [Procs -> Pasids \cup {NoPasid}] /\ files \in [Procs -> Nat] /\ work \subseteq Procs \X Kinds)'
  BY <1>1 DEF release_put, works, grace, ProcessTypeOK
<1>15. (mutex \subseteq Threads /\ waits \in [Threads -> SUBSET Users] /\ readers \in [Mms -> SUBSET Users] /\ opener \in [Threads -> [pc : {"idle", "register", "check", "put", "bug"}, proc : Procs]] /\ user \in [Users -> [pc : {"idle", "found", "held"}, proc : Procs]])'
  BY <1>1 DEF release_put, works, grace, ProcessTypeOK
<1>16. (st \in [Procs -> {"none", "hashed", "unhashed", "nomm", "freed"}])'
  BY <1>1, <1>2 DEF release_put, works, grace, ProcessTypeOK, Reading
<1>17. (notifier \subseteq Procs)'
  BY <1>1, <1>2 DEF release_put, works, grace, ProcessTypeOK, Reading
<1>18. (mm \in [Mms -> {"live", "unhash", "sync", "evicted", "restored", "cancel", "gone"}])'
  BY <1>1, <1>2, <1>3, <1>2, <1>4, <1>5, <1>9, <1>10, <1>11, <1>12, <1>13 DEF release_put, works, grace, ProcessTypeOK, Reading
<1>19. (extra \subseteq notifier /\ late \subseteq work)'
  BY <1>2, <1>4, <1>5, <1>9, <1>10, <1>11, <1>12, <1>13, <1>1 DEF ProcessTypeOK, Registered
<1>20. \A x \in Procs : files[x] \in Nat /\ files'[x] \in Nat
  BY <1>1, <1>14, <1>15, <1>16, <1>17, <1>18, <1>19 DEF ProcessTypeOK
<1>21. \A q \in Procs : ref'[q] = Holders(q)' /\ ref'[q] \in Nat
  <2> SUFFICES ASSUME NEW q \in Procs PROVE ref'[q] = Holders(q)' /\ ref'[q] \in Nat
    OBVIOUS
  <2>1. Holders(q) = Terms(q) /\ Holders(q)' = Terms(q)'
    BY HoldersByTerm
  <2>2. ref[q] = Terms(q) /\ ref[q] \in Nat
    BY <2>1 DEF IInv, Counted, ProcessTypeOK
  <2>3. /\ IsFiniteSet(Checks(q)) /\ IsFiniteSet(Helds(q))
        /\ Cardinality(Checks(q)) \in Nat /\ Cardinality(Helds(q)) \in Nat
        /\ Ones(Kept(q)) \in 0 .. 1
    BY TermTypes
  <2>4. IF q \in Released(m) THEN ~Kept(q)' /\ Kept(q) ELSE Kept(q)' <=> Kept(q)
    BY <1>3, <1>2, <1>4, <1>5, <1>7, <1>8, <1>9, <1>10, <1>11, <1>12, <1>13 DEF IInv, Registering, Checking, Putting, Dying, Made, NotifierKept, Kept
  <2>5. Ones(Kept(q)') = Ones(Kept(q)) - (IF q \in Released(m) THEN 1 ELSE 0)
    BY <2>4 DEF Ones
  <2>6. Checks(q)' = Checks(q)
    BY <1>3, <1>2, <1>4, <1>5, <1>7, <1>8, <1>9, <1>10, <1>11, <1>12, <1>13 DEF Checks
  <2>7. Cardinality(Checks(q)') = Cardinality(Checks(q))
    BY <2>6
  <2>8. Helds(q)' = Helds(q)
    BY <1>3, <1>2, <1>4, <1>5, <1>7, <1>8, <1>9, <1>10, <1>11, <1>12, <1>13 DEF Helds
  <2>9. Cardinality(Helds(q)') = Cardinality(Helds(q))
    BY <2>8
  <2>10. ref'[q] = ref[q] - (IF q \in Released(m) THEN 1 ELSE 0)
    BY <1>1, <2>2 DEF release_put, works, grace, ProcessTypeOK
  <2>20. Ones(Kept(q)') \in 0 .. 1 /\ Cardinality(Checks(q)') \in Nat /\ Cardinality(Helds(q)') \in Nat
    <3>1. (Checks(q)' \subseteq Threads) /\ (Helds(q)' \subseteq Users)
      BY DEF Checks, Helds
    <3>2. IsFiniteSet(Checks(q)') /\ IsFiniteSet(Helds(q)')
      BY <3>1, FS_Subset, ProcSetsAssumption
    <3>3. Ones(Kept(q)') \in 0 .. 1
      BY DEF Ones
    <3> QED BY <3>2, <3>3, FS_CardinalityType
  <2>21. Terms(q) = Ones(Kept(q)) + files[q] + Cardinality(Checks(q)) + Cardinality(Helds(q))
    BY DEF Terms
  <2>22. Terms(q)' = Ones(Kept(q)') + files'[q] + Cardinality(Checks(q)') + Cardinality(Helds(q)')
    BY TermsNext
  <2>23. files'[q] = files[q] /\ files[q] \in Nat /\ files'[q] \in Nat
    BY <1>20, <1>9
  <2> HIDE DEF release_put, IInv
  <2> QED BY <2>1, <2>2, <2>3, <2>5, <2>7, <2>9, <2>10, <2>20, <2>21, <2>22, <2>23
<1>22. (ref \in [Procs -> Nat])'
  BY <1>21, <1>1 DEF release_put, works, grace, ProcessTypeOK
<1>23. ProcessTypeOK'
  BY <1>14, <1>15, <1>16, <1>17, <1>18, <1>19, <1>22 DEF ProcessTypeOK
<1>24. Registering'
  BY <1>3, <1>2, <1>4, <1>5, <1>7, <1>8, <1>9, <1>10, <1>11, <1>12, <1>13, <1>1, <1>20 DEF IInv, ProcessTypeOK, Registering, Made, Checking
<1>25. Dying'
  BY <1>3, <1>2, <1>4, <1>5, <1>7, <1>8, <1>9, <1>10, <1>11, <1>12, <1>13, <1>1, <1>20 DEF IInv, ProcessTypeOK, Dying, Made, Registering, Checking
<1>26. Checking'
  BY <1>3, <1>2, <1>4, <1>5, <1>7, <1>8, <1>9, <1>10, <1>11, <1>12, <1>13, <1>1, <1>20 DEF IInv, ProcessTypeOK, Checking, Registering, Dying, Made, HashedIsKept, NotifierKept
<1>27. Putting'
  BY <1>3, <1>2, <1>4, <1>5, <1>7, <1>8, <1>9, <1>10, <1>11, <1>12, <1>13, <1>1, <1>20 DEF IInv, ProcessTypeOK, Putting, Registering, Made
<1>28. ExtraIsStuck'
  BY <1>3, <1>2, <1>4, <1>5, <1>7, <1>8, <1>9, <1>10, <1>11, <1>12, <1>13, <1>1, <1>20 DEF IInv, ProcessTypeOK, ExtraIsStuck, Registered, Stuck
<1>29. HashedIsKept'
  BY <1>3, <1>2, <1>4, <1>5, <1>7, <1>8, <1>9, <1>10, <1>11, <1>12, <1>13, <1>1, <1>20 DEF IInv, ProcessTypeOK, HashedIsKept, Kept, Registering, Checking, Made
<1>30. NotifierKept'
  BY <1>3, <1>2, <1>4, <1>5, <1>7, <1>8, <1>9, <1>10, <1>11, <1>12, <1>13, <1>1, <1>20 DEF IInv, ProcessTypeOK, NotifierKept, Putting, Registering, Made, Checking, ExtraIsStuck
<1>31. FoundIsAwaited'
  BY <1>3, <1>2, <1>4, <1>5, <1>7, <1>8, <1>9, <1>10, <1>11, <1>12, <1>13, <1>1, <1>20 DEF IInv, ProcessTypeOK, FoundIsAwaited, Putting, Registering, Made, HashedIsKept, Kept, NotifierKept
<1>32. WorkIsAwaited'
  BY <1>3, <1>2, <1>4, <1>5, <1>7, <1>8, <1>9, <1>10, <1>11, <1>12, <1>13, <1>1, <1>20 DEF IInv, ProcessTypeOK, WorkIsAwaited, ToCancel, NotifierKept, Registering, Made, Putting
<1>33. Unowned'
  BY <1>3, <1>2, <1>4, <1>5, <1>7, <1>8, <1>9, <1>10, <1>11, <1>12, <1>13, <1>1, <1>20 DEF IInv, ProcessTypeOK, Unowned, FoundIsAwaited, Checking, Registering, Made
<1> QED BY <1>23, <1>21, <1>24, <1>25, <1>26, <1>27, <1>28, <1>29, <1>30, <1>31, <1>32, <1>33 DEF IInv, Counted

LEMMA WqReleaseInv ==
  ASSUME IInv, ~EarlyLookups, NEW p \in Procs, wq_release(p)
  PROVE  IInv'
<1>1. ProcessTypeOK
  BY DEF IInv
<1>2. \A o \in Threads : Home[o] \in Mms
  BY ProcSetsAssumption
<1>3. st[p] # "none" /\ ref[p] = 0
  BY <1>1, <1>2 DEF wq_release, works, grace, At, Has, Hashed, Registered, ProcessTypeOK
<1>4. 1 \in Procs
  BY ProcBoundsAssumption DEF Procs
<1>5. opener' = opener /\ \A n \in Threads : \A d, x : At(n, d, x)' <=> At(n, d, x)
  BY DEF wq_release, works, grace, At
<1>6. user' = user /\ \A v \in Users : \A d, x : Has(v, d, x)' <=> Has(v, d, x)
  BY DEF wq_release, works, grace, Has
<1>7. mmof' = mmof /\ files' = files /\ notifier' = notifier /\ extra' = extra /\ work' = work /\ late' = late /\ mm' = mm /\ mutex' = mutex /\ waits' = waits /\ readers' = readers
  BY DEF wq_release, works, grace
<1>8. \A x \in Procs : st'[x] = IF x = p THEN "freed" ELSE st[x]
  BY <1>1, <1>2 DEF wq_release, works, grace, ProcessTypeOK, Hashed
<1>9. \A x \in Mms : Stuck(x) => Stuck(x)'
  BY <1>3, <1>2, <1>5 DEF Stuck
<1>10. (mmof \in [Procs -> Mms] /\ pasid \in [Procs -> Pasids \cup {NoPasid}] /\ files \in [Procs -> Nat] /\ notifier \subseteq Procs /\ work \subseteq Procs \X Kinds)'
  BY <1>1 DEF wq_release, works, grace, ProcessTypeOK
<1>11. (mm \in [Mms -> {"live", "unhash", "sync", "evicted", "restored", "cancel", "gone"}] /\ mutex \subseteq Threads /\ waits \in [Threads -> SUBSET Users] /\ readers \in [Mms -> SUBSET Users] /\ opener \in [Threads -> [pc : {"idle", "register", "check", "put", "bug"}, proc : Procs]] /\ user \in [Users -> [pc : {"idle", "found", "held"}, proc : Procs]])'
  BY <1>1 DEF wq_release, works, grace, ProcessTypeOK
<1>12. (st \in [Procs -> {"none", "hashed", "unhashed", "nomm", "freed"}])'
  BY <1>1, <1>2 DEF wq_release, works, grace, ProcessTypeOK, Reading
<1>13. (extra \subseteq notifier /\ late \subseteq work)'
  BY <1>2, <1>7, <1>8, <1>9, <1>1 DEF ProcessTypeOK, Registered
<1>14. \A x \in Procs : files[x] \in Nat /\ files'[x] \in Nat
  BY <1>1, <1>10, <1>11, <1>12, <1>13 DEF ProcessTypeOK
<1>15. \A q \in Procs : ref'[q] = Holders(q)' /\ ref'[q] \in Nat
  <2> SUFFICES ASSUME NEW q \in Procs PROVE ref'[q] = Holders(q)' /\ ref'[q] \in Nat
    OBVIOUS
  <2>1. Holders(q) = Terms(q) /\ Holders(q)' = Terms(q)'
    BY HoldersByTerm
  <2>2. ref[q] = Terms(q) /\ ref[q] \in Nat
    BY <2>1 DEF IInv, Counted, ProcessTypeOK
  <2>3. /\ IsFiniteSet(Checks(q)) /\ IsFiniteSet(Helds(q))
        /\ Cardinality(Checks(q)) \in Nat /\ Cardinality(Helds(q)) \in Nat
        /\ Ones(Kept(q)) \in 0 .. 1
    BY TermTypes
  <2>4. Kept(q)' <=> Kept(q)
    BY <1>3, <1>2, <1>5, <1>6, <1>7, <1>8, <1>9 DEF IInv, Registering, Checking, Putting, Dying, Made, Kept
  <2>5. Ones(Kept(q)') = Ones(Kept(q))
    BY <2>4, OnesOf
  <2>6. Checks(q)' = Checks(q)
    BY <1>3, <1>2, <1>5, <1>6, <1>7, <1>8, <1>9 DEF Checks
  <2>7. Cardinality(Checks(q)') = Cardinality(Checks(q))
    BY <2>6
  <2>8. Helds(q)' = Helds(q)
    BY <1>3, <1>2, <1>5, <1>6, <1>7, <1>8, <1>9 DEF Helds
  <2>9. Cardinality(Helds(q)') = Cardinality(Helds(q))
    BY <2>8
  <2>10. ref'[q] = ref[q]
    BY <1>1, <2>2 DEF wq_release, works, grace, ProcessTypeOK
  <2>20. Ones(Kept(q)') \in 0 .. 1 /\ Cardinality(Checks(q)') \in Nat /\ Cardinality(Helds(q)') \in Nat
    <3>1. (Checks(q)' \subseteq Threads) /\ (Helds(q)' \subseteq Users)
      BY DEF Checks, Helds
    <3>2. IsFiniteSet(Checks(q)') /\ IsFiniteSet(Helds(q)')
      BY <3>1, FS_Subset, ProcSetsAssumption
    <3>3. Ones(Kept(q)') \in 0 .. 1
      BY DEF Ones
    <3> QED BY <3>2, <3>3, FS_CardinalityType
  <2>21. Terms(q) = Ones(Kept(q)) + files[q] + Cardinality(Checks(q)) + Cardinality(Helds(q))
    BY DEF Terms
  <2>22. Terms(q)' = Ones(Kept(q)') + files'[q] + Cardinality(Checks(q)') + Cardinality(Helds(q)')
    BY TermsNext
  <2>23. files'[q] = files[q] /\ files[q] \in Nat /\ files'[q] \in Nat
    BY <1>14, <1>7
  <2> HIDE DEF wq_release, IInv
  <2> QED BY <2>1, <2>2, <2>3, <2>5, <2>7, <2>9, <2>10, <2>20, <2>21, <2>22, <2>23
<1>16. (ref \in [Procs -> Nat])'
  BY <1>15, <1>1 DEF wq_release, works, grace, ProcessTypeOK
<1>17. ProcessTypeOK'
  BY <1>10, <1>11, <1>12, <1>13, <1>16 DEF ProcessTypeOK
<1>18. Terms(p) = 0 /\ files[p] \in Nat /\ Ones(Kept(p)) \in 0 .. 1 /\ IsFiniteSet(Helds(p)) /\ Cardinality(Helds(p)) \in Nat /\ Cardinality(Checks(p)) \in Nat
  BY <1>3, <1>14, HoldersByTerm, TermTypes DEF IInv, Counted
<1>19. Ones(Kept(p)) = 0 /\ files[p] = 0 /\ Cardinality(Helds(p)) = 0
  BY <1>18 DEF Terms
<1>20. ~Kept(p) /\ files[p] = 0 /\ Helds(p) = {}
  BY <1>18, <1>19, FS_EmptySet DEF Ones
<1>21. p \notin notifier
  BY <1>20 DEF Kept
<1>22. Registering'
  BY <1>20, <1>21, <1>3, <1>2, <1>5, <1>6, <1>7, <1>8, <1>9, <1>1, <1>14 DEF IInv, ProcessTypeOK, Registering, Made, Kept
<1>23. Dying'
  BY <1>20, <1>21, <1>3, <1>2, <1>5, <1>6, <1>7, <1>8, <1>9, <1>1, <1>14 DEF IInv, ProcessTypeOK, Dying, Made, Kept
<1>24. Checking'
  BY <1>20, <1>21, <1>3, <1>2, <1>5, <1>6, <1>7, <1>8, <1>9, <1>1, <1>14 DEF IInv, ProcessTypeOK, Checking, Registering, Dying, Made, HashedIsKept, NotifierKept
<1>25. Putting'
  BY <1>20, <1>21, <1>3, <1>2, <1>5, <1>6, <1>7, <1>8, <1>9, <1>1, <1>14 DEF IInv, ProcessTypeOK, Putting, Registering, Made
<1>26. ExtraIsStuck'
  BY <1>20, <1>21, <1>3, <1>2, <1>5, <1>6, <1>7, <1>8, <1>9, <1>1, <1>14 DEF IInv, ProcessTypeOK, ExtraIsStuck, Registered, Stuck
<1>27. HashedIsKept'
  BY <1>20, <1>21, <1>3, <1>2, <1>5, <1>6, <1>7, <1>8, <1>9, <1>1, <1>14 DEF IInv, ProcessTypeOK, HashedIsKept, Kept, Registering, Checking, Made
<1>28. NotifierKept'
  BY <1>20, <1>21, <1>3, <1>2, <1>5, <1>6, <1>7, <1>8, <1>9, <1>1, <1>14 DEF IInv, ProcessTypeOK, NotifierKept, Putting, Registering, Made, Checking, ExtraIsStuck
<1>29. FoundIsAwaited'
  BY <1>20, <1>21, <1>3, <1>2, <1>5, <1>6, <1>7, <1>8, <1>9, <1>1, <1>14 DEF IInv, ProcessTypeOK, FoundIsAwaited, Putting, Registering, Made, HashedIsKept, Kept, NotifierKept
<1>30. WorkIsAwaited'
  BY <1>20, <1>21, <1>3, <1>2, <1>5, <1>6, <1>7, <1>8, <1>9, <1>1, <1>14 DEF IInv, ProcessTypeOK, WorkIsAwaited, ToCancel, NotifierKept, Registering, Made, Putting
<1>31. Unowned'
  BY <1>20, <1>21, <1>3, <1>2, <1>5, <1>6, <1>7, <1>8, <1>9, <1>1, <1>14 DEF IInv, ProcessTypeOK, Unowned, FoundIsAwaited, Checking, Registering, Made, Helds, Kept
<1> QED BY <1>17, <1>15, <1>22, <1>23, <1>24, <1>25, <1>26, <1>27, <1>28, <1>29, <1>30, <1>31 DEF IInv, Counted

\* A step that only queues, runs or cancels works.
LEMMA WorksOnly ==
  ASSUME IInv, work' \subseteq Procs \X Kinds, late' \subseteq work',
         UNCHANGED <<st, mmof, pasid, ref, notifier, extra, files, mm, opener, mutex, waits, readers, user>>,
         \A p \in Procs, k \in Kinds : <<p, k>> \in work' \ late' =>
           \/ <<p, k>> \in work \ late
           \/ Open(p)
           \/ k = "restore" /\ <<p, "evict">> \in work \ late
  PROVE  IInv'
<1>1. /\ \A t \in Threads : \A d, x : At(t, d, x)' <=> At(t, d, x)
      /\ \A u \in Users : \A d, x : Has(u, d, x)' <=> Has(u, d, x)
      /\ \A m \in Mms : Stuck(m)' <=> Stuck(m)
  BY DEF At, Has, Stuck
<1>2. ProcessTypeOK'
  BY DEF IInv, ProcessTypeOK
<1>3. Registering' /\ Dying' /\ Checking' /\ Putting'
  BY <1>1 DEF IInv, Registering, Dying, Checking, Putting, Made
<1>4. ExtraIsStuck' /\ HashedIsKept'
  BY <1>1 DEF IInv, ExtraIsStuck, HashedIsKept, Kept, Stuck
<1>5. NotifierKept' /\ FoundIsAwaited' /\ Unowned'
  BY <1>1 DEF IInv, NotifierKept, FoundIsAwaited, Unowned
<1>6. WorkIsAwaited'
  <2> SUFFICES ASSUME NEW p \in Procs, NEW k \in Kinds, NEW m \in Mms,
                      <<p, k>> \in work' \ late', mmof[p] = m
               PROVE  p \in notifier /\ (st[p] = "hashed" \/ (st[p] = "unhashed" /\ ToCancel(mm[m], k)))
    BY DEF WorkIsAwaited, ToCancel
  <2>1. CASE <<p, k>> \in work \ late
    BY <2>1 DEF IInv, WorkIsAwaited
  <2>2. CASE Open(p)
    BY <2>2 DEF Open
  <2>3. CASE k = "restore" /\ <<p, "evict">> \in work \ late
    <3>1. "evict" \in Kinds
      BY DEF Kinds
    <3>2. p \in notifier /\ (st[p] = "hashed" \/ (st[p] = "unhashed" /\ ToCancel(mm[m], "evict")))
      BY <2>3, <3>1 DEF IInv, WorkIsAwaited
    <3> QED BY <2>3, <3>2 DEF ToCancel
  <2> QED BY <2>1, <2>2, <2>3
<1>7. Counted'
  BY DEF IInv, Counted, Holders
<1> QED BY <1>2, <1>3, <1>4, <1>5, <1>6, <1>7 DEF IInv

LEMMA QueueInv ==
  ASSUME IInv, NEW p \in Procs, NEW k \in Kinds, Queue(<<p, k>>, Open(p)),
         UNCHANGED <<st, mmof, pasid, ref, notifier, extra, files, mm, opener, mutex, waits, readers, user>>
  PROVE  IInv'
<1>1. work \subseteq Procs \X Kinds /\ late \subseteq work
  BY DEF IInv, ProcessTypeOK
<1>2. work' \subseteq Procs \X Kinds /\ late' \subseteq work'
  BY <1>1 DEF Queue
<1>3. ASSUME NEW q \in Procs, NEW j \in Kinds, <<q, j>> \in work' \ late'
      PROVE  <<q, j>> \in work \ late \/ Open(q)
  BY <1>3 DEF Queue
<1> QED BY <1>2, <1>3, WorksOnly

LEMMA EvictRunInv ==
  ASSUME IInv, NEW p \in Procs, NEW stopped \in BOOLEAN, evict_run(p, stopped)
  PROVE  IInv'
<1> DEFINE w == <<p, "evict">>
           r == <<p, "restore">>
<1>1. work \subseteq Procs \X Kinds /\ late \subseteq work /\ w \in work
  BY DEF IInv, ProcessTypeOK, evict_run
<1>2. /\ work' = (work \ {w}) \cup (IF stopped THEN {r} ELSE {})
      /\ late' = (late \ {w}) \cup (IF stopped /\ w \in late /\ r \notin work THEN {r} ELSE {})
  BY DEF evict_run
<1>3. w # r /\ r \in Procs \X Kinds
  BY DEF Kinds
<1>4. work' \subseteq Procs \X Kinds /\ late' \subseteq work'
  BY <1>1, <1>2, <1>3
<1>5. ASSUME NEW q \in Procs, NEW j \in Kinds, <<q, j>> \in work' \ late'
      PROVE  <<q, j>> \in work \ late \/ (j = "restore" /\ <<q, "evict">> \in work \ late)
  <2>1. CASE <<q, j>> = r
    BY <1>1, <1>2, <1>5, <2>1
  <2>2. CASE <<q, j>> # r
    BY <1>2, <1>5, <2>2
  <2> QED BY <2>1, <2>2
<1>6. UNCHANGED <<st, mmof, pasid, ref, notifier, extra, files, mm, opener, mutex, waits, readers, user>>
  BY DEF evict_run, grace
<1> QED BY <1>4, <1>5, <1>6, WorksOnly

LEMMA RestoreRunInv ==
  ASSUME IInv, NEW p \in Procs, NEW k \in Kinds, restore_run(p, k)
  PROVE  IInv'
<1>1. work \subseteq Procs \X Kinds /\ late \subseteq work
  BY DEF IInv, ProcessTypeOK
<1>2. work' = work \ {<<p, k>>} /\ late' = late \ {<<p, k>>}
  BY DEF restore_run
<1>3. UNCHANGED <<st, mmof, pasid, ref, notifier, extra, files, mm, opener, mutex, waits, readers, user>>
  BY DEF restore_run, grace
<1>4. ASSUME NEW q \in Procs, NEW j \in Kinds, <<q, j>> \in work' \ late'
      PROVE  <<q, j>> \in work \ late
  BY <1>2, <1>4
<1>5. work' \subseteq Procs \X Kinds /\ late' \subseteq work'
  BY <1>1, <1>2
<1> QED BY <1>3, <1>4, <1>5, WorksOnly

\* The works of a process are queued by whoever has it and by its ranges.
LEMMA WorkInv ==
  ASSUME IInv, Work \/ \E u \in Users : user_queue(u) \/ resume_queue(u)
  PROVE  IInv'
<1>1. "evict" \in Kinds /\ "restore" \in Kinds /\ "svm" \in Kinds
  BY DEF Kinds
<1>2. ASSUME NEW u \in Users, user_queue(u) \/ resume_queue(u) PROVE IInv'
  <2>1. user[u].proc \in Procs
    BY DEF IInv, ProcessTypeOK
  <2>2. CASE user_queue(u)
    BY <1>1, <2>1, <2>2, QueueInv DEF user_queue, grace
  <2>3. CASE resume_queue(u)
    BY <1>1, <2>1, <2>3, QueueInv DEF resume_queue, grace
  <2> QED BY <1>2, <2>2, <2>3
<1>3. ASSUME NEW p \in Procs, svm_queue(p) PROVE IInv'
  BY <1>1, <1>3, QueueInv DEF svm_queue, grace
<1> QED BY <1>2, <1>3, EvictRunInv, RestoreRunInv DEF Work

\* Nobody has done anything yet.
LEMMA InitInv == Init => IInv
<1> SUFFICES ASSUME Init PROVE IInv
  OBVIOUS
<1>1. 1 \in Procs
  BY ProcBoundsAssumption DEF Procs
<1>2. ProcessTypeOK
  <2>1. (CHOOSE m \in Mms : TRUE) \in Mms
    BY ProcSetsAssumption
  <2>2. st \in [Procs -> {"none", "hashed", "unhashed", "nomm", "freed"}]
    BY DEF Init
  <2>3. mmof \in [Procs -> Mms] /\ pasid \in [Procs -> Pasids \cup {NoPasid}]
    BY <2>1 DEF Init
  <2>4. ref \in [Procs -> Nat] /\ files \in [Procs -> Nat]
    BY DEF Init
  <2>5. notifier \subseteq Procs /\ extra \subseteq notifier /\ mutex \subseteq Threads
    BY DEF Init
  <2>6. mm \in [Mms -> {"live", "unhash", "sync", "evicted", "restored", "cancel", "gone"}]
    BY DEF Init
  <2>7. opener \in [Threads -> [pc : {"idle", "register", "check", "put", "bug"}, proc : Procs]]
    BY <1>1 DEF Init, Idle
  <2>8. user \in [Users -> [pc : {"idle", "found", "held"}, proc : Procs]]
    BY <1>1 DEF Init, Idle
  <2>9. /\ waits \in [Threads -> SUBSET Users] /\ readers \in [Mms -> SUBSET Users]
        /\ work \subseteq Procs \X Kinds /\ late \subseteq work
    BY DEF Init
  <2> QED BY <2>2, <2>3, <2>4, <2>5, <2>6, <2>7, <2>8, <2>9 DEF ProcessTypeOK
<1>3. \A t \in Threads : \A d, x : At(t, d, x) => d = "idle"
  BY DEF Init, Idle, At
<1>4. \A u \in Users : \A d, x : Has(u, d, x) => d = "idle"
  BY DEF Init, Idle, Has
<1>5. Registering /\ Dying /\ Checking /\ Putting
  BY <1>3 DEF Registering, Dying, Checking, Putting
<1>6. ExtraIsStuck /\ HashedIsKept /\ NotifierKept /\ FoundIsAwaited /\ WorkIsAwaited /\ Unowned
  BY <1>4 DEF Init, ExtraIsStuck, HashedIsKept, NotifierKept, FoundIsAwaited, WorkIsAwaited, Unowned
<1>7. Counted
  <2> SUFFICES ASSUME NEW p \in Procs PROVE ref[p] = Holders(p)
    BY DEF Counted
  <2>1. ~Kept(p) /\ Checks(p) = {} /\ Helds(p) = {}
    BY <1>3, <1>4 DEF Init, Kept, Checks, Helds
  <2>2. Ones(Kept(p)) = 0 /\ Cardinality(Checks(p)) = 0 /\ Cardinality(Helds(p)) = 0
    BY <2>1, FS_EmptySet DEF Ones
  <2>3. ref[p] = 0 /\ files[p] = 0
    BY DEF Init
  <2> QED BY <2>2, <2>3, HoldersByTerm DEF Terms
<1> QED BY <1>2, <1>5, <1>6, <1>7 DEF IInv

\* Every step of the driver, by the lemmas of its actions.
LEMMA NextInv == ASSUME IInv, ~EarlyLookups, [Next]_vars PROVE IInv'
<1>1. CASE Opening
  BY <1>1, OpenFindInv, OpenCreateInv, OpenRegisterInv, OpenRegisterBugInv, OpenRegisterFailsInv, OpenCwsrFailsInv, OpenPutInv, OpenCheckInv DEF Opening
<1>2. CASE Lookup
  BY <1>2, LookupFindInv, LookupGetInv, WorkInv, UserPutInv DEF Lookup
<1>3. ASSUME NEW m \in Mms, release_cancel_eviction(m) \/ release_cancel_restore(m) \/ release_cancel_svm(m)
      PROVE  IInv'
  <2>1. "evict" \in Kinds /\ "restore" \in Kinds /\ "svm" \in Kinds
    BY DEF Kinds
  <2>2. CASE release_cancel_eviction(m)
    BY <2>1, <2>2, CancelInv DEF release_cancel_eviction
  <2>3. CASE release_cancel_restore(m)
    BY <2>1, <2>3, CancelInv DEF release_cancel_restore
  <2>4. CASE release_cancel_svm(m)
    BY <2>1, <2>4, CancelInv DEF release_cancel_svm
  <2> QED BY <1>3, <2>2, <2>3, <2>4
<1>4. CASE Exit
  BY <1>3, <1>4, MmExitInv, ReleaseUnhashInv, ReleasePutInv DEF Exit
<1>5. CASE Work
  BY <1>5, WorkInv
<1>6. CASE \E p \in Procs : close(p) \/ wq_release(p)
  BY <1>6, CloseInv, WqReleaseInv
<1>7. CASE UNCHANGED vars
  <2>1. UNCHANGED <<st, mmof, pasid, ref, notifier, extra, files, work, late, mm, opener, mutex, waits, readers, user>>
    BY <1>7 DEF vars
  <2>2. work' \subseteq Procs \X Kinds /\ late' \subseteq work'
    BY <2>1 DEF IInv, ProcessTypeOK
  <2> QED BY <2>1, <2>2, WorksOnly
<1> QED BY <1>1, <1>2, <1>4, <1>5, <1>6, <1>7 DEF Next
-----------------------------------------------------------------------------
\* The inductive invariant holds: what is in the table or found is kept by a notifier or its
\* creator, and what a grace period or a cancellation waits for is still there.
THEOREM Invariance == ASSUME ~EarlyLookups PROVE Spec => []IInv
<1>1. Init => IInv
  BY InitInv
<1>2. IInv /\ [Next]_vars => IInv'
  BY NextInv
<1> QED BY <1>1, <1>2, PTL DEF Spec

\* The reference count of a process is the number of those who hold a reference, whatever
\* error path of create_process and opu_open was taken and however many threads of an mm
\* take one at a time, for any number of address spaces, files and contexts that look
\* processes up; a thread that dies in create_process counts as a holder.
THEOREM CountIsHolders == ASSUME ~EarlyLookups PROVE Spec => []RefsExact
<1>1. IInv => RefsExact
  BY DEF IInv, Counted, RefsExact
<1> QED BY <1>1, Invariance, PTL

\* What a lookup finds in its SRCU section can be referenced: opu_process_notifier_release
\* and the error path of opu_create_process unhash, wait and put in the right order.
THEOREM LookupsAreSafe == ASSUME ~EarlyLookups PROVE Spec => []FoundIsAlive
<1>1. ASSUME IInv PROVE FoundIsAlive
  <2> SUFFICES ASSUME NEW u \in Users, user[u].pc = "found"
               PROVE  st[user[u].proc] # "freed" /\ ref[user[u].proc] > 0
    BY DEF FoundIsAlive
  <2> DEFINE p == user[u].proc
             m == mmof[p]
  <2>1. p \in Procs /\ m \in Mms /\ Has(u, "found", p)
    BY <1>1 DEF IInv, ProcessTypeOK, Has
  <2> HIDE DEF p, m
  <2>2. m = mmof[p]
    BY DEF m
  <2>3. st[p] # "freed" /\ Kept(p)
    BY <1>1, <2>1, <2>2 DEF IInv, FoundIsAwaited, HashedIsKept, Kept
  <2>4. ref[p] = Terms(p) /\ Ones(Kept(p)) = 1 /\ files[p] \in Nat
    BY <1>1, <2>1, <2>3, HoldersByTerm DEF IInv, Counted, Ones, ProcessTypeOK
  <2>5. Cardinality(Checks(p)) \in Nat /\ Cardinality(Helds(p)) \in Nat
    BY <2>1, TermTypes
  <2>6. ref[p] > 0
    BY <2>4, <2>5 DEF Terms
  <2> QED BY <2>3, <2>6 DEF p
<1> QED BY <1>1, Invariance, PTL

\* A work that was queued while the process was open and in the table is cancelled by the
\* release before the process is put, the works that works queue included; what is queued
\* after the process left the table is not covered.
THEOREM WorksAreSafe == ASSUME ~EarlyLookups PROVE Spec => []WorkHasProcess
<1>1. IInv => WorkHasProcess
  <2> SUFFICES ASSUME IInv, NEW w \in work \ late PROVE st[w[1]] # "freed"
    BY DEF WorkHasProcess
  <2> DEFINE p == w[1]
             k == w[2]
  <2>1. w = <<p, k>> /\ p \in Procs /\ k \in Kinds
    BY DEF IInv, ProcessTypeOK
  <2>2. mmof[p] \in Mms
    BY <2>1 DEF IInv, ProcessTypeOK
  <2>3. p \in notifier
    BY <2>1, <2>2 DEF IInv, WorkIsAwaited
  <2> QED BY <2>2, <2>3 DEF IInv, NotifierKept
<1> QED BY <1>1, Invariance, PTL

\* Nobody is left with a process that was freed: no notifier, file, thread in opu_open or
\* lookup refers to it, then or later, and no work but those queued late.
NothingOfFreed ==
  \A p \in Procs : st[p] = "freed" =>
    /\ p \notin notifier /\ files[p] = 0 /\ ref[p] = 0
    /\ \A t \in Threads : opener[t].pc # "idle" => opener[t].proc # p
    /\ \A u \in Users : user[u].pc # "idle" => user[u].proc # p
    /\ \A k \in Kinds : <<p, k>> \notin work \ late

\* wq_release and the failing registration free a process after its last use, works that
\* were queued for a process out of the table excepted.
THEOREM FreedIsUnused == ASSUME ~EarlyLookups PROVE Spec => []NothingOfFreed
<1>1. ASSUME IInv, NEW p \in Procs, st[p] = "freed"
      PROVE  /\ p \notin notifier /\ files[p] = 0 /\ ref[p] = 0
             /\ \A t \in Threads : opener[t].pc # "idle" => opener[t].proc # p
             /\ \A u \in Users : user[u].pc # "idle" => user[u].proc # p
             /\ \A k \in Kinds : <<p, k>> \notin work \ late
  <2>1. mmof[p] \in Mms
    BY <1>1 DEF IInv, ProcessTypeOK
  <2>2. p \notin notifier /\ \A k \in Kinds : <<p, k>> \notin work \ late
    BY <1>1, <2>1 DEF IInv, NotifierKept, WorkIsAwaited
  <2>3. files[p] = 0 /\ \A u \in Users : ~Has(u, "held", p) /\ ~Has(u, "found", p)
    BY <1>1, <2>1 DEF IInv, Unowned, FoundIsAwaited
  <2>4. \A u \in Users : user[u].pc # "idle" => user[u].proc # p
    <3> SUFFICES ASSUME NEW u \in Users, user[u].pc # "idle" PROVE user[u].proc # p
      OBVIOUS
    <3>1. user[u].pc \in {"idle", "found", "held"}
      BY <1>1 DEF IInv, ProcessTypeOK
    <3> QED BY <3>1, <2>3 DEF Has
  <2>5. \A t \in Threads : /\ ~At(t, "register", p) /\ ~At(t, "bug", p)
                           /\ ~At(t, "check", p) /\ ~At(t, "put", p)
    BY <1>1 DEF IInv, Registering, Dying, Made, Checking, Putting
  <2>6. \A t \in Threads : opener[t].pc # "idle" => opener[t].proc # p
    <3> SUFFICES ASSUME NEW t \in Threads, opener[t].pc # "idle" PROVE opener[t].proc # p
      OBVIOUS
    <3>1. opener[t].pc \in {"idle", "register", "check", "put", "bug"}
      BY <1>1 DEF IInv, ProcessTypeOK
    <3> QED BY <3>1, <2>5 DEF At
  <2>7. ref[p] = 0
    <3>1. ~Kept(p) /\ Checks(p) = {} /\ Helds(p) = {}
      BY <2>2, <2>3, <2>5 DEF Kept, Checks, Helds
    <3>2. Ones(Kept(p)) = 0 /\ Cardinality(Checks(p)) = 0 /\ Cardinality(Helds(p)) = 0
      BY <3>1, FS_EmptySet DEF Ones
    <3> QED BY <1>1, <2>3, <3>2, HoldersByTerm DEF IInv, Counted, Terms
  <2> QED BY <2>2, <2>3, <2>4, <2>6, <2>7
<1>2. IInv => NothingOfFreed
  BY <1>1 DEF NothingOfFreed
<1> QED BY <1>2, Invariance, PTL
-----------------------------------------------------------------------------
\* Processes that exist at the same time have different PASIDs, so that an interrupt is
\* never taken for that of another process.
PasidsExclusive ==
  \A p, q \in Procs :
    /\ p # q
    /\ st[p] \in {"hashed", "unhashed", "nomm"} /\ st[q] \in {"hashed", "unhashed", "nomm"}
    => pasid[p] # pasid[q]

\* opu_pasid_free comes with the end of the process, not with its leaving the table.
THEOREM PasidsAreExclusive == ASSUME ~EarlyLookups PROVE Spec => []PasidsExclusive
<1>1. Init => PasidsExclusive
  BY DEF Init, PasidsExclusive
<1>2. ASSUME IInv, PasidsExclusive, [Next]_vars PROVE PasidsExclusive'
  <2> DEFINE L == {"hashed", "unhashed", "nomm"}
  <2>1. st \in [Procs -> {"none", "hashed", "unhashed", "nomm", "freed"}] /\ pasid \in [Procs -> Pasids \cup {NoPasid}]
    BY <1>2 DEF IInv, ProcessTypeOK
  <2>2. ASSUME NEW t \in Threads, NEW p \in Procs, NEW q \in Pasids, open_create(t, p, q)
        PROVE  PasidsExclusive'
    <3>1. \A o \in Procs : st[o] \in L => pasid[o] # q
      BY <2>2 DEF open_create, UsedPasids
    <3>2. \A o \in Procs : /\ pasid'[o] = IF o = p THEN q ELSE pasid[o]
                           /\ o # p => st'[o] = st[o]
      BY <2>1, <2>2 DEF open_create
    <3> QED BY <1>2, <3>1, <3>2 DEF PasidsExclusive
  <2>3. ASSUME pasid' = pasid, \A p \in Procs : st'[p] \in L => st[p] \in L
        PROVE  PasidsExclusive'
    BY <1>2, <2>3 DEF PasidsExclusive
  <2>4. ASSUME NEW t \in Threads,
               \/ open_register(t) \/ open_register_bug(t) \/ open_register_fails(t)
               \/ open_cwsr_fails(t) \/ open_put(t)
               \/ \E locked \in BOOLEAN : open_check(t, locked)
               \/ \E p \in Procs : open_find(t, p)
        PROVE  PasidsExclusive'
    <3>1. \A p \in Procs : At(t, "register", p) => st[p] = "hashed"
      BY <1>2 DEF IInv, Registering, Made
    <3>2. opener[t].proc \in Procs
      BY <1>2 DEF IInv, ProcessTypeOK
    <3>3. CASE open_cwsr_fails(t)
      <4>1. pasid' = pasid /\ \A p \in Procs : st'[p] = IF p = opener[t].proc THEN "unhashed" ELSE st[p]
        BY <2>1, <3>3 DEF open_cwsr_fails
      <4>2. st[opener[t].proc] = "hashed"
        BY <3>1, <3>2, <3>3 DEF open_cwsr_fails, At
      <4> QED BY <2>3, <4>1, <4>2
    <3>4. CASE open_register_fails(t)
      BY <2>1, <2>3, <3>4 DEF open_register_fails
    <3>5. CASE \/ open_register(t) \/ open_register_bug(t) \/ open_put(t)
               \/ \E locked \in BOOLEAN : open_check(t, locked)
               \/ \E p \in Procs : open_find(t, p)
      BY <2>3, <3>5 DEF open_register, open_register_bug, open_put, open_check, open_find
    <3> QED BY <2>4, <3>3, <3>4, <3>5
  <2>5. CASE Opening
    BY <2>2, <2>4, <2>5 DEF Opening
  <2>6. CASE Lookup
    BY <2>3, <2>6 DEF Lookup, lookup_find, lookup_get, user_queue, resume_queue, user_put
  <2>7. ASSUME NEW m \in Mms,
               \/ release_unhash(m) \/ release_put(m) \/ mm_exit(m)
               \/ release_cancel_eviction(m) \/ release_cancel_restore(m) \/ release_cancel_svm(m)
        PROVE  PasidsExclusive'
    <3>1. CASE release_unhash(m)
      BY <2>1, <2>3, <3>1 DEF release_unhash, Hashed
    <3>2. CASE release_put(m)
      BY <2>1, <2>3, <3>2 DEF release_put, Released
    <3>3. CASE mm_exit(m)
      BY <2>3, <3>3 DEF mm_exit
    <3>4. CASE release_cancel_eviction(m) \/ release_cancel_restore(m) \/ release_cancel_svm(m)
      BY <2>3, <3>4 DEF release_cancel_eviction, release_cancel_restore, release_cancel_svm, cancel
    <3> QED BY <2>7, <3>1, <3>2, <3>3, <3>4
  <2>8. CASE Exit
    BY <2>7, <2>8 DEF Exit
  <2>9. CASE Work
    BY <2>3, <2>9 DEF Work, svm_queue, evict_run, restore_run
  <2>10. ASSUME NEW p \in Procs, close(p) \/ wq_release(p) PROVE PasidsExclusive'
    BY <2>1, <2>3, <2>10 DEF close, wq_release
  <2>11. CASE UNCHANGED vars
    BY <2>3, <2>11 DEF vars
  <2> QED BY <1>2, <2>5, <2>6, <2>8, <2>9, <2>10, <2>11 DEF Next
<1> QED BY <1>1, <1>2, Invariance, PTL DEF Spec
=============================================================================
