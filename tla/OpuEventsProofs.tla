--------------------------- MODULE OpuEventsProofs ---------------------------
(***************************************************************************)
(* Proofs about OpuEvents, for any number of threads, events, slots and    *)
(* signals and any lists of events that user mode waits on: the IDR and    *)
(* the heap agree, an entry of a wait queue is that of a waiter for the    *)
(* event or of one that has lost it, a signal and a waiter never miss each *)
(* other, a thread does not sleep through its wake-up, and the interrupts  *)
(* to come cover the signaled slots.                                       *)
(***************************************************************************)
EXTENDS OpuEvents, FiniteSetTheorems, WellFoundedInduction, TLAPS

\* The IDR and the heap agree.
IdrAgrees ==
  /\ \A id \in Ids : event_idr[id] # NULL =>
        /\ ev[event_idr[id]].live
        /\ ev[event_idr[id]].event_id = id
        /\ gpu_signalable(ev[event_idr[id]].type) <=> id \in SignalIds
  /\ \A o \in Objs : ev[o].live => event_idr[ev[o].event_id] = o

SignalEvents == {o \in Objs : ev[o].live /\ gpu_signalable(ev[o].type)}
Counted == signal_event_count = Cardinality(SignalEvents)

\* An object that was not created yet is not in use, and in nobody's queue.
Fresh ==
  /\ \A o \in Objs : o > created => ~ev[o].live
  /\ \A t \in Threads : \A i \in DOMAIN waiters[t] : waiters[t][i].wq <= created

\* The event that is being destroyed is one, and is still there.
DestroysOne ==
  section.op = "destroy" => \E o \in Objs : section.evs = {o} /\ ev[o].live

\* The thread that unwinds a failed lookup has the mutex.
UnwindHasMutex ==
  /\ \A t \in Threads : pc[t] = "unwind" => section.op = "unwind"
  /\ \A t, u \in Threads : pc[t] = "unwind" /\ pc[u] = "unwind" => t = u

IInv == /\ TypeOK /\ IdrAgrees /\ Counted /\ Fresh /\ DestroysOne /\ UnwindHasMutex
        /\ LinkedWaiters /\ SignaledHasNoSleeper /\ NoSleepingBeauty

\* Before there is a page no slot is signaled.
NoPageNoSlot == alive /\ ~signal_page => slots = {}
-----------------------------------------------------------------------------
(* Operators and sequences. *)

\* idr_alloc finds an id of the range: a set of numbers has a lowest element.
LEMMA LowestIsIn ==
  ASSUME NEW S \in SUBSET Nat, S # {}
  PROVE  Lowest(S) \in S
<1> DEFINE R == {ss \in Nat \X Nat : ss[1] < ss[2]}
<1>1. IsWellFoundedOn(R, Nat)
  BY NatLessThanWellFounded DEF OpToRel
<1> HIDE DEF R
<1>2. \E x \in S : \A y \in S : ~(<<y, x>> \in R)
  BY <1>1, WFMin
<1>3. PICK x \in S : \A y \in S : ~(<<y, x>> \in R)
  BY <1>2
<1>4. \A y \in S : x <= y
  <2> SUFFICES ASSUME NEW y \in S, y < x PROVE <<y, x>> \in R
    <3>1. \A y \in S : y \in Nat /\ x \in Nat /\ ~(y < x) => x <= y
      OBVIOUS
    <3> QED BY <1>3, <3>1
  <2>1. <<y, x>> \in Nat \X Nat /\ <<y, x>>[1] < <<y, x>>[2]
    OBVIOUS
  <2> QED BY <2>1 DEF R
<1> QED BY <1>4 DEF Lowest

\* A function on 1 .. n is a sequence, and a sequence is one.
LEMMA IsSequence ==
  ASSUME NEW S, NEW n \in Nat, NEW f \in [1 .. n -> S]
  PROVE  f \in Seq(S)
OBVIOUS

LEMMA SequenceIs ==
  ASSUME NEW S, NEW s \in Seq(S)
  PROVE  /\ Len(s) \in Nat /\ DOMAIN s = 1 .. Len(s) /\ s \in [1 .. Len(s) -> S]
         /\ s = [i \in DOMAIN s |-> s[i]] /\ \A i \in DOMAIN s : s[i] \in S
OBVIOUS

LEMMA ObjsFinite ==
  IsFiniteSet(Objs) /\ \A S \in SUBSET Objs : IsFiniteSet(S) /\ Cardinality(S) \in Nat
<1>1. IsFiniteSet(Objs)
  BY OpuEventsAssumption, FS_Interval DEF Objs
<1> QED BY <1>1, FS_Subset, FS_CardinalityType

LEMMA ObjsAre == \A o \in Objs : o \in Nat /\ o # NULL /\ o # GARBAGE
BY OpuEventsAssumption DEF Objs, NULL, GARBAGE

LEMMA IdsAre == Ids \subseteq Nat /\ SignalIds \subseteq Ids /\ OtherIds \subseteq Ids /\ 0 \in SignalIds
BY OpuEventsAssumption DEF Ids, SignalIds

\* The fields of a waiter.
LEMMA WaiterFields ==
  ASSUME NEW w \in Waiter
  PROVE  /\ w.event \in Objs \cup {NULL, GARBAGE} /\ w.wq \in Objs \cup {NULL}
         /\ w.activated \in BOOLEAN /\ w.target \in Objs \cup {NULL}
BY DEF Waiter

\* The waiters one by one.
LEMMA WaitersAre ==
  ASSUME TypeOK, NEW t \in Threads
  PROVE  /\ waiters[t] \in Seq(Waiter) /\ Len(waiters[t]) \in Nat
         /\ DOMAIN waiters[t] = 1 .. Len(waiters[t])
         /\ waiters[t] = [i \in DOMAIN waiters[t] |-> waiters[t][i]]
         /\ \A i \in DOMAIN waiters[t] : waiters[t][i] \in Waiter
<1>1. waiters[t] \in Seq(Waiter)
  BY DEF TypeOK
<1> QED BY <1>1, SequenceIs

\* wake_up_all runs the callbacks of the waiters linked into the queues of evs.
LEMMA ActivateFacts ==
  ASSUME TypeOK, NEW evs, waiters' = Activate(evs)
  PROVE  /\ waiters' \in [Threads -> Seq(Waiter)]
         /\ \A t \in Threads :
              /\ DOMAIN waiters'[t] = DOMAIN waiters[t]
              /\ ListedIn(evs, t) = {} => waiters'[t] = waiters[t]
              /\ \A i \in DOMAIN waiters[t] :
                   /\ waiters'[t][i].wq = waiters[t][i].wq
                   /\ waiters'[t][i].event = waiters[t][i].event
                   /\ waiters[t][i].wq \in evs => waiters'[t][i].activated
                   /\ waiters[t][i].activated => waiters'[t][i].activated
<1> SUFFICES ASSUME NEW t \in Threads
    PROVE  /\ waiters'[t] \in Seq(Waiter)
           /\ DOMAIN waiters'[t] = DOMAIN waiters[t]
           /\ ListedIn(evs, t) = {} => waiters'[t] = waiters[t]
           /\ \A i \in DOMAIN waiters[t] :
                /\ waiters'[t][i].wq = waiters[t][i].wq
                /\ waiters'[t][i].event = waiters[t][i].event
                /\ waiters[t][i].wq \in evs => waiters'[t][i].activated
                /\ waiters[t][i].activated => waiters'[t][i].activated
  <2>1. waiters' = [t \in Threads |-> waiters'[t]]
    BY DEF Activate
  <2> QED BY <2>1
<1>1. waiters'[t] = [i \in DOMAIN waiters[t] |->
        IF waiters[t][i].wq \in evs
        THEN [waiters[t][i] EXCEPT !.activated = TRUE] ELSE waiters[t][i]]
  BY DEF Activate
<1>2. DOMAIN waiters'[t] = DOMAIN waiters[t]
  BY <1>1
<1>3. ASSUME NEW i \in DOMAIN waiters[t]
      PROVE  /\ waiters'[t][i] \in Waiter
             /\ waiters'[t][i].wq = waiters[t][i].wq
             /\ waiters'[t][i].event = waiters[t][i].event
             /\ waiters[t][i].wq \in evs => waiters'[t][i].activated
             /\ waiters[t][i].activated => waiters'[t][i].activated
  <2>1. waiters[t][i] \in Waiter
    BY WaitersAre
  <2>2. [waiters[t][i] EXCEPT !.activated = TRUE] \in Waiter
    BY <2>1 DEF Waiter
  <2>3. CASE waiters[t][i].wq \in evs
    <3>1. waiters'[t][i] = [waiters[t][i] EXCEPT !.activated = TRUE]
      BY <1>1, <2>3
    <3> QED BY <2>1, <2>2, <2>3, <3>1 DEF Waiter
  <2>4. CASE waiters[t][i].wq \notin evs
    BY <1>1, <2>1, <2>4
  <2> QED BY <2>3, <2>4
<1>4. waiters'[t] \in Seq(Waiter)
  <2>1. waiters'[t] \in [1 .. Len(waiters[t]) -> Waiter]
    BY <1>1, <1>2, <1>3, WaitersAre
  <2> QED BY <2>1, WaitersAre, IsSequence
<1>5. ListedIn(evs, t) = {} => waiters'[t] = waiters[t]
  <2> SUFFICES ASSUME ListedIn(evs, t) = {} PROVE waiters'[t] = waiters[t]
    OBVIOUS
  <2>1. \A i \in DOMAIN waiters[t] : waiters[t][i].wq \notin evs
    BY DEF ListedIn
  <2>2. waiters'[t] = [i \in DOMAIN waiters[t] |-> waiters[t][i]]
    BY <1>1, <2>1
  <2> QED BY <2>2, WaitersAre
<1> QED BY <1>2, <1>3, <1>4, <1>5

\* destroy_event disconnects the waiters linked into the queues of evs.
LEMMA DisconnectFacts ==
  ASSUME TypeOK, NEW evs, waiters' = Disconnect(evs)
  PROVE  /\ waiters' \in [Threads -> Seq(Waiter)]
         /\ \A t \in Threads :
              /\ DOMAIN waiters'[t] = DOMAIN waiters[t]
              /\ ListedIn(evs, t) = {} => waiters'[t] = waiters[t]
              /\ \A i \in DOMAIN waiters[t] :
                   /\ waiters'[t][i].wq = waiters[t][i].wq
                   /\ waiters'[t][i].activated = waiters[t][i].activated
                   /\ waiters'[t][i].event = IF waiters[t][i].wq \in evs THEN NULL
                                             ELSE waiters[t][i].event
<1> SUFFICES ASSUME NEW t \in Threads
    PROVE  /\ waiters'[t] \in Seq(Waiter)
           /\ DOMAIN waiters'[t] = DOMAIN waiters[t]
           /\ ListedIn(evs, t) = {} => waiters'[t] = waiters[t]
           /\ \A i \in DOMAIN waiters[t] :
                /\ waiters'[t][i].wq = waiters[t][i].wq
                /\ waiters'[t][i].activated = waiters[t][i].activated
                /\ waiters'[t][i].event = IF waiters[t][i].wq \in evs THEN NULL
                                          ELSE waiters[t][i].event
  <2>1. waiters' = [t \in Threads |-> waiters'[t]]
    BY DEF Disconnect
  <2> QED BY <2>1
<1>1. waiters'[t] = [i \in DOMAIN waiters[t] |->
        IF waiters[t][i].wq \in evs
        THEN [waiters[t][i] EXCEPT !.event = NULL] ELSE waiters[t][i]]
  BY DEF Disconnect
<1>2. DOMAIN waiters'[t] = DOMAIN waiters[t]
  BY <1>1
<1>3. ASSUME NEW i \in DOMAIN waiters[t]
      PROVE  /\ waiters'[t][i] \in Waiter
             /\ waiters'[t][i].wq = waiters[t][i].wq
             /\ waiters'[t][i].activated = waiters[t][i].activated
             /\ waiters'[t][i].event = IF waiters[t][i].wq \in evs THEN NULL
                                       ELSE waiters[t][i].event
  <2>1. waiters[t][i] \in Waiter
    BY WaitersAre
  <2>2. [waiters[t][i] EXCEPT !.event = NULL] \in Waiter
    BY <2>1 DEF Waiter
  <2>3. CASE waiters[t][i].wq \in evs
    <3>1. waiters'[t][i] = [waiters[t][i] EXCEPT !.event = NULL]
      BY <1>1, <2>3
    <3> QED BY <2>1, <2>2, <2>3, <3>1 DEF Waiter
  <2>4. CASE waiters[t][i].wq \notin evs
    BY <1>1, <2>1, <2>4
  <2> QED BY <2>3, <2>4
<1>4. waiters'[t] \in Seq(Waiter)
  <2>1. waiters'[t] \in [1 .. Len(waiters[t]) -> Waiter]
    BY <1>1, <1>2, <1>3, WaitersAre
  <2> QED BY <2>1, WaitersAre, IsSequence
<1>5. ListedIn(evs, t) = {} => waiters'[t] = waiters[t]
  <2> SUFFICES ASSUME ListedIn(evs, t) = {} PROVE waiters'[t] = waiters[t]
    OBVIOUS
  <2>1. \A i \in DOMAIN waiters[t] : waiters[t][i].wq \notin evs
    BY DEF ListedIn
  <2>2. waiters'[t] = [i \in DOMAIN waiters[t] |-> waiters[t][i]]
    BY <1>1, <2>1
  <2> QED BY <2>2, WaitersAre
<1> QED BY <1>2, <1>3, <1>4, <1>5

\* autoremove_wake_function unlinks entries.
LEMMA UnlinkFacts ==
  ASSUME TypeOK, NEW unlink,
         waiters' = [t \in Threads |-> [i \in DOMAIN waiters[t] |->
              IF i \in unlink[t] THEN [waiters[t][i] EXCEPT !.wq = NULL]
                                 ELSE waiters[t][i]]]
  PROVE  /\ waiters' \in [Threads -> Seq(Waiter)]
         /\ \A t \in Threads :
              /\ DOMAIN waiters'[t] = DOMAIN waiters[t]
              /\ unlink[t] = {} => waiters'[t] = waiters[t]
              /\ \A i \in DOMAIN waiters[t] :
                   /\ waiters'[t][i].event = waiters[t][i].event
                   /\ waiters'[t][i].activated = waiters[t][i].activated
                   /\ waiters'[t][i].wq = waiters[t][i].wq \/ waiters'[t][i].wq = NULL
<1> SUFFICES ASSUME NEW t \in Threads
    PROVE  /\ waiters'[t] \in Seq(Waiter)
           /\ DOMAIN waiters'[t] = DOMAIN waiters[t]
           /\ unlink[t] = {} => waiters'[t] = waiters[t]
           /\ \A i \in DOMAIN waiters[t] :
                /\ waiters'[t][i].event = waiters[t][i].event
                /\ waiters'[t][i].activated = waiters[t][i].activated
                /\ waiters'[t][i].wq = waiters[t][i].wq \/ waiters'[t][i].wq = NULL
  <2>1. waiters' = [t \in Threads |-> waiters'[t]]
    OBVIOUS
  <2> QED BY <2>1
<1>1. waiters'[t] = [i \in DOMAIN waiters[t] |->
              IF i \in unlink[t] THEN [waiters[t][i] EXCEPT !.wq = NULL]
                                 ELSE waiters[t][i]]
  OBVIOUS
<1>2. DOMAIN waiters'[t] = DOMAIN waiters[t]
  BY <1>1
<1>3. ASSUME NEW i \in DOMAIN waiters[t]
      PROVE  /\ waiters'[t][i] \in Waiter
             /\ waiters'[t][i].event = waiters[t][i].event
             /\ waiters'[t][i].activated = waiters[t][i].activated
             /\ waiters'[t][i].wq = waiters[t][i].wq \/ waiters'[t][i].wq = NULL
  <2>1. waiters[t][i] \in Waiter
    BY WaitersAre
  <2>2. [waiters[t][i] EXCEPT !.wq = NULL] \in Waiter
    BY <2>1 DEF Waiter
  <2>3. CASE i \in unlink[t]
    <3>1. waiters'[t][i] = [waiters[t][i] EXCEPT !.wq = NULL]
      BY <1>1, <2>3
    <3> QED BY <2>1, <2>2, <3>1 DEF Waiter
  <2>4. CASE i \notin unlink[t]
    BY <1>1, <2>1, <2>4
  <2> QED BY <2>3, <2>4
<1>4. waiters'[t] \in Seq(Waiter)
  <2>1. waiters'[t] \in [1 .. Len(waiters[t]) -> Waiter]
    BY <1>1, <1>2, <1>3, WaitersAre
  <2> QED BY <2>1, WaitersAre, IsSequence
<1>5. unlink[t] = {} => waiters'[t] = waiters[t]
  <2> SUFFICES ASSUME unlink[t] = {} PROVE waiters'[t] = waiters[t]
    OBVIOUS
  <2>2. waiters'[t] = [i \in DOMAIN waiters[t] |-> waiters[t][i]]
    BY <1>1
  <2> QED BY <2>2, WaitersAre
<1> QED BY <1>2, <1>3, <1>4, <1>5
-----------------------------------------------------------------------------
(* Frames: what a step that leaves something alone preserves. *)

\* A step that leaves the identity of the events alone.
SameEvents ==
  \A o \in Objs : /\ ev'[o].live = ev[o].live /\ ev'[o].type = ev[o].type
                  /\ ev'[o].auto_reset = ev[o].auto_reset /\ ev'[o].event_id = ev[o].event_id

\* The fields of an event.
LEMMA EventFields ==
  ASSUME TypeOK, NEW o \in Objs
  PROVE  /\ ev[o] \in Event /\ ev[o].live \in BOOLEAN /\ ev[o].auto_reset \in BOOLEAN
         /\ ev[o].signaled \in BOOLEAN /\ ev[o].event_id \in Ids /\ ev[o].data \in Nat
         /\ ev[o].type \in {SIGNAL, DEBUG, HW_EXCEPTION, MEMORY}
<1>1. ev[o] \in Event
  BY DEF TypeOK
<1> QED BY <1>1 DEF Event

LEMMA IdrFrame ==
  ASSUME IInv, SameEvents, event_idr' = event_idr, signal_event_count' = signal_event_count
  PROVE  IdrAgrees' /\ Counted'
<1>1. SignalEvents' = SignalEvents
  BY DEF SameEvents, SignalEvents
<1>2. Counted'
  BY <1>1 DEF IInv, Counted
<1>3. \A id \in Ids : event_idr[id] # NULL => event_idr[id] \in Objs
  BY DEF IInv, TypeOK
<1>4. IdrAgrees'
  BY <1>3 DEF SameEvents, IInv, IdrAgrees
<1> QED BY <1>2, <1>4

\* A step of other parts.
LEMMA QuietStep ==
  ASSUME IInv, UNCHANGED <<idrVars, ev, section, pc, task_state, waiters, wait>>
  PROVE  /\ IdrAgrees' /\ Counted' /\ Fresh' /\ DestroysOne' /\ UnwindHasMutex'
         /\ LinkedWaiters' /\ SignaledHasNoSleeper' /\ NoSleepingBeauty'
<1> USE DEF idrVars, IInv
<1>1. IdrAgrees' /\ Counted'
  BY IdrFrame DEF SameEvents
<1>2. Fresh' /\ DestroysOne' /\ UnwindHasMutex'
  BY DEF Fresh, DestroysOne, UnwindHasMutex
<1>3. LinkedWaiters'
  BY DEF LinkedWaiters, Dying
<1>4. SignaledHasNoSleeper'
  BY DEF SignaledHasNoSleeper
<1>5. NoSleepingBeauty'
  BY DEF NoSleepingBeauty, ListedIn
<1> QED BY <1>1, <1>2, <1>3, <1>4, <1>5

\* A step of thread t in the loop of opu_wait_on_events: it must not go to sleep on a
\* condition that holds.
LEMMA ThreadStep ==
  ASSUME IInv, UNCHANGED <<idrVars, ev, section, waiters>>, NEW t \in Threads,
         pc[t] # "unwind", pc'[t] # "unwind",
         \A u \in Threads : u # t =>
           pc'[u] = pc[u] /\ task_state'[u] = task_state[u] /\ wait'[u] = wait[u],
         pc'[t] = "sleep" =>
           test_event_condition(wait'[t].all, waiters'[t]) = "TIMEOUT"
  PROVE  /\ IdrAgrees' /\ Counted' /\ Fresh' /\ DestroysOne' /\ UnwindHasMutex'
         /\ LinkedWaiters' /\ SignaledHasNoSleeper' /\ NoSleepingBeauty'
<1> USE DEF idrVars, IInv
<1>1. IdrAgrees' /\ Counted'
  BY IdrFrame DEF SameEvents
<1>2. Fresh' /\ DestroysOne' /\ UnwindHasMutex'
  BY DEF Fresh, DestroysOne, UnwindHasMutex
<1>3. LinkedWaiters'
  BY DEF LinkedWaiters, Dying
<1>4. SignaledHasNoSleeper'
  BY DEF SignaledHasNoSleeper
<1>5. NoSleepingBeauty'
  BY DEF NoSleepingBeauty, ListedIn
<1> QED BY <1>1, <1>2, <1>3, <1>4, <1>5

\* set_event up to its wake-up, by whoever signals.
LEMMA SetEventStep ==
  ASSUME IInv, MutexFree, NEW evs \in SUBSET Objs, NEW data \in [Objs -> Nat],
         NEW op \in {"set", "iommu"}, set_event(evs, data), Enter(op, evs),
         UNCHANGED <<idrVars, pc, task_state, wait>>
  PROVE  /\ ev' \in [Objs -> Event] /\ waiters' \in [Threads -> Seq(Waiter)]
         /\ section' \in [op : {"none", "set", "iommu", "data", "destroy", "unwind"},
                          evs : SUBSET Objs]
         /\ IdrAgrees' /\ Counted' /\ Fresh' /\ DestroysOne' /\ UnwindHasMutex'
         /\ LinkedWaiters' /\ SignaledHasNoSleeper' /\ NoSleepingBeauty'
<1>0. /\ waiters' = Activate(evs)
      /\ ev' = [o \in Objs |->
           IF o \in evs
           THEN [ev[o] EXCEPT !.signaled = ~ev[o].auto_reset \/ ~waitqueue_active(o),
                              !.data = data[o]]
           ELSE ev[o]]
  BY Zenon DEF set_event
<1>1. TypeOK /\ section.op = "none"
  BY DEF IInv, MutexFree
<1>2. /\ waiters' \in [Threads -> Seq(Waiter)]
      /\ \A t \in Threads :
              /\ DOMAIN waiters'[t] = DOMAIN waiters[t]
              /\ ListedIn(evs, t) = {} => waiters'[t] = waiters[t]
              /\ \A i \in DOMAIN waiters[t] :
                   /\ waiters'[t][i].wq = waiters[t][i].wq
                   /\ waiters'[t][i].event = waiters[t][i].event
                   /\ waiters[t][i].wq \in evs => waiters'[t][i].activated
                   /\ waiters[t][i].activated => waiters'[t][i].activated
  <2>1. waiters' = Activate(evs)
    BY <1>0, Zenon
  <2> QED BY <1>1, <2>1, ActivateFacts
<1>3. ASSUME NEW o \in Objs
      PROVE  /\ ev'[o] \in Event
             /\ ev'[o].live = ev[o].live /\ ev'[o].type = ev[o].type
             /\ ev'[o].auto_reset = ev[o].auto_reset /\ ev'[o].event_id = ev[o].event_id
             /\ ev'[o].signaled = IF o \in evs THEN ~ev[o].auto_reset \/ ~waitqueue_active(o)
                                  ELSE ev[o].signaled
  <2>1. ev[o] \in Event
    BY <1>1, EventFields
  <2>2. CASE o \in evs
    <3> DEFINE b == ~ev[o].auto_reset \/ ~waitqueue_active(o)
    <3>1. ev'[o] = [ev[o] EXCEPT !.signaled = b, !.data = data[o]]
      BY <1>0, <2>2, Zenon
    <3>2. b \in BOOLEAN /\ data[o] \in Nat
      OBVIOUS
    <3> HIDE DEF b
    <3>3. /\ ev'[o] \in Event /\ ev'[o].signaled = b
          /\ ev'[o].live = ev[o].live /\ ev'[o].type = ev[o].type
          /\ ev'[o].auto_reset = ev[o].auto_reset /\ ev'[o].event_id = ev[o].event_id
      BY <2>1, <3>1, <3>2 DEF Event
    <3> QED BY <2>2, <3>3 DEF b
  <2>3. CASE o \notin evs
    <3>1. ev'[o] = ev[o]
      BY <1>0, <2>3, Zenon
    <3> QED BY <2>1, <2>3, <3>1
  <2> QED BY <2>2, <2>3
<1>4. ev' \in [Objs -> Event] /\ SameEvents
  <2>1. ev' = [o \in Objs |-> ev'[o]]
    BY <1>0, Zenon
  <2> QED BY <1>3, <2>1 DEF SameEvents
<1>5. section' = (IF evs = {} THEN NoSection ELSE [op |-> op, evs |-> evs])
  BY DEF Enter
<1>6. section' \in [op : {"none", "set", "iommu", "data", "destroy", "unwind"}, evs : SUBSET Objs]
  BY <1>5 DEF NoSection
<1>7. section'.op # "destroy" /\ section'.op # "unwind"
      /\ (evs # {} => section'.op \in {"set", "iommu"} /\ section'.evs = evs)
  BY <1>5 DEF NoSection
<1>8. IdrAgrees' /\ Counted'
  BY <1>4, IdrFrame DEF idrVars
<1>9. Fresh'
  <2>1. created' = created
    BY DEF idrVars
  <2> QED BY <1>2, <1>3, <2>1 DEF Fresh, IInv
<1>10. DestroysOne'
  BY <1>7 DEF DestroysOne
<1>11. UnwindHasMutex'
  BY <1>1, <1>7 DEF UnwindHasMutex, IInv
<1>12. LinkedWaiters'
  <2> SUFFICES ASSUME NEW t \in Threads, NEW i \in DOMAIN waiters'[t], waiters'[t][i].wq # NULL
               PROVE  IF ev'[waiters'[t][i].wq].live
                         /\ ~(section'.op = "destroy" /\ waiters'[t][i].wq \in section'.evs)
                      THEN waiters'[t][i].event = waiters'[t][i].wq
                      ELSE waiters'[t][i].event = NULL
    BY <1>7 DEF LinkedWaiters, Dying
  <2>1. i \in DOMAIN waiters[t] /\ waiters[t][i] \in Waiter
    BY <1>1, <1>2, WaitersAre
  <2>2. waiters'[t][i].wq = waiters[t][i].wq /\ waiters'[t][i].event = waiters[t][i].event
    BY <1>2, <2>1
  <2>3. waiters[t][i].wq \in Objs
    BY <2>1, <2>2, WaiterFields
  <2>4. IF ev[waiters[t][i].wq].live THEN waiters[t][i].event = waiters[t][i].wq
                                     ELSE waiters[t][i].event = NULL
    BY <1>1, <2>1, <2>2 DEF IInv, LinkedWaiters, Dying
  <2> QED BY <1>3, <1>7, <2>2, <2>3, <2>4 DEF Dying
<1>13. SignaledHasNoSleeper'
  <2> SUFFICES ASSUME NEW o \in Objs, ev'[o].live, ev'[o].signaled,
                      NEW t \in Threads, NEW i \in DOMAIN waiters'[t], waiters'[t][i].wq = o
               PROVE  waiters'[t][i].activated /\ ~ev'[o].auto_reset
    BY DEF SignaledHasNoSleeper
  <2>1. i \in DOMAIN waiters[t] /\ waiters[t][i].wq = o
    BY <1>2
  <2>2. CASE o \in evs
    <3>1. waitqueue_active(o)
      BY <2>1 DEF waitqueue_active
    <3> QED BY <1>2, <1>3, <2>1, <2>2, <3>1
  <2>3. CASE o \notin evs
    BY <1>2, <1>3, <2>1, <2>3 DEF IInv, SignaledHasNoSleeper
  <2> QED BY <2>2, <2>3
<1>14. NoSleepingBeauty'
  <2> SUFFICES ASSUME NEW t \in Threads, pc'[t] = "sleep", task_state'[t] = "INTERRUPTIBLE",
                      test_event_condition(wait'[t].all, waiters'[t]) # "TIMEOUT"
               PROVE  section'.op \in {"set", "iommu", "destroy"} /\ ListedIn(section.evs, t)' # {}
    BY DEF NoSleepingBeauty
  <2>1. waiters'[t] # waiters[t]
    BY <1>1 DEF IInv, NoSleepingBeauty
  <2>2. ListedIn(evs, t) # {}
    BY <1>2, <2>1
  <2>3. evs # {}
    BY <2>2 DEF ListedIn
  <2> QED BY <1>2, <1>7, <2>2, <2>3 DEF ListedIn
<1> QED BY <1>2, <1>4, <1>6, <1>8, <1>9, <1>10, <1>11, <1>12, <1>13, <1>14
-----------------------------------------------------------------------------
(* One lemma per action. *)

LEMMA OldDataType == ASSUME TypeOK PROVE OldData \in [Objs -> Nat]
BY EventFields DEF OldData

LEMMA NewDataType ==
  ASSUME TypeOK, NEW evs, NEW n \in Nat PROVE NewData(evs, n) \in [Objs -> Nat]
BY EventFields DEF NewData

\* What an id leads to.
LEMMA IdrLeads ==
  ASSUME IInv, NEW id \in Ids, event_idr[id] # NULL
  PROVE  /\ event_idr[id] \in Objs /\ ev[event_idr[id]].live
         /\ ev[event_idr[id]].event_id = id /\ event_idr[id] <= created
<1>1. event_idr[id] \in Objs
  BY DEF IInv, TypeOK
<1>2. ev[event_idr[id]].live /\ ev[event_idr[id]].event_id = id
  BY DEF IInv, IdrAgrees
<1>3. event_idr[id] \in Nat /\ created \in Nat
  BY <1>1, ObjsAre DEF IInv, TypeOK
<1> QED BY <1>1, <1>2, <1>3 DEF IInv, Fresh

LEMMA EventsOfTypeAre ==
  ASSUME IInv, NEW types PROVE EventsOfType(types) \in SUBSET Objs
BY IdsAre, IdrLeads DEF EventsOfType

LEMMA Step_opu_set_event ==
  ASSUME IInv, NEW id \in Ids, opu_set_event(id) PROVE IInv'
<1>1. TypeOK /\ MutexFree /\ event_idr[id] \in Objs
  BY IdrLeads DEF IInv, opu_set_event
<1>2. set_event({event_idr[id]}, OldData) /\ Enter("set", {event_idr[id]})
      /\ UNCHANGED <<idrVars, pc, task_state, wait>>
  BY Zenon DEF opu_set_event
<1>3. {event_idr[id]} \in SUBSET Objs /\ OldData \in [Objs -> Nat]
  BY <1>1, OldDataType
<1>4. /\ ev' \in [Objs -> Event] /\ waiters' \in [Threads -> Seq(Waiter)]
      /\ section' \in [op : {"none", "set", "iommu", "data", "destroy", "unwind"}, evs : SUBSET Objs]
      /\ IdrAgrees' /\ Counted' /\ Fresh' /\ DestroysOne' /\ UnwindHasMutex'
      /\ LinkedWaiters' /\ SignaledHasNoSleeper' /\ NoSleepingBeauty'
  BY <1>1, <1>2, <1>3, SetEventStep
<1>5. /\ UNCHANGED <<alive, event_idr, created, signal_event_count, signal_page, signal_mapped, page_set>>
      /\ UNCHANGED <<slots, interrupts, pc, task_state, wait, wait_result>>
      /\ signals < MaxSignals /\ signals' = signals + 1
  BY DEF opu_set_event, idrVars, pageVars, gpuVars, Send
<1>6. TypeOK'
  BY <1>1, <1>4, <1>5, OpuEventsAssumption DEF TypeOK
<1> QED BY <1>4, <1>6 DEF IInv

\* The target of an interrupt is the lowest signaled id of its class, or all of them.
LEMMA TargetsAre ==
  ASSUME TypeOK, NEW cls PROVE InterruptTargets(cls) \subseteq SignaledIds /\ SignaledIds \subseteq Ids
<1>1. SignaledIds \subseteq Ids /\ SignaledIds \subseteq Nat
  BY IdsAre DEF SignaledIds, TypeOK
<1>2. PartialMatches(cls) \subseteq SignaledIds
  BY DEF PartialMatches
<1>3. PartialMatches(cls) # {} => Lowest(PartialMatches(cls)) \in SignaledIds
  BY <1>1, <1>2, LowestIsIn
<1> QED BY <1>1, <1>3 DEF InterruptTargets

LEMMA Step_opu_signal_event_interrupt ==
  ASSUME IInv, NEW cls \in Classes \cup {NO_ID}, opu_signal_event_interrupt(cls) PROVE IInv'
<1> DEFINE ids == IF signal_page THEN InterruptTargets(cls) ELSE {}
           evs == {event_idr[id] : id \in ids}
<1>1. TypeOK /\ MutexFree
  BY DEF IInv, opu_signal_event_interrupt
<1>2. evs \in SUBSET Objs /\ OldData \in [Objs -> Nat]
  <2>1. \A id \in ids : id \in Ids /\ event_idr[id] # NULL
    BY <1>1, TargetsAre DEF SignaledIds
  <2> QED BY <1>1, <2>1, IdrLeads, OldDataType
<1>3. /\ set_event(evs, OldData) /\ Enter("set", evs)
      /\ UNCHANGED <<idrVars, pc, task_state, wait>>
  BY Zenon DEF opu_signal_event_interrupt
<1>4. /\ UNCHANGED <<alive, event_idr, created, signal_event_count, signal_page, signal_mapped, page_set>>
      /\ UNCHANGED <<signals, pc, task_state, wait, wait_result>>
      /\ slots' = slots \ ids /\ interrupts[cls] > 0
      /\ interrupts' = [interrupts EXCEPT ![cls] = @ - 1]
  BY DEF opu_signal_event_interrupt, idrVars, pageVars
<1> HIDE DEF evs, ids
<1>5. /\ ev' \in [Objs -> Event] /\ waiters' \in [Threads -> Seq(Waiter)]
      /\ section' \in [op : {"none", "set", "iommu", "data", "destroy", "unwind"}, evs : SUBSET Objs]
      /\ IdrAgrees' /\ Counted' /\ Fresh' /\ DestroysOne' /\ UnwindHasMutex'
      /\ LinkedWaiters' /\ SignaledHasNoSleeper' /\ NoSleepingBeauty'
  BY <1>1, <1>2, <1>3, SetEventStep
<1>6. TypeOK'
  <2>1. (interrupts \in [Classes \cup {NO_ID} -> Nat])' /\ (slots \subseteq SignalIds)'
    BY <1>1, <1>4 DEF TypeOK
  <2> QED BY <1>1, <1>4, <1>5, <2>1 DEF TypeOK
<1> QED BY <1>5, <1>6 DEF IInv

LEMMA Step_SignalTypes ==
  ASSUME IInv, NEW types, SignalTypes(types) PROVE IInv'
<1> DEFINE evs == EventsOfType(types)
           data == NewData(evs, signals + 1)
<1>1. TypeOK /\ MutexFree
  BY DEF IInv, SignalTypes
<1>2. evs \in SUBSET Objs /\ data \in [Objs -> Nat]
  <2>1. signals + 1 \in Nat
    BY <1>1, OpuEventsAssumption DEF TypeOK
  <2> QED BY <1>1, <2>1, EventsOfTypeAre, NewDataType
<1>3. /\ set_event(evs, data) /\ Enter("set", evs)
      /\ UNCHANGED <<idrVars, pc, task_state, wait>>
  BY Zenon DEF SignalTypes
<1>4. /\ UNCHANGED <<alive, event_idr, created, signal_event_count, signal_page, signal_mapped, page_set>>
      /\ UNCHANGED <<slots, interrupts, pc, task_state, wait, wait_result>>
      /\ signals < MaxSignals /\ signals' = signals + 1
  BY DEF SignalTypes, idrVars, pageVars, gpuVars, Send
<1> HIDE DEF evs, data
<1>5. /\ ev' \in [Objs -> Event] /\ waiters' \in [Threads -> Seq(Waiter)]
      /\ section' \in [op : {"none", "set", "iommu", "data", "destroy", "unwind"}, evs : SUBSET Objs]
      /\ IdrAgrees' /\ Counted' /\ Fresh' /\ DestroysOne' /\ UnwindHasMutex'
      /\ LinkedWaiters' /\ SignaledHasNoSleeper' /\ NoSleepingBeauty'
  BY <1>1, <1>2, <1>3, SetEventStep
<1>6. TypeOK'
  BY <1>1, <1>4, <1>5, OpuEventsAssumption DEF TypeOK
<1> QED BY <1>5, <1>6 DEF IInv

LEMMA Step_opu_signal_iommu_event ==
  ASSUME IInv, opu_signal_iommu_event PROVE IInv'
<1> DEFINE evs == EventsOfType({MEMORY})
<1>1. TypeOK /\ MutexFree
  BY DEF IInv, opu_signal_iommu_event
<1>2. evs \in SUBSET Objs /\ OldData \in [Objs -> Nat]
  BY <1>1, EventsOfTypeAre, OldDataType
<1>3. /\ set_event(evs, OldData) /\ Enter("iommu", evs)
      /\ UNCHANGED <<idrVars, pc, task_state, wait>>
  BY Zenon DEF opu_signal_iommu_event
<1>4. /\ UNCHANGED <<alive, event_idr, created, signal_event_count, signal_page, signal_mapped, page_set>>
      /\ UNCHANGED <<slots, interrupts, pc, task_state, wait, wait_result>>
      /\ signals < MaxSignals /\ signals' = signals + 1
  BY DEF opu_signal_iommu_event, idrVars, pageVars, gpuVars, Send
<1> HIDE DEF evs
<1>5. /\ ev' \in [Objs -> Event] /\ waiters' \in [Threads -> Seq(Waiter)]
      /\ section' \in [op : {"none", "set", "iommu", "data", "destroy", "unwind"}, evs : SUBSET Objs]
      /\ IdrAgrees' /\ Counted' /\ Fresh' /\ DestroysOne' /\ UnwindHasMutex'
      /\ LinkedWaiters' /\ SignaledHasNoSleeper' /\ NoSleepingBeauty'
  BY <1>1, <1>2, <1>3, SetEventStep
<1>6. TypeOK'
  BY <1>1, <1>4, <1>5, OpuEventsAssumption DEF TypeOK
<1> QED BY <1>5, <1>6 DEF IInv

LEMMA Step_opu_reset_event ==
  ASSUME IInv, NEW id \in Ids, opu_reset_event(id) PROVE IInv'
<1> DEFINE e == event_idr[id]
<1>1. TypeOK /\ e \in Objs /\ section.op = "none"
  BY IdrLeads DEF IInv, opu_reset_event, MutexFree
<1>2. /\ UNCHANGED <<alive, event_idr, created, signal_event_count, signal_page, signal_mapped, page_set>>
      /\ UNCHANGED <<slots, interrupts, section, signals>>
      /\ UNCHANGED <<pc, task_state, waiters, wait, wait_result>>
      /\ ev' = [ev EXCEPT ![e] = [ev[e] EXCEPT !.signaled = FALSE]]
  BY DEF opu_reset_event, idrVars, pageVars, gpuVars, threadVars
<1> HIDE DEF e
<1>3. ASSUME NEW o \in Objs
      PROVE  /\ ev'[o] \in Event
             /\ ev'[o].live = ev[o].live /\ ev'[o].type = ev[o].type
             /\ ev'[o].auto_reset = ev[o].auto_reset /\ ev'[o].event_id = ev[o].event_id
             /\ ev'[o].signaled => ev[o].signaled
  <2>1. ev[o] \in Event /\ ev'[o] = IF o = e THEN [ev[o] EXCEPT !.signaled = FALSE] ELSE ev[o]
    BY <1>1, <1>2, EventFields DEF TypeOK
  <2> QED BY <2>1 DEF Event
<1>4. ev' \in [Objs -> Event] /\ SameEvents
  <2>1. ev' = [o \in Objs |-> ev'[o]]
    BY <1>2, <1>1 DEF TypeOK
  <2> QED BY <1>3, <2>1 DEF SameEvents
<1>5. TypeOK'
  BY <1>1, <1>2, <1>4 DEF TypeOK
<1>6. IdrAgrees' /\ Counted'
  BY <1>2, <1>4, IdrFrame
<1>7. Fresh' /\ DestroysOne' /\ UnwindHasMutex'
  BY <1>1, <1>2, <1>3 DEF IInv, Fresh, DestroysOne, UnwindHasMutex
<1>8. LinkedWaiters'
  <2> SUFFICES ASSUME NEW t \in Threads, NEW i \in DOMAIN waiters[t], waiters[t][i].wq # NULL
               PROVE  IF ev'[waiters[t][i].wq].live
                      THEN waiters[t][i].event = waiters[t][i].wq
                      ELSE waiters[t][i].event = NULL
    BY <1>1, <1>2 DEF LinkedWaiters, Dying
  <2>1. waiters[t][i].wq \in Objs
    BY <1>1, WaitersAre, WaiterFields
  <2> QED BY <1>1, <1>3, <2>1 DEF IInv, LinkedWaiters, Dying
<1>9. SignaledHasNoSleeper'
  BY <1>2, <1>3 DEF IInv, SignaledHasNoSleeper
<1>10. NoSleepingBeauty'
  BY <1>2 DEF IInv, NoSleepingBeauty, ListedIn
<1> QED BY <1>5, <1>6, <1>7, <1>8, <1>9, <1>10 DEF IInv

LEMMA Step_opu_event_destroy ==
  ASSUME IInv, NEW id \in Ids, opu_event_destroy(id) PROVE IInv'
<1> DEFINE e == event_idr[id]
<1>1. TypeOK /\ e \in Objs /\ ev[e].live /\ section.op = "none"
  BY IdrLeads DEF IInv, opu_event_destroy, MutexFree
<1>2. /\ UNCHANGED <<alive, event_idr, created, signal_event_count, signal_page, signal_mapped, page_set>>
      /\ UNCHANGED <<ev, slots, interrupts, signals>>
      /\ UNCHANGED <<pc, task_state, wait, wait_result>>
      /\ waiters' = Disconnect({e}) /\ section' = [op |-> "destroy", evs |-> {e}]
  BY DEF opu_event_destroy, idrVars, pageVars, gpuVars, Enter
<1> HIDE DEF e
<1>3. /\ waiters' \in [Threads -> Seq(Waiter)]
      /\ \A t \in Threads :
              /\ DOMAIN waiters'[t] = DOMAIN waiters[t]
              /\ ListedIn({e}, t) = {} => waiters'[t] = waiters[t]
              /\ \A i \in DOMAIN waiters[t] :
                   /\ waiters'[t][i].wq = waiters[t][i].wq
                   /\ waiters'[t][i].activated = waiters[t][i].activated
                   /\ waiters'[t][i].event = IF waiters[t][i].wq \in {e} THEN NULL
                                             ELSE waiters[t][i].event
  <2> DEFINE S == {e}
  <2>1. waiters' = Disconnect(S)
    BY <1>2
  <2>2. \A t \in Threads : \A i \in DOMAIN waiters[t] : waiters[t][i].wq \in {e} <=> waiters[t][i].wq \in S
    OBVIOUS
  <2>3. \A t \in Threads : ListedIn({e}, t) = ListedIn(S, t)
    OBVIOUS
  <2> HIDE DEF S
  <2>4. /\ waiters' \in [Threads -> Seq(Waiter)]
        /\ \A t \in Threads :
              /\ DOMAIN waiters'[t] = DOMAIN waiters[t]
              /\ ListedIn(S, t) = {} => waiters'[t] = waiters[t]
              /\ \A i \in DOMAIN waiters[t] :
                   /\ waiters'[t][i].wq = waiters[t][i].wq
                   /\ waiters'[t][i].activated = waiters[t][i].activated
                   /\ waiters'[t][i].event = IF waiters[t][i].wq \in S THEN NULL
                                             ELSE waiters[t][i].event
    BY <1>1, <2>1, DisconnectFacts
  <2> QED BY <2>2, <2>3, <2>4
<1>4. section'.op = "destroy" /\ section'.evs = {e}
  BY <1>2
<1>5. TypeOK'
  <2>1. section' \in [op : {"none", "set", "iommu", "data", "destroy", "unwind"}, evs : SUBSET Objs]
    BY <1>1, <1>2
  <2> QED BY <1>1, <1>2, <1>3, <2>1 DEF TypeOK
<1>6. IdrAgrees' /\ Counted'
  BY <1>2, IdrFrame DEF SameEvents
<1>7. Fresh'
  <2>1. created' = created /\ ev' = ev
    BY <1>2
  <2> QED BY <1>3, <2>1 DEF IInv, Fresh
<1>8. DestroysOne' /\ UnwindHasMutex'
  BY <1>1, <1>2, <1>4 DEF IInv, DestroysOne, UnwindHasMutex
<1>9. LinkedWaiters'
  <2> SUFFICES ASSUME NEW t \in Threads, NEW i \in DOMAIN waiters'[t], waiters'[t][i].wq # NULL
               PROVE  IF ev[waiters'[t][i].wq].live /\ waiters'[t][i].wq # e
                      THEN waiters'[t][i].event = waiters'[t][i].wq
                      ELSE waiters'[t][i].event = NULL
    BY <1>2, <1>4 DEF LinkedWaiters, Dying
  <2>1. i \in DOMAIN waiters[t] /\ waiters'[t][i].wq = waiters[t][i].wq
        /\ waiters'[t][i].event = IF waiters[t][i].wq = e THEN NULL ELSE waiters[t][i].event
    BY <1>3
  <2>2. IF ev[waiters[t][i].wq].live THEN waiters[t][i].event = waiters[t][i].wq
                                     ELSE waiters[t][i].event = NULL
    BY <1>1, <2>1 DEF IInv, LinkedWaiters, Dying
  <2> QED BY <2>1, <2>2
<1>10. SignaledHasNoSleeper'
  <2>1. ev' = ev
    BY <1>2
  <2> QED BY <1>3, <2>1 DEF IInv, SignaledHasNoSleeper
<1>11. NoSleepingBeauty'
  <2> SUFFICES ASSUME NEW t \in Threads, pc'[t] = "sleep", task_state'[t] = "INTERRUPTIBLE",
                      test_event_condition(wait'[t].all, waiters'[t]) # "TIMEOUT"
               PROVE  section'.op \in {"set", "iommu", "destroy"} /\ ListedIn(section.evs, t)' # {}
    BY DEF NoSleepingBeauty
  <2>1. waiters'[t] # waiters[t]
    BY <1>1, <1>2 DEF IInv, NoSleepingBeauty
  <2>2. ListedIn({e}, t) # {}
    BY <1>3, <2>1
  <2> QED BY <1>3, <1>4, <2>2 DEF ListedIn
<1> QED BY <1>5, <1>6, <1>7, <1>8, <1>9, <1>10, <1>11 DEF IInv

LEMMA Step_opu_event_free_process ==
  ASSUME IInv, opu_event_free_process PROVE IInv'
<1>1. TypeOK /\ section.op = "none" /\ \A t \in Threads : pc[t] \in {"idle", "dead"}
  BY DEF IInv, opu_event_free_process, MutexFree
<1>2. /\ UNCHANGED <<created, signal_mapped, page_set, slots, interrupts, section, signals>>
      /\ UNCHANGED <<pc, task_state, wait, wait_result>>
      /\ alive' = FALSE /\ signal_page' = FALSE /\ signal_event_count' = 0
      /\ event_idr' = [id \in Ids |-> NULL]
      /\ ev' = [o \in Objs |-> [ev[o] EXCEPT !.live = FALSE]]
  BY DEF opu_event_free_process, gpuVars
<1>3. waiters' = Disconnect(Objs)
  BY DEF opu_event_free_process
<1>4. /\ waiters' \in [Threads -> Seq(Waiter)]
      /\ \A t \in Threads :
              /\ DOMAIN waiters'[t] = DOMAIN waiters[t]
              /\ \A i \in DOMAIN waiters[t] :
                   /\ waiters'[t][i].wq = waiters[t][i].wq
                   /\ waiters'[t][i].event = IF waiters[t][i].wq \in Objs THEN NULL
                                             ELSE waiters[t][i].event
  BY <1>1, <1>3, DisconnectFacts
<1>5. ASSUME NEW o \in Objs PROVE ev'[o] \in Event /\ ~ev'[o].live
  <2>1. ev[o] \in Event /\ ev'[o] = [ev[o] EXCEPT !.live = FALSE]
    BY <1>1, <1>2, EventFields
  <2> QED BY <2>1 DEF Event
<1>6. TypeOK'
  <2>1. ev' \in [Objs -> Event]
    BY <1>2, <1>5
  <2>2. event_idr' \in [Ids -> Objs \cup {NULL}] /\ (alive \in BOOLEAN)' /\ (signal_page \in BOOLEAN)'
        /\ (signal_event_count \in Nat)'
    BY <1>2
  <2> QED BY <1>1, <1>2, <1>4, <2>1, <2>2 DEF TypeOK
<1>7. IdrAgrees'
  BY <1>2, <1>5 DEF IdrAgrees
<1>8. Counted'
  <2>1. SignalEvents' = {}
    BY <1>5 DEF SignalEvents
  <2>2. signal_event_count' = 0
    BY <1>2
  <2> QED BY <2>1, <2>2, FS_EmptySet DEF Counted
<1>9. Fresh'
  <2>1. created' = created
    BY <1>2
  <2> QED BY <1>4, <1>5, <2>1 DEF IInv, Fresh
<1>10. DestroysOne' /\ UnwindHasMutex'
  BY <1>1, <1>2 DEF DestroysOne, UnwindHasMutex
<1>11. LinkedWaiters'
  <2> SUFFICES ASSUME NEW t \in Threads, NEW i \in DOMAIN waiters'[t], waiters'[t][i].wq # NULL
               PROVE  ~ev'[waiters'[t][i].wq].live /\ waiters'[t][i].event = NULL
    BY DEF LinkedWaiters
  <2>1. i \in DOMAIN waiters[t] /\ waiters[t][i].wq \in Objs
    BY <1>1, <1>4, WaitersAre, WaiterFields
  <2> QED BY <1>4, <1>5, <2>1
<1>12. SignaledHasNoSleeper'
  BY <1>5 DEF SignaledHasNoSleeper
<1>13. NoSleepingBeauty'
  BY <1>1, <1>2 DEF NoSleepingBeauty
<1> QED BY <1>6, <1>7, <1>8, <1>9, <1>10, <1>11, <1>12, <1>13 DEF IInv

\* A new event under a free id.
LEMMA PublishStep ==
  ASSUME IInv, MutexFree, NEW type \in {SIGNAL, DEBUG, HW_EXCEPTION, MEMORY}, NEW auto \in BOOLEAN,
         NEW id \in Ids, event_idr[id] = NULL, created < MaxEvents, Publish(type, auto, id),
         gpu_signalable(type) <=> id \in SignalIds,
         signal_event_count' = signal_event_count + (IF gpu_signalable(type) THEN 1 ELSE 0),
         UNCHANGED <<section, pc, task_state, waiters, wait>>
  PROVE  /\ ev' \in [Objs -> Event] /\ event_idr' \in [Ids -> Objs \cup {NULL}]
         /\ (created \in 0 .. MaxEvents)' /\ (signal_event_count \in Nat)'
         /\ IdrAgrees' /\ Counted' /\ Fresh' /\ DestroysOne' /\ UnwindHasMutex'
         /\ LinkedWaiters' /\ SignaledHasNoSleeper' /\ NoSleepingBeauty'
<1> DEFINE n == created + 1
<1>1. TypeOK /\ section.op = "none" /\ created \in Nat
  BY DEF IInv, MutexFree, TypeOK
<1>2. n \in Objs /\ n \in Nat /\ n > created /\ created' = n /\ (created \in 0 .. MaxEvents)'
  BY <1>1, OpuEventsAssumption DEF Publish, Objs
<1>3. /\ event_idr' = [event_idr EXCEPT ![id] = n]
      /\ ev' = [ev EXCEPT ![n] = FreshEvent(type, auto, id)]
  BY DEF Publish
<1> HIDE DEF n
<1>4. ~ev[n].live
  BY <1>2 DEF IInv, Fresh
<1>5. FreshEvent(type, auto, id) \in Event
  BY DEF FreshEvent, Event
<1>6. /\ ev'[n].live /\ ev'[n].type = type /\ ev'[n].event_id = id /\ ~ev'[n].signaled
      /\ \A o \in Objs : o # n => ev'[o] = ev[o]
  BY <1>1, <1>2, <1>3 DEF FreshEvent, TypeOK
<1>7. ev' \in [Objs -> Event]
  BY <1>1, <1>2, <1>3, <1>5 DEF TypeOK
<1>8. /\ event_idr' \in [Ids -> Objs \cup {NULL}] /\ event_idr'[id] = n
      /\ \A j \in Ids : j # id => event_idr'[j] = event_idr[j]
  BY <1>1, <1>2, <1>3 DEF TypeOK
<1>9. \A j \in Ids : event_idr[j] # NULL => event_idr[j] \in Objs /\ event_idr[j] # n
  BY <1>4, IdrLeads
<1>10. IdrAgrees'
  <2>1. \A j \in Ids : event_idr'[j] # NULL =>
        /\ ev'[event_idr'[j]].live
        /\ ev'[event_idr'[j]].event_id = j
        /\ gpu_signalable(ev'[event_idr'[j]].type) <=> j \in SignalIds
    BY <1>6, <1>8, <1>9 DEF IInv, IdrAgrees
  <2>2. ASSUME NEW o \in Objs, ev'[o].live PROVE event_idr'[ev'[o].event_id] = o
    <3>1. CASE o = n
      BY <1>6, <1>8, <3>1
    <3>2. CASE o # n
      <4>1. ev'[o] = ev[o] /\ ev[o].event_id \in Ids /\ event_idr[ev[o].event_id] = o
        BY <1>1, <1>6, <2>2, <3>2, EventFields DEF IInv, IdrAgrees
      <4>2. o # NULL
        BY ObjsAre
      <4> QED BY <1>8, <4>1, <4>2
    <3> QED BY <3>1, <3>2
  <2> QED BY <2>1, <2>2 DEF IdrAgrees
<1>11. Counted' /\ (signal_event_count \in Nat)'
  <2>1. SignalEvents \in SUBSET Objs /\ n \notin SignalEvents
    BY <1>4 DEF SignalEvents
  <2>2. IsFiniteSet(SignalEvents) /\ Cardinality(SignalEvents) \in Nat
    BY <2>1, ObjsFinite
  <2>3. signal_event_count = Cardinality(SignalEvents)
    BY DEF IInv, Counted
  <2>4. CASE gpu_signalable(type)
    <3>1. SignalEvents' = SignalEvents \cup {n}
      BY <1>2, <1>4, <1>6, <2>4 DEF SignalEvents
    <3>2. Cardinality(SignalEvents') = Cardinality(SignalEvents) + 1
      BY <2>1, <2>2, <3>1, FS_AddElement
    <3> QED BY <2>2, <2>3, <2>4, <3>2 DEF Counted
  <2>5. CASE ~gpu_signalable(type)
    <3>1. SignalEvents' = SignalEvents
      BY <1>2, <1>4, <1>6, <2>5 DEF SignalEvents
    <3> QED BY <2>2, <2>3, <2>5, <3>1 DEF Counted
  <2> QED BY <2>4, <2>5
<1>12. \A t \in Threads : \A i \in DOMAIN waiters[t] :
         waiters[t][i].wq \in Objs \cup {NULL} /\ waiters[t][i].wq \in Nat /\ waiters[t][i].wq <= created
  <2> SUFFICES ASSUME NEW t \in Threads, NEW i \in DOMAIN waiters[t]
               PROVE  waiters[t][i].wq \in Objs \cup {NULL} /\ waiters[t][i].wq \in Nat
    BY DEF IInv, Fresh
  <2>1. waiters[t][i].wq \in Objs \cup {NULL}
    BY <1>1, WaitersAre, WaiterFields
  <2> QED BY <2>1, ObjsAre DEF NULL
<1>13. Fresh'
  <2>1. \A o \in Objs : o > n => o > created /\ o # n
    BY <1>1, <1>2, ObjsAre
  <2>2. \A o \in Objs : o > n => ~ev'[o].live
    BY <1>6, <2>1 DEF IInv, Fresh
  <2>3. \A t \in Threads : \A i \in DOMAIN waiters[t] : waiters[t][i].wq <= n
    BY <1>1, <1>2, <1>12
  <2> QED BY <1>2, <2>2, <2>3 DEF Fresh
<1>14. DestroysOne' /\ UnwindHasMutex'
  BY <1>1 DEF IInv, DestroysOne, UnwindHasMutex
<1>15. LinkedWaiters'
  <2> SUFFICES ASSUME NEW t \in Threads, NEW i \in DOMAIN waiters[t], waiters[t][i].wq # NULL
               PROVE  IF ev'[waiters[t][i].wq].live THEN waiters[t][i].event = waiters[t][i].wq
                                                    ELSE waiters[t][i].event = NULL
    BY <1>1 DEF LinkedWaiters, Dying
  <2>1. waiters[t][i].wq \in Objs /\ waiters[t][i].wq # n
    BY <1>1, <1>2, <1>12
  <2> QED BY <1>1, <1>6, <2>1 DEF IInv, LinkedWaiters, Dying
<1>16. SignaledHasNoSleeper'
  BY <1>6 DEF IInv, SignaledHasNoSleeper
<1>17. NoSleepingBeauty'
  BY DEF IInv, NoSleepingBeauty, ListedIn
<1> QED BY <1>2, <1>7, <1>8, <1>10, <1>11, <1>13, <1>14, <1>15, <1>16, <1>17

LEMMA Step_opu_event_create ==
  ASSUME IInv, NEW type \in EventTypes, NEW auto \in AutoModes, opu_event_create(type, auto)
  PROVE  IInv'
<1>1. TypeOK /\ MutexFree /\ created < MaxEvents /\ auto \in BOOLEAN
      /\ type \in {SIGNAL, DEBUG, HW_EXCEPTION, MEMORY}
  BY OpuEventsAssumption DEF IInv, opu_event_create
<1>2. /\ UNCHANGED <<alive, page_set, interrupts, section, signals>>
      /\ UNCHANGED <<pc, task_state, waiters, wait, wait_result>>
  BY DEF opu_event_create, threadVars
<1> DEFINE Rest == /\ ev' \in [Objs -> Event] /\ event_idr' \in [Ids -> Objs \cup {NULL}]
                   /\ (created \in 0 .. MaxEvents)' /\ (signal_event_count \in Nat)'
                   /\ IdrAgrees' /\ Counted' /\ Fresh' /\ DestroysOne' /\ UnwindHasMutex'
                   /\ LinkedWaiters' /\ SignaledHasNoSleeper' /\ NoSleepingBeauty'
<1>3. CASE gpu_signalable(type)
  <2> DEFINE mapped == IF signal_page THEN signal_mapped ELSE OLD_USER_SLOTS
             free == FreeIds(0 .. (mapped - 1))
  <2>1. create_signal_event(type, auto)
    BY <1>3 DEF opu_event_create
  <2>2. mapped \in 0 .. OPU_SIGNAL_EVENT_LIMIT
    BY <1>1, OpuEventsAssumption DEF TypeOK
  <2>3. free \subseteq SignalIds /\ free \subseteq Nat /\ free \subseteq Ids
        /\ \A id \in free : event_idr[id] = NULL
    BY <2>2, OpuEventsAssumption DEF FreeIds, SignalIds, Ids
  <2>4. free # {} => Lowest(free) \in free
    BY <2>3, LowestIsIn
  <2>5. /\ signal_page' = TRUE /\ signal_mapped' = mapped
        /\ slots' \subseteq slots
        /\ \/ UNCHANGED <<idrVars, ev>>
           \/ /\ free # {} /\ Publish(type, auto, Lowest(free))
              /\ signal_event_count' = signal_event_count + 1
    BY <2>1 DEF create_signal_event
  <2> HIDE DEF mapped, free
  <2>6. Rest
    <3>1. CASE UNCHANGED <<idrVars, ev>>
      <4>1. UNCHANGED <<idrVars, ev, section, pc, task_state, waiters, wait>>
        BY <1>2, <3>1
      <4>2. /\ ev' \in [Objs -> Event] /\ event_idr' \in [Ids -> Objs \cup {NULL}]
            /\ (created \in 0 .. MaxEvents)' /\ (signal_event_count \in Nat)'
        BY <1>1, <3>1 DEF TypeOK, idrVars
      <4> QED BY <4>1, <4>2, QuietStep
    <3>2. CASE /\ free # {} /\ Publish(type, auto, Lowest(free))
               /\ signal_event_count' = signal_event_count + 1
      <4>1. Lowest(free) \in Ids /\ event_idr[Lowest(free)] = NULL /\ Lowest(free) \in SignalIds
        BY <2>3, <2>4, <3>2
      <4>2. UNCHANGED <<section, pc, task_state, waiters, wait>>
        BY <1>2
      <4> QED BY <1>1, <1>3, <3>2, <4>1, <4>2, PublishStep
    <3> QED BY <2>5, <3>1, <3>2
  <2>7. TypeOK'
    BY <1>1, <1>2, <2>2, <2>5, <2>6 DEF TypeOK
  <2> QED BY <2>6, <2>7 DEF IInv
<1>4. CASE ~gpu_signalable(type)
  <2> DEFINE free == FreeIds(OtherIds)
  <2>1. /\ free # {} /\ Publish(type, auto, Lowest(free))
        /\ UNCHANGED <<signal_page, signal_mapped, slots, signal_event_count>>
    BY <1>4 DEF opu_event_create, create_other_event
  <2>2. free \subseteq OtherIds /\ \A id \in free : event_idr[id] = NULL
    BY DEF FreeIds
  <2>3. Lowest(free) \in free
    BY <2>1, <2>2, LowestIsIn, OpuEventsAssumption
  <2> HIDE DEF free
  <2>4. /\ Lowest(free) \in Ids /\ event_idr[Lowest(free)] = NULL /\ Lowest(free) \notin SignalIds
    BY <2>2, <2>3, IdsAre, OpuEventsAssumption
  <2>5. signal_event_count' = signal_event_count + 0 /\ UNCHANGED <<section, pc, task_state, waiters, wait>>
    BY <1>1, <1>2, <2>1 DEF TypeOK
  <2>6. Rest
    BY <1>1, <1>4, <2>1, <2>4, <2>5, PublishStep
  <2>7. TypeOK'
    BY <1>1, <1>2, <2>1, <2>6 DEF TypeOK
  <2> QED BY <2>6, <2>7 DEF IInv
<1> QED BY <1>3, <1>4

\* Steps that leave the events and the waits alone.
LEMMA Step_Page ==
  ASSUME IInv, NEW n \in MapSizes, page_set_check \/ page_set_commit(n) \/ opu_event_mmap(n)
  PROVE  IInv'
<1>1. TypeOK /\ n \in 0 .. OPU_SIGNAL_EVENT_LIMIT
  BY OpuEventsAssumption DEF IInv
<1>2. /\ UNCHANGED <<alive, event_idr, created, signal_event_count, ev, section, signals, interrupts>>
      /\ UNCHANGED <<pc, task_state, waiters, wait, wait_result>>
      /\ signal_page' \in BOOLEAN /\ page_set' \in {"none", "checked", "done"}
      /\ signal_mapped' \in 0 .. OPU_SIGNAL_EVENT_LIMIT /\ slots' \subseteq slots
  <2>1. CASE page_set_check
    BY <1>1, <2>1 DEF page_set_check, idrVars, gpuVars, threadVars, TypeOK
  <2>2. CASE page_set_commit(n)
    BY <1>1, <2>2 DEF page_set_commit, idrVars, threadVars, TypeOK
  <2>3. CASE opu_event_mmap(n)
    BY <1>1, <2>3 DEF opu_event_mmap, idrVars, gpuVars, threadVars, TypeOK
  <2> QED BY <2>1, <2>2, <2>3
<1>3. TypeOK'
  BY <1>1, <1>2 DEF TypeOK
<1>4. UNCHANGED <<idrVars, ev, section, pc, task_state, waiters, wait>>
  BY <1>2 DEF idrVars
<1> QED BY <1>3, <1>4, QuietStep DEF IInv

LEMMA Step_gpu_signal ==
  ASSUME IInv, NEW id \in GpuIds, NEW cls \in Classes \cup {NO_ID}, gpu_signal(id, cls)
  PROVE  IInv'
<1>1. TypeOK /\ id \in SignalIds
  BY OpuEventsAssumption DEF IInv
<1>2. /\ UNCHANGED <<alive, event_idr, created, signal_event_count, ev, section>>
      /\ UNCHANGED <<signal_page, signal_mapped, page_set>>
      /\ UNCHANGED <<pc, task_state, waiters, wait, wait_result>>
      /\ slots' = slots \cup {id} /\ interrupts' = [interrupts EXCEPT ![cls] = @ + 1]
      /\ signals < MaxSignals /\ signals' = signals + 1
  BY DEF gpu_signal, idrVars, pageVars, threadVars, Send
<1>3. TypeOK'
  <2>1. (interrupts \in [Classes \cup {NO_ID} -> Nat])' /\ (slots \subseteq SignalIds)'
        /\ (signals \in 0 .. MaxSignals)'
    BY <1>1, <1>2, OpuEventsAssumption DEF TypeOK
  <2> QED BY <1>1, <1>2, <2>1 DEF TypeOK
<1>4. UNCHANGED <<idrVars, ev, section, pc, task_state, waiters, wait>>
  BY <1>2 DEF idrVars
<1> QED BY <1>3, <1>4, QuietStep DEF IInv

LEMMA Step_interrupt_without_process ==
  ASSUME IInv, NEW cls \in Classes \cup {NO_ID}, interrupt_without_process(cls)
  PROVE  IInv'
<1>1. TypeOK
  BY DEF IInv
<1>2. /\ UNCHANGED <<alive, event_idr, created, signal_event_count, ev, section, signals>>
      /\ UNCHANGED <<signal_page, signal_mapped, page_set, slots>>
      /\ UNCHANGED <<pc, task_state, waiters, wait, wait_result>>
      /\ interrupts[cls] > 0 /\ interrupts' = [interrupts EXCEPT ![cls] = @ - 1]
  BY DEF interrupt_without_process, idrVars, pageVars, threadVars
<1>3. TypeOK'
  <2>1. (interrupts \in [Classes \cup {NO_ID} -> Nat])'
    BY <1>1, <1>2 DEF TypeOK
  <2> QED BY <1>1, <1>2, <2>1 DEF TypeOK
<1>4. UNCHANGED <<idrVars, ev, section, pc, task_state, waiters, wait>>
  BY <1>2 DEF idrVars
<1> QED BY <1>3, <1>4, QuietStep DEF IInv

\* The event is freed: its id is free again.
LEMMA KfreeStep ==
  ASSUME IInv, NEW o \in Objs, ev[o].live, kfree_event(o)
  PROVE  /\ ev' \in [Objs -> Event] /\ event_idr' \in [Ids -> Objs \cup {NULL}]
         /\ (signal_event_count \in Nat)' /\ IdrAgrees' /\ Counted' /\ ~ev'[o].live
         /\ \A p \in Objs : p # o => ev'[p] = ev[p]
<1> DEFINE id == ev[o].event_id
<1>1. TypeOK /\ id \in Ids /\ event_idr[id] = o /\ ev[o] \in Event
  BY EventFields DEF IInv, IdrAgrees
<1>2. /\ event_idr' = [event_idr EXCEPT ![id] = NULL]
      /\ ev' = [ev EXCEPT ![o] = [ev[o] EXCEPT !.live = FALSE]]
      /\ signal_event_count' = IF gpu_signalable(ev[o].type) THEN signal_event_count - 1
                                                             ELSE signal_event_count
  BY DEF kfree_event
<1> HIDE DEF id
<1>3. [ev[o] EXCEPT !.live = FALSE] \in Event /\ ~[ev[o] EXCEPT !.live = FALSE].live
  BY <1>1 DEF Event
<1>4. ev' \in [Objs -> Event] /\ ~ev'[o].live /\ \A p \in Objs : p # o => ev'[p] = ev[p]
  BY <1>1, <1>2, <1>3 DEF TypeOK
<1>5. /\ event_idr' \in [Ids -> Objs \cup {NULL}] /\ event_idr'[id] = NULL
      /\ \A j \in Ids : j # id => event_idr'[j] = event_idr[j]
  BY <1>1, <1>2 DEF TypeOK
<1>6. IdrAgrees'
  <2>1. ASSUME NEW j \in Ids, event_idr'[j] # NULL
        PROVE  /\ ev'[event_idr'[j]].live
               /\ ev'[event_idr'[j]].event_id = j
               /\ gpu_signalable(ev'[event_idr'[j]].type) <=> j \in SignalIds
    <3>1. j # id /\ event_idr'[j] = event_idr[j] /\ event_idr[j] # NULL
      BY <1>5, <2>1
    <3>2. event_idr[j] \in Objs /\ ev[event_idr[j]].event_id = j
      BY <3>1, IdrLeads
    <3>3. event_idr[j] # o
      BY <3>1, <3>2 DEF id
    <3> QED BY <1>4, <3>1, <3>2, <3>3 DEF IInv, IdrAgrees
  <2>2. ASSUME NEW p \in Objs, ev'[p].live PROVE event_idr'[ev'[p].event_id] = p
    <3>1. p # o /\ ev'[p] = ev[p] /\ ev[p].event_id \in Ids /\ event_idr[ev[p].event_id] = p
      BY <1>1, <1>4, <2>2, EventFields DEF IInv, IdrAgrees
    <3> QED BY <1>1, <1>5, <3>1
  <2> QED BY <2>1, <2>2 DEF IdrAgrees
<1>7. Counted' /\ (signal_event_count \in Nat)'
  <2>1. SignalEvents \in SUBSET Objs
    BY DEF SignalEvents
  <2>2. IsFiniteSet(SignalEvents) /\ Cardinality(SignalEvents) \in Nat
    BY <2>1, ObjsFinite
  <2>3. signal_event_count = Cardinality(SignalEvents)
    BY DEF IInv, Counted
  <2>4. SignalEvents' = SignalEvents \ {o} /\ (o \in SignalEvents <=> gpu_signalable(ev[o].type))
    BY <1>4 DEF SignalEvents
  <2>5. CASE gpu_signalable(ev[o].type)
    <3>1. /\ Cardinality(SignalEvents \ {o}) = Cardinality(SignalEvents) - 1
          /\ IsFiniteSet(SignalEvents \ {o})
      BY <2>2, <2>4, <2>5, FS_RemoveElement
    <3>2. Cardinality(SignalEvents \ {o}) \in Nat
      BY <3>1, FS_CardinalityType
    <3> QED BY <1>2, <2>3, <2>4, <2>5, <3>1, <3>2 DEF Counted
  <2>6. CASE ~gpu_signalable(ev[o].type)
    <3>1. SignalEvents' = SignalEvents
      BY <2>4, <2>6
    <3> QED BY <1>2, <2>2, <2>3, <2>6, <3>1 DEF Counted
  <2> QED BY <2>5, <2>6
<1> QED BY <1>4, <1>5, <1>6, <1>7

LEMMA Step_wake_up_all == ASSUME IInv, wake_up_all PROVE IInv'
<1>1. TypeOK /\ section.op \in {"set", "iommu", "destroy"} /\ created \in Nat
  BY DEF IInv, wake_up_all, TypeOK
<1>2. PICK unlink \in [Threads -> SUBSET (1 .. MaxListLen)] :
        /\ \A t \in Threads :
              /\ unlink[t] \subseteq ListedIn(section.evs, t)
              /\ task_state[t] = "RUNNING" => unlink[t] = {}
              /\ task_state[t] # "RUNNING" /\ ListedIn(section.evs, t) # {}
                   => unlink[t] # {}
        /\ waiters' = [t \in Threads |-> [i \in DOMAIN waiters[t] |->
              IF i \in unlink[t] THEN [waiters[t][i] EXCEPT !.wq = NULL]
                                 ELSE waiters[t][i]]]
  BY DEF wake_up_all
<1>3. /\ waiters' \in [Threads -> Seq(Waiter)]
      /\ \A t \in Threads :
           /\ DOMAIN waiters'[t] = DOMAIN waiters[t]
           /\ unlink[t] = {} => waiters'[t] = waiters[t]
           /\ \A i \in DOMAIN waiters[t] :
                /\ waiters'[t][i].event = waiters[t][i].event
                /\ waiters'[t][i].activated = waiters[t][i].activated
                /\ waiters'[t][i].wq = waiters[t][i].wq \/ waiters'[t][i].wq = NULL
  BY <1>1, <1>2, UnlinkFacts
<1>4. /\ UNCHANGED <<alive, created, signal_page, signal_mapped, page_set, slots, interrupts, signals>>
      /\ UNCHANGED <<pc, wait, wait_result>>
      /\ task_state' = [t \in Threads |->
           IF ListedIn(section.evs, t) # {} THEN "RUNNING" ELSE task_state[t]]
      /\ section' = IF section.op = "iommu" THEN [section EXCEPT !.op = "data"] ELSE NoSection
  BY DEF wake_up_all, pageVars, gpuVars
<1>5. section' \in [op : {"none", "set", "iommu", "data", "destroy", "unwind"}, evs : SUBSET Objs]
      /\ section'.op \in {"none", "data"}
  BY <1>1, <1>4 DEF TypeOK, NoSection
<1>6. (task_state \in [Threads -> {"RUNNING", "INTERRUPTIBLE"}])'
  BY <1>1, <1>4 DEF TypeOK
<1>7. DestroysOne' /\ UnwindHasMutex'
  BY <1>1, <1>4, <1>5 DEF IInv, DestroysOne, UnwindHasMutex
<1>8. NoSleepingBeauty'
  <2> SUFFICES ASSUME NEW t \in Threads, pc'[t] = "sleep", task_state'[t] = "INTERRUPTIBLE"
               PROVE  test_event_condition(wait'[t].all, waiters'[t]) = "TIMEOUT"
    BY DEF NoSleepingBeauty
  <2>1. ListedIn(section.evs, t) = {} /\ task_state[t] = "INTERRUPTIBLE" /\ pc[t] = "sleep"
    BY <1>4
  <2>2. waiters'[t] = waiters[t] /\ wait' = wait
    BY <1>2, <1>3, <1>4, <2>1
  <2> QED BY <2>1, <2>2 DEF IInv, NoSleepingBeauty
<1>9. ASSUME NEW t \in Threads, NEW i \in DOMAIN waiters'[t]
      PROVE  /\ i \in DOMAIN waiters[t] /\ waiters'[t][i].event = waiters[t][i].event
             /\ waiters'[t][i].activated = waiters[t][i].activated
             /\ waiters'[t][i].wq # NULL => waiters'[t][i].wq = waiters[t][i].wq
                                            /\ waiters[t][i].wq \in Objs
             /\ waiters'[t][i].wq <= created
  <2>1. i \in DOMAIN waiters[t]
    BY <1>3
  <2>2. waiters[t][i].wq \in Objs \cup {NULL} /\ waiters[t][i].wq <= created
    BY <1>1, <2>1, WaitersAre, WaiterFields DEF IInv, Fresh
  <2>3. NULL <= created
    BY <1>1 DEF NULL
  <2> QED BY <1>3, <2>1, <2>2, <2>3
<1>10. CASE section.op = "destroy"
  <2>1. PICK o \in Objs : section.evs = {o} /\ ev[o].live
    BY <1>10 DEF IInv, DestroysOne
  <2>2. kfree_event(o)
    <3>1. (CHOOSE p \in section.evs : TRUE) = o
      BY <2>1
    <3> QED BY <1>10, <3>1 DEF wake_up_all
  <2>3. /\ ev' \in [Objs -> Event] /\ event_idr' \in [Ids -> Objs \cup {NULL}]
        /\ (signal_event_count \in Nat)' /\ IdrAgrees' /\ Counted' /\ ~ev'[o].live
        /\ \A p \in Objs : p # o => ev'[p] = ev[p]
    BY <2>1, <2>2, KfreeStep
  <2>4. TypeOK'
    BY <1>1, <1>3, <1>4, <1>5, <1>6, <2>3 DEF TypeOK
  <2>5. Fresh'
    <3>1. created' = created
      BY <1>4
    <3>2. \A p \in Objs : p > created => ~ev'[p].live
      BY <2>3 DEF IInv, Fresh
    <3> QED BY <1>9, <3>1, <3>2 DEF Fresh
  <2>6. LinkedWaiters'
    <3> SUFFICES ASSUME NEW t \in Threads, NEW i \in DOMAIN waiters'[t], waiters'[t][i].wq # NULL
                 PROVE  IF ev'[waiters'[t][i].wq].live THEN waiters'[t][i].event = waiters'[t][i].wq
                                                       ELSE waiters'[t][i].event = NULL
      BY <1>5 DEF LinkedWaiters, Dying
    <3>1. IF ev[waiters[t][i].wq].live /\ ~Dying(waiters[t][i].wq)
          THEN waiters[t][i].event = waiters[t][i].wq ELSE waiters[t][i].event = NULL
      BY <1>9 DEF IInv, LinkedWaiters
    <3>2. Dying(waiters[t][i].wq) <=> waiters[t][i].wq = o
      BY <1>10, <2>1 DEF Dying
    <3> QED BY <1>9, <2>3, <3>1, <3>2
  <2>7. SignaledHasNoSleeper'
    <3> SUFFICES ASSUME NEW p \in Objs, ev'[p].live, ev'[p].signaled,
                        NEW t \in Threads, NEW i \in DOMAIN waiters'[t], waiters'[t][i].wq = p
                 PROVE  waiters'[t][i].activated /\ ~ev'[p].auto_reset
      BY DEF SignaledHasNoSleeper
    <3>1. ev'[p] = ev[p] /\ p # NULL
      BY <2>3, ObjsAre
    <3> QED BY <1>9, <3>1 DEF IInv, SignaledHasNoSleeper
  <2> QED BY <1>7, <1>8, <2>3, <2>4, <2>5, <2>6, <2>7 DEF IInv
<1>11. CASE section.op # "destroy"
  <2>1. UNCHANGED <<signal_event_count, event_idr, ev>>
    BY <1>11 DEF wake_up_all
  <2>2. TypeOK'
    BY <1>1, <1>3, <1>4, <1>5, <1>6, <2>1 DEF TypeOK
  <2>3. IdrAgrees' /\ Counted'
    BY <2>1, IdrFrame DEF SameEvents
  <2>4. Fresh'
    <3>1. created' = created /\ ev' = ev
      BY <1>4, <2>1
    <3> QED BY <1>9, <3>1 DEF Fresh, IInv
  <2>5. LinkedWaiters'
    <3> SUFFICES ASSUME NEW t \in Threads, NEW i \in DOMAIN waiters'[t], waiters'[t][i].wq # NULL
                 PROVE  IF ev[waiters'[t][i].wq].live THEN waiters'[t][i].event = waiters'[t][i].wq
                                                       ELSE waiters'[t][i].event = NULL
      BY <1>5, <2>1 DEF LinkedWaiters, Dying
    <3> QED BY <1>9, <1>11 DEF IInv, LinkedWaiters, Dying
  <2>6. SignaledHasNoSleeper'
    <3> SUFFICES ASSUME NEW p \in Objs, ev[p].live, ev[p].signaled,
                        NEW t \in Threads, NEW i \in DOMAIN waiters'[t], waiters'[t][i].wq = p
                 PROVE  waiters'[t][i].activated /\ ~ev[p].auto_reset
      BY <2>1 DEF SignaledHasNoSleeper
    <3>1. p # NULL
      BY ObjsAre
    <3> QED BY <1>9, <3>1 DEF IInv, SignaledHasNoSleeper
  <2> QED BY <1>7, <1>8, <2>2, <2>3, <2>4, <2>5, <2>6 DEF IInv
<1> QED BY <1>10, <1>11

LEMMA Step_write_exception_data == ASSUME IInv, write_exception_data PROVE IInv'
<1>1. TypeOK /\ section.op = "data" /\ signals \in Nat
  BY OpuEventsAssumption DEF IInv, write_exception_data, TypeOK
<1>2. /\ UNCHANGED <<alive, event_idr, created, signal_event_count, signals, interrupts>>
      /\ UNCHANGED <<signal_page, signal_mapped, page_set, slots>>
      /\ UNCHANGED <<pc, task_state, waiters, wait, wait_result>>
      /\ section' = NoSection
      /\ ev' = [o \in Objs |-> IF o \in section.evs
                               THEN [ev[o] EXCEPT !.data = signals] ELSE ev[o]]
  BY DEF write_exception_data, idrVars, pageVars, gpuVars, threadVars
<1>3. ASSUME NEW o \in Objs
      PROVE  /\ ev'[o] \in Event
             /\ ev'[o].live = ev[o].live /\ ev'[o].type = ev[o].type
             /\ ev'[o].auto_reset = ev[o].auto_reset /\ ev'[o].event_id = ev[o].event_id
             /\ ev'[o].signaled = ev[o].signaled
  <2>1. ev[o] \in Event /\ ev'[o] = IF o \in section.evs THEN [ev[o] EXCEPT !.data = signals] ELSE ev[o]
    BY <1>1, <1>2, EventFields
  <2> QED BY <1>1, <2>1 DEF Event
<1>4. ev' \in [Objs -> Event] /\ SameEvents
  <2>1. ev' = [o \in Objs |-> ev'[o]]
    BY <1>2
  <2> QED BY <1>3, <2>1 DEF SameEvents
<1>5. section'.op = "none"
      /\ section' \in [op : {"none", "set", "iommu", "data", "destroy", "unwind"}, evs : SUBSET Objs]
  BY <1>2 DEF NoSection
<1>6. TypeOK'
  BY <1>1, <1>2, <1>4, <1>5 DEF TypeOK
<1>7. IdrAgrees' /\ Counted'
  BY <1>2, <1>4, IdrFrame
<1>8. Fresh'
  <2>1. UNCHANGED <<created, waiters>>
    BY <1>2
  <2> QED BY <1>3, <2>1 DEF IInv, Fresh
<1>9. DestroysOne' /\ UnwindHasMutex'
  BY <1>1, <1>2, <1>5 DEF IInv, DestroysOne, UnwindHasMutex
<1>10. LinkedWaiters'
  <2> SUFFICES ASSUME NEW t \in Threads, NEW i \in DOMAIN waiters[t], waiters[t][i].wq # NULL
               PROVE  IF ev'[waiters[t][i].wq].live
                      THEN waiters[t][i].event = waiters[t][i].wq
                      ELSE waiters[t][i].event = NULL
    BY <1>2, <1>5 DEF LinkedWaiters, Dying
  <2>1. waiters[t][i].wq \in Objs
    BY <1>1, WaitersAre, WaiterFields
  <2> QED BY <1>1, <1>3, <2>1 DEF IInv, LinkedWaiters, Dying
<1>11. SignaledHasNoSleeper'
  <2>1. waiters' = waiters
    BY <1>2
  <2> QED BY <1>3, <2>1 DEF IInv, SignaledHasNoSleeper
<1>12. NoSleepingBeauty'
  <2>1. UNCHANGED <<pc, task_state, waiters, wait>>
    BY <1>2
  <2> QED BY <1>1, <2>1 DEF IInv, NoSleepingBeauty
<1> QED BY <1>6, <1>7, <1>8, <1>9, <1>10, <1>11, <1>12 DEF IInv

\* init_event_waiter_get_status takes the signal of an auto-reset event, and no more.
LEMMA GetStatusFacts ==
  ASSUME TypeOK, NEW list, NEW n, GetStatus(list, n)
  PROVE  /\ ev' \in [Objs -> Event] /\ SameEvents
         /\ \A o \in Objs : ev'[o].signaled => ev[o].signaled
         /\ \A j \in 1 .. n : event_idr[list[j]] \in Objs /\ ev[event_idr[list[j]]].auto_reset
                                => ~ev'[event_idr[list[j]]].signaled
<1>1. ev' = [o \in Objs |->
        IF \E j \in 1..n : event_idr[list[j]] = o
        THEN [ev[o] EXCEPT !.signaled = ev[o].signaled /\ ~ev[o].auto_reset]
        ELSE ev[o]]
  BY Zenon DEF GetStatus
<1>2. ASSUME NEW o \in Objs
      PROVE  /\ ev'[o] \in Event
             /\ ev'[o].live = ev[o].live /\ ev'[o].type = ev[o].type
             /\ ev'[o].auto_reset = ev[o].auto_reset /\ ev'[o].event_id = ev[o].event_id
             /\ ev'[o].signaled => ev[o].signaled
             /\ (\E j \in 1..n : event_idr[list[j]] = o) /\ ev[o].auto_reset => ~ev'[o].signaled
  <2>1. ev[o] \in Event
    BY EventFields
  <2>2. CASE \E j \in 1..n : event_idr[list[j]] = o
    <3> DEFINE b == ev[o].signaled /\ ~ev[o].auto_reset
    <3>1. ev'[o] = [ev[o] EXCEPT !.signaled = b]
      BY <1>1, <2>2, Zenon
    <3>2. b \in BOOLEAN
      OBVIOUS
    <3> HIDE DEF b
    <3>3. /\ ev'[o] \in Event /\ ev'[o].signaled = b
          /\ ev'[o].live = ev[o].live /\ ev'[o].type = ev[o].type
          /\ ev'[o].auto_reset = ev[o].auto_reset /\ ev'[o].event_id = ev[o].event_id
      BY <2>1, <3>1, <3>2 DEF Event
    <3> QED BY <3>3 DEF b
  <2>3. CASE ~ \E j \in 1..n : event_idr[list[j]] = o
    <3>1. ev'[o] = ev[o]
      BY <1>1, <2>3, Zenon
    <3> QED BY <2>1, <2>3, <3>1
  <2> QED BY <2>2, <2>3
<1>3. ev' = [o \in Objs |-> ev'[o]]
  BY <1>1, Zenon
<1> QED BY <1>2, <1>3 DEF SameEvents

\* A thread starts to wait, or fails to: its new waiters are linked into queues of live
\* events that are not signaled.
LEMMA WaitFrame ==
  ASSUME IInv, section.op = "none", NEW t \in Threads, pc[t] = "idle",
         UNCHANGED idrVars, ev' \in [Objs -> Event], SameEvents,
         \A o \in Objs : ev'[o].signaled => ev[o].signaled,
         \A u \in Threads : u # t => /\ pc'[u] = pc[u] /\ task_state'[u] = task_state[u]
                                     /\ wait'[u] = wait[u] /\ waiters'[u] = waiters[u],
         pc'[t] # "sleep", section'.op \in {"none", "unwind"},
         pc'[t] = "unwind" => section'.op = "unwind",
         \/ waiters'[t] = waiters[t]
         \/ \A i \in DOMAIN waiters'[t] :
              \/ waiters'[t][i].wq = NULL
              \/ /\ waiters'[t][i].wq \in Objs /\ waiters'[t][i].wq <= created
                 /\ waiters'[t][i].event = waiters'[t][i].wq
                 /\ ev[waiters'[t][i].wq].live /\ ~ev'[waiters'[t][i].wq].signaled
  PROVE  /\ IdrAgrees' /\ Counted' /\ Fresh' /\ DestroysOne' /\ UnwindHasMutex'
         /\ LinkedWaiters' /\ SignaledHasNoSleeper' /\ NoSleepingBeauty'
<1>1. TypeOK /\ created \in Nat /\ created' = created /\ NULL <= created
  BY DEF IInv, TypeOK, idrVars, NULL
<1>2. IdrAgrees' /\ Counted'
  BY IdrFrame DEF idrVars
<1>3. ASSUME NEW u \in Threads, NEW i \in DOMAIN waiters'[u]
      PROVE  \/ i \in DOMAIN waiters[u] /\ waiters'[u] = waiters[u]
             \/ u = t /\ waiters'[u][i].wq = NULL
             \/ /\ u = t /\ waiters'[u][i].wq \in Objs /\ waiters'[u][i].wq <= created
                /\ waiters'[u][i].event = waiters'[u][i].wq
                /\ ev[waiters'[u][i].wq].live /\ ~ev'[waiters'[u][i].wq].signaled
  OBVIOUS
<1>4. ASSUME NEW u \in Threads, NEW i \in DOMAIN waiters[u]
      PROVE  waiters[u][i].wq \in Objs \cup {NULL} /\ waiters[u][i].wq <= created
  BY <1>1, WaitersAre, WaiterFields DEF IInv, Fresh
<1>5. Fresh'
  <2>1. ASSUME NEW o \in Objs, o > created PROVE ~ev'[o].live
    BY <2>1 DEF IInv, Fresh, SameEvents
  <2>2. ASSUME NEW u \in Threads, NEW i \in DOMAIN waiters'[u] PROVE waiters'[u][i].wq <= created
    BY <1>1, <1>3, <1>4
  <2> QED BY <1>1, <2>1, <2>2 DEF Fresh
<1>6. DestroysOne' /\ UnwindHasMutex'
  BY DEF IInv, DestroysOne, UnwindHasMutex
<1>7. LinkedWaiters'
  <2> SUFFICES ASSUME NEW u \in Threads, NEW i \in DOMAIN waiters'[u], waiters'[u][i].wq # NULL
               PROVE  IF ev'[waiters'[u][i].wq].live THEN waiters'[u][i].event = waiters'[u][i].wq
                                                     ELSE waiters'[u][i].event = NULL
    BY DEF LinkedWaiters, Dying
  <2>1. CASE i \in DOMAIN waiters[u] /\ waiters'[u] = waiters[u]
    <3>1. IF ev[waiters[u][i].wq].live THEN waiters[u][i].event = waiters[u][i].wq
                                       ELSE waiters[u][i].event = NULL
      BY <2>1 DEF IInv, LinkedWaiters, Dying
    <3>2. waiters[u][i].wq \in Objs
      BY <1>4, <2>1
    <3> QED BY <2>1, <3>1, <3>2 DEF SameEvents
  <2>2. CASE ~(i \in DOMAIN waiters[u] /\ waiters'[u] = waiters[u])
    BY <1>3, <2>2 DEF SameEvents
  <2> QED BY <2>1, <2>2
<1>8. SignaledHasNoSleeper'
  <2> SUFFICES ASSUME NEW o \in Objs, ev'[o].live, ev'[o].signaled,
                      NEW u \in Threads, NEW i \in DOMAIN waiters'[u], waiters'[u][i].wq = o
               PROVE  waiters'[u][i].activated /\ ~ev'[o].auto_reset
    BY DEF SignaledHasNoSleeper
  <2>1. o # NULL /\ ev[o].live /\ ev[o].signaled /\ ev'[o].auto_reset = ev[o].auto_reset
    BY ObjsAre DEF SameEvents
  <2>2. i \in DOMAIN waiters[u] /\ waiters'[u] = waiters[u]
    BY <1>3, <2>1
  <2> QED BY <2>1, <2>2 DEF IInv, SignaledHasNoSleeper
<1>9. NoSleepingBeauty'
  <2> SUFFICES ASSUME NEW u \in Threads, pc'[u] = "sleep", task_state'[u] = "INTERRUPTIBLE"
               PROVE  test_event_condition(wait'[u].all, waiters'[u]) = "TIMEOUT"
    BY DEF NoSleepingBeauty
  <2>1. u # t
    OBVIOUS
  <2> QED BY <2>1 DEF IInv, NoSleepingBeauty
<1> QED BY <1>2, <1>5, <1>6, <1>7, <1>8, <1>9

\* The waiters of a list of events that exist, before they are linked and after.
LEMMA NewWaitersAre ==
  ASSUME IInv, NEW list \in Seq(Ids), NEW n \in 0 .. Len(list),
         \A i \in 1 .. n : event_idr[list[i]] # NULL
  PROVE  /\ NewWaiters(list, n) \in [1 .. n -> Waiter]
         /\ \A i \in 1 .. n : /\ NewWaiters(list, n)[i].wq = NULL
                              /\ NewWaiters(list, n)[i].event = event_idr[list[i]]
                              /\ NewWaiters(list, n)[i].activated = Activated(list, i)
<1> DEFINE act(i) == Activated(list, i)
<1>1. NewWaiters(list, n) = [i \in 1 .. n |-> [event |-> event_idr[list[i]], wq |-> NULL,
                               activated |-> act(i), target |-> event_idr[list[i]]]]
  BY Zenon DEF NewWaiters
<1>2. \A i : act(i) \in BOOLEAN
  BY DEF Activated
<1> HIDE DEF act
<1>3. ASSUME NEW i \in 1 .. n
      PROVE  /\ NewWaiters(list, n)[i] \in Waiter /\ NewWaiters(list, n)[i].wq = NULL
             /\ NewWaiters(list, n)[i].event = event_idr[list[i]]
             /\ NewWaiters(list, n)[i].activated = act(i)
  <2>1. list[i] \in Ids
    OBVIOUS
  <2>2. event_idr[list[i]] \in Objs
    BY <2>1, IdrLeads
  <2>3. NewWaiters(list, n)[i] = [event |-> event_idr[list[i]], wq |-> NULL,
                               activated |-> act(i), target |-> event_idr[list[i]]]
    BY <1>1
  <2> QED BY <1>2, <2>2, <2>3 DEF Waiter
<1>4. NewWaiters(list, n) \in [1 .. n -> Waiter]
  BY <1>1, <1>3
<1> QED BY <1>3, <1>4 DEF act

LEMMA LinkFacts ==
  ASSUME NEW n \in Nat, NEW ws \in [1 .. n -> Waiter], \A i \in 1 .. n : ws[i].event \in Objs
  PROVE  /\ Link(ws) \in [1 .. n -> Waiter]
         /\ \A i \in 1 .. n : /\ Link(ws)[i].event = ws[i].event
                              /\ Link(ws)[i].wq = IF ws[i].activated THEN NULL ELSE ws[i].event
<1>1. Link(ws) = [i \in 1 .. n |-> [ws[i] EXCEPT !.wq = IF ws[i].activated THEN NULL ELSE ws[i].event]]
  BY DEF Link
<1>2. ASSUME NEW i \in 1 .. n
      PROVE  /\ Link(ws)[i] \in Waiter /\ Link(ws)[i].event = ws[i].event
             /\ Link(ws)[i].wq = IF ws[i].activated THEN NULL ELSE ws[i].event
  <2> DEFINE q == IF ws[i].activated THEN NULL ELSE ws[i].event
  <2>1. ws[i] \in Waiter /\ q \in Objs \cup {NULL} /\ Link(ws)[i] = [ws[i] EXCEPT !.wq = q]
    BY <1>1
  <2> HIDE DEF q
  <2>2. Link(ws)[i] \in Waiter /\ Link(ws)[i].event = ws[i].event /\ Link(ws)[i].wq = q
    BY <2>1 DEF Waiter
  <2> QED BY <2>2 DEF q
<1>3. Link(ws) \in [1 .. n -> Waiter]
  BY <1>1, <1>2
<1> QED BY <1>2, <1>3

LEMMA Step_wait_begin ==
  ASSUME IInv, NEW t \in Threads, NEW list \in WaitLists, NEW all \in BOOLEAN,
         NEW timeout \in Timeouts, wait_begin(t, list, all, timeout)
  PROVE  IInv'
<1> DEFINE n == Len(list)
           ws == NewWaiters(list, n)
<1>1. TypeOK /\ section.op = "none" /\ pc[t] = "idle" /\ list \in Seq(Ids) /\ n \in 0 .. Len(list)
      /\ DOMAIN list = 1 .. n
  BY OpuEventsAssumption DEF IInv, wait_begin, MutexFree
<1>2. \A i \in 1 .. n : event_idr[list[i]] # NULL
  BY <1>1 DEF wait_begin
<1>3. GetStatus(list, n)
  BY DEF wait_begin
<1>4. /\ UNCHANGED <<alive, event_idr, created, signal_event_count, section, signals, interrupts>>
      /\ UNCHANGED <<signal_page, signal_mapped, page_set, slots>>
      /\ \/ UNCHANGED <<pc, task_state, waiters, wait, wait_result>>
         \/ /\ waiters' = [waiters EXCEPT ![t] = Link(ws)]
            /\ wait' = [wait EXCEPT ![t] = [all |-> all, timeout |-> timeout]]
            /\ pc' = [pc EXCEPT ![t] = "loop"]
            /\ UNCHANGED <<task_state, wait_result>>
  BY Zenon DEF wait_begin, idrVars, pageVars, gpuVars, threadVars
<1>5. /\ ev' \in [Objs -> Event] /\ SameEvents
      /\ \A o \in Objs : ev'[o].signaled => ev[o].signaled
      /\ \A j \in 1 .. n : event_idr[list[j]] \in Objs /\ ev[event_idr[list[j]]].auto_reset
                             => ~ev'[event_idr[list[j]]].signaled
  BY <1>1, <1>3, GetStatusFacts
<1>6. /\ ws \in [1 .. n -> Waiter]
      /\ \A i \in 1 .. n : /\ ws[i].wq = NULL /\ ws[i].event = event_idr[list[i]]
                           /\ ws[i].activated = Activated(list, i)
  BY <1>1, <1>2, NewWaitersAre
<1>7. \A i \in 1 .. n : /\ event_idr[list[i]] \in Objs /\ ev[event_idr[list[i]]].live
                        /\ event_idr[list[i]] <= created
  <2>1. \A i \in 1 .. n : list[i] \in Ids
    BY <1>1
  <2> QED BY <1>2, <2>1, IdrLeads
<1>8. \A i \in 1 .. n : ~Activated(list, i) => ~ev'[event_idr[list[i]]].signaled
  BY <1>5, <1>7 DEF Activated
<1> HIDE DEF ws
<1>9. CASE UNCHANGED <<pc, task_state, waiters, wait, wait_result>>
  <2>1. TypeOK'
    BY <1>1, <1>4, <1>5, <1>9 DEF TypeOK
  <2>2. UNCHANGED idrVars /\ section'.op = "none"
    BY <1>1, <1>4 DEF idrVars
  <2>3. /\ pc' = pc /\ task_state' = task_state /\ waiters' = waiters /\ wait' = wait
    BY <1>9
  <2>4. /\ IdrAgrees' /\ Counted' /\ Fresh' /\ DestroysOne' /\ UnwindHasMutex'
        /\ LinkedWaiters' /\ SignaledHasNoSleeper' /\ NoSleepingBeauty'
    BY <1>1, <1>5, <2>2, <2>3, WaitFrame
  <2> QED BY <2>1, <2>4 DEF IInv
<1>10. CASE /\ waiters' = [waiters EXCEPT ![t] = Link(ws)]
            /\ wait' = [wait EXCEPT ![t] = [all |-> all, timeout |-> timeout]]
            /\ pc' = [pc EXCEPT ![t] = "loop"]
            /\ UNCHANGED <<task_state, wait_result>>
  <2>1. /\ Link(ws) \in [1 .. n -> Waiter]
        /\ \A i \in 1 .. n : /\ Link(ws)[i].event = event_idr[list[i]]
                             /\ Link(ws)[i].wq = IF ws[i].activated THEN NULL ELSE event_idr[list[i]]
    <3>1. \A i \in 1 .. n : ws[i].event \in Objs
      BY <1>6, <1>7
    <3>2. n \in Nat
      BY <1>1
    <3> HIDE DEF n
    <3> QED BY <1>6, <3>1, <3>2, LinkFacts
  <2>2. Link(ws) \in Seq(Waiter) /\ DOMAIN Link(ws) = 1 .. n
    BY <1>1, <2>1, IsSequence
  <2>3. waiters'[t] = Link(ws) /\ waiters' \in [Threads -> Seq(Waiter)]
        /\ \A u \in Threads : u # t => waiters'[u] = waiters[u]
    BY <1>1, <1>10, <2>2 DEF TypeOK
  <2>4. wait' \in [Threads -> [all : BOOLEAN, timeout : {"none", "expired", "finite", "infinite"}]]
        /\ \A u \in Threads : u # t => wait'[u] = wait[u]
    BY <1>1, <1>10, OpuEventsAssumption DEF TypeOK
  <2>5. pc' \in [Threads -> WaitStates] /\ pc'[t] = "loop" /\ \A u \in Threads : u # t => pc'[u] = pc[u]
    BY <1>1, <1>10 DEF TypeOK, WaitStates
  <2>6. UNCHANGED <<task_state, wait_result>>
    BY <1>10
  <2>7. TypeOK'
    BY <1>1, <1>4, <1>5, <2>3, <2>4, <2>5, <2>6 DEF TypeOK
  <2>8. UNCHANGED idrVars /\ section'.op = "none"
    BY <1>1, <1>4 DEF idrVars
  <2>9. \A i \in DOMAIN waiters'[t] :
              \/ waiters'[t][i].wq = NULL
              \/ /\ waiters'[t][i].wq \in Objs /\ waiters'[t][i].wq <= created
                 /\ waiters'[t][i].event = waiters'[t][i].wq
                 /\ ev[waiters'[t][i].wq].live /\ ~ev'[waiters'[t][i].wq].signaled
    BY <1>6, <1>7, <1>8, <2>1, <2>2, <2>3
  <2>10. \A u \in Threads : u # t => /\ pc'[u] = pc[u] /\ task_state'[u] = task_state[u]
                                     /\ wait'[u] = wait[u] /\ waiters'[u] = waiters[u]
    BY <2>3, <2>4, <2>5, <2>6
  <2>11. /\ IdrAgrees' /\ Counted' /\ Fresh' /\ DestroysOne' /\ UnwindHasMutex'
         /\ LinkedWaiters' /\ SignaledHasNoSleeper' /\ NoSleepingBeauty'
    BY <1>1, <1>5, <2>5, <2>8, <2>9, <2>10, WaitFrame
  <2> QED BY <2>7, <2>11 DEF IInv
<1> QED BY <1>4, <1>9, <1>10

LEMMA Step_wait_lookup_fails ==
  ASSUME IInv, NEW t \in Threads, NEW list \in WaitLists, NEW n \in DOMAIN list,
         wait_lookup_fails(t, list, n)
  PROVE  IInv'
<1> DEFINE U == {w \in Waiter : w.wq = NULL}
<1>1. TypeOK /\ section.op = "none" /\ pc[t] = "idle" /\ list \in Seq(Ids) /\ n - 1 \in 0 .. Len(list)
      /\ n - 1 \in Nat /\ Len(list) - n + 1 \in Nat
  BY OpuEventsAssumption DEF IInv, wait_lookup_fails, MutexFree
<1>2. \A i \in 1 .. (n - 1) : event_idr[list[i]] # NULL
  BY DEF wait_lookup_fails
<1>3. GetStatus(list, n - 1)
  BY DEF wait_lookup_fails
<1>4. PICK rest \in Uninitialised(Len(list) - n + 1) :
        waiters' = [waiters EXCEPT ![t] = NewWaiters(list, n - 1) \o rest]
  BY DEF wait_lookup_fails
<1>5. /\ UNCHANGED <<alive, event_idr, created, signal_event_count, signals, interrupts>>
      /\ UNCHANGED <<signal_page, signal_mapped, page_set, slots, task_state, wait>>
      /\ pc' = [pc EXCEPT ![t] = "unwind"]
      /\ wait_result' = [wait_result EXCEPT ![t] = "FAIL"]
      /\ section' = [op |-> "unwind", evs |-> {}]
  BY DEF wait_lookup_fails, idrVars, pageVars, gpuVars
<1>6. /\ ev' \in [Objs -> Event] /\ SameEvents
      /\ \A o \in Objs : ev'[o].signaled => ev[o].signaled
  BY <1>1, <1>3, GetStatusFacts
<1>7. rest \in Seq(U)
  <2>1. \A p \in {NULL, GARBAGE} :
          [event |-> p, wq |-> NULL, activated |-> FALSE, target |-> NULL] \in U
    BY DEF Waiter
  <2>2. rest \in [1 .. (Len(list) - n + 1) -> U]
    BY <2>1 DEF Uninitialised
  <2> HIDE DEF U
  <2> QED BY <1>1, <2>2, IsSequence
<1>8. NewWaiters(list, n - 1) \in Seq(U)
  <2> DEFINE m == n - 1
  <2>1. m \in Nat /\ m \in 0 .. Len(list) /\ \A i \in 1 .. m : event_idr[list[i]] # NULL
    BY <1>1, <1>2
  <2> HIDE DEF m
  <2>2. NewWaiters(list, m) \in [1 .. m -> Waiter] /\ \A i \in 1 .. m : NewWaiters(list, m)[i].wq = NULL
    BY <1>1, <2>1, NewWaitersAre
  <2>3. NewWaiters(list, m) \in [1 .. m -> U]
    BY <2>2
  <2> HIDE DEF U
  <2>4. NewWaiters(list, m) \in Seq(U)
    BY <2>1, <2>3, IsSequence
  <2> QED BY <2>4 DEF m
<1> DEFINE ws == NewWaiters(list, n - 1) \o rest
<1>9. ws \in Seq(U)
  <2> HIDE DEF U
  <2> QED BY <1>7, <1>8
<1>10. waiters'[t] = ws /\ \A u \in Threads : u # t => waiters'[u] = waiters[u]
  BY <1>1, <1>4 DEF TypeOK
<1>11. waiters' = [waiters EXCEPT ![t] = ws]
  BY <1>4
<1> HIDE DEF ws
<1>12. \A i \in DOMAIN ws : ws[i].wq = NULL
  <2>1. \A i \in DOMAIN ws : ws[i] \in U
    <3> HIDE DEF U
    <3> QED BY <1>9, SequenceIs
  <2> QED BY <2>1
<1>13. waiters' \in [Threads -> Seq(Waiter)]
  <2>1. ws \in Seq(Waiter)
    BY <1>9
  <2> QED BY <1>1, <1>11, <2>1 DEF TypeOK
<1>14. pc' \in [Threads -> WaitStates] /\ pc'[t] = "unwind" /\ \A u \in Threads : u # t => pc'[u] = pc[u]
  BY <1>1, <1>5 DEF TypeOK, WaitStates
<1>15. section'.op = "unwind"
       /\ section' \in [op : {"none", "set", "iommu", "data", "destroy", "unwind"}, evs : SUBSET Objs]
  BY <1>5
<1>16. TypeOK'
  <2>1. (wait_result \in [Threads -> {"none", "COMPLETE", "TIMEOUT", "FAIL", "EINTR"}])'
    BY <1>1, <1>5 DEF TypeOK
  <2> QED BY <1>1, <1>5, <1>6, <1>13, <1>14, <1>15, <2>1 DEF TypeOK
<1>17. UNCHANGED idrVars
  BY <1>5 DEF idrVars
<1>18. \A u \in Threads : u # t => /\ pc'[u] = pc[u] /\ task_state'[u] = task_state[u]
                                   /\ wait'[u] = wait[u] /\ waiters'[u] = waiters[u]
  BY <1>5, <1>10, <1>14
<1>19. /\ IdrAgrees' /\ Counted' /\ Fresh' /\ DestroysOne' /\ UnwindHasMutex'
       /\ LinkedWaiters' /\ SignaledHasNoSleeper' /\ NoSleepingBeauty'
  BY <1>1, <1>6, <1>10, <1>12, <1>14, <1>15, <1>17, <1>18, WaitFrame
<1> QED BY <1>16, <1>19 DEF IInv

\* The steps of a waiting thread between its calls.
LEMMA Step_WaitStep ==
  ASSUME IInv, NEW t \in Threads, WaitStep(t) \/ wait_interrupted(t)
  PROVE  IInv'
<1> DEFINE r == test_event_condition(wait[t].all, waiters[t])
           Rest == /\ pc' \in [Threads -> WaitStates]
                   /\ task_state' \in [Threads -> {"RUNNING", "INTERRUPTIBLE"}]
                   /\ wait' \in [Threads -> [all : BOOLEAN,
                         timeout : {"none", "expired", "finite", "infinite"}]]
                   /\ wait_result' \in [Threads -> {"none", "COMPLETE", "TIMEOUT", "FAIL", "EINTR"}]
                   /\ pc[t] # "unwind" /\ pc'[t] # "unwind"
                   /\ \A u \in Threads : u # t =>
                        pc'[u] = pc[u] /\ task_state'[u] = task_state[u] /\ wait'[u] = wait[u]
                   /\ pc'[t] = "sleep" => wait' = wait /\ r = "TIMEOUT"
<1>1. TypeOK
  BY DEF IInv
<1>2. r \in {"COMPLETE", "TIMEOUT", "FAIL"}
  BY DEF test_event_condition
<1>3. /\ UNCHANGED <<alive, event_idr, created, signal_event_count, ev, section, signals, interrupts>>
      /\ UNCHANGED <<signal_page, signal_mapped, page_set, slots, waiters>>
  BY Zenon DEF WaitStep, wait_set_state, wait_test, wait_woken, wait_expired, copy_signaled_event_data,
         wait_interrupted, idrVars, pageVars, gpuVars
<1>4. Rest
  <2> USE <1>1 DEF TypeOK
  <2>1. CASE wait_set_state(t)
    BY <2>1 DEF wait_set_state, WaitStates
  <2>2. CASE wait_test(t)
    <3>1. /\ pc[t] = "test" /\ wait' = wait
          /\ \/ /\ wait_result' = [wait_result EXCEPT ![t] = r]
                /\ pc' = [pc EXCEPT ![t] = IF r = "COMPLETE" THEN "copy" ELSE "finish"]
                /\ task_state' = [task_state EXCEPT ![t] = "RUNNING"]
             \/ /\ r = "TIMEOUT" /\ pc' = [pc EXCEPT ![t] = "sleep"]
                /\ UNCHANGED <<wait_result, task_state>>
      BY <2>2 DEF wait_test
    <3> HIDE DEF r
    <3>2. CASE /\ wait_result' = [wait_result EXCEPT ![t] = r]
               /\ pc' = [pc EXCEPT ![t] = IF r = "COMPLETE" THEN "copy" ELSE "finish"]
               /\ task_state' = [task_state EXCEPT ![t] = "RUNNING"]
      <4>1. \E q \in {"copy", "finish"} : pc' = [pc EXCEPT ![t] = q]
        BY <3>2
      <4>2. wait_result' \in [Threads -> {"none", "COMPLETE", "TIMEOUT", "FAIL", "EINTR"}]
        BY <1>2, <3>2
      <4> QED BY <3>1, <3>2, <4>1, <4>2 DEF WaitStates
    <3>3. CASE /\ r = "TIMEOUT" /\ pc' = [pc EXCEPT ![t] = "sleep"]
               /\ UNCHANGED <<wait_result, task_state>>
      BY <3>1, <3>3 DEF WaitStates
    <3> QED BY <3>1, <3>2, <3>3
  <2>3. CASE wait_woken(t)
    BY <2>3 DEF wait_woken, WaitStates
  <2>4. CASE wait_expired(t)
    BY <2>4 DEF wait_expired, WaitStates
  <2>5. CASE copy_signaled_event_data(t)
    <3>1. /\ pc[t] = "copy" /\ UNCHANGED <<task_state, wait, wait_result>>
          /\ \E q \in {"dead", "finish"} : pc' = [pc EXCEPT ![t] = q]
      BY <2>5 DEF copy_signaled_event_data
    <3> QED BY <3>1 DEF WaitStates
  <2>6. CASE wait_interrupted(t)
    BY <2>6 DEF wait_interrupted, WaitStates
  <2> QED BY <2>1, <2>2, <2>3, <2>4, <2>5, <2>6 DEF WaitStep
<1>5. TypeOK'
  BY <1>1, <1>3, <1>4 DEF TypeOK
<1>6. UNCHANGED <<idrVars, ev, section, waiters>>
  BY <1>3 DEF idrVars
<1>7. pc'[t] = "sleep" => test_event_condition(wait'[t].all, waiters'[t]) = "TIMEOUT"
  BY <1>4, <1>6
<1>8. /\ IdrAgrees' /\ Counted' /\ Fresh' /\ DestroysOne' /\ UnwindHasMutex'
      /\ LinkedWaiters' /\ SignaledHasNoSleeper' /\ NoSleepingBeauty'
  BY <1>4, <1>6, <1>7, ThreadStep
<1> QED BY <1>5, <1>8 DEF IInv

LEMMA Step_free_waiters ==
  ASSUME IInv, NEW t \in Threads, free_waiters(t) PROVE IInv'
<1>1. TypeOK /\ section.op \in {"none", "unwind"} /\ pc[t] \in {"finish", "unwind"}
      /\ (section.op = "unwind" => pc[t] = "unwind")
  BY DEF IInv, free_waiters, UnwindHasMutex
<1>2. /\ UNCHANGED <<alive, event_idr, created, signal_event_count, ev, signals, interrupts>>
      /\ UNCHANGED <<signal_page, signal_mapped, page_set, slots, task_state>>
      /\ waiters' = [waiters EXCEPT ![t] = << >>]
      /\ pc' = [pc EXCEPT ![t] = "idle"]
      /\ wait' = [wait EXCEPT ![t] = [all |-> FALSE, timeout |-> "none"]]
      /\ wait_result' = [wait_result EXCEPT ![t] = "none"]
      /\ section' = NoSection
  BY DEF free_waiters, idrVars, pageVars, gpuVars
<1>3. /\ waiters' \in [Threads -> Seq(Waiter)] /\ DOMAIN waiters'[t] = {}
      /\ \A u \in Threads : u # t => waiters'[u] = waiters[u]
  BY <1>1, <1>2 DEF TypeOK
<1>4. /\ pc' \in [Threads -> WaitStates] /\ pc'[t] = "idle"
      /\ \A u \in Threads : u # t => pc'[u] = pc[u]
  BY <1>1, <1>2 DEF TypeOK, WaitStates
<1>5. /\ wait' \in [Threads -> [all : BOOLEAN, timeout : {"none", "expired", "finite", "infinite"}]]
      /\ \A u \in Threads : u # t => wait'[u] = wait[u]
  BY <1>1, <1>2 DEF TypeOK
<1>6. section'.op = "none"
      /\ section' \in [op : {"none", "set", "iommu", "data", "destroy", "unwind"}, evs : SUBSET Objs]
  BY <1>2 DEF NoSection
<1>7. TypeOK'
  <2>1. (wait_result \in [Threads -> {"none", "COMPLETE", "TIMEOUT", "FAIL", "EINTR"}])'
    BY <1>1, <1>2 DEF TypeOK
  <2> QED BY <1>1, <1>2, <1>3, <1>4, <1>5, <1>6, <2>1 DEF TypeOK
<1>8. IdrAgrees' /\ Counted'
  BY <1>2, IdrFrame DEF SameEvents
<1>9. Fresh'
  <2>1. created' = created /\ ev' = ev
    BY <1>2
  <2> QED BY <1>3, <2>1 DEF IInv, Fresh
<1>10. DestroysOne' /\ UnwindHasMutex'
  <2>1. \A u \in Threads : pc'[u] # "unwind"
    BY <1>1, <1>4 DEF IInv, UnwindHasMutex
  <2> QED BY <1>6, <2>1 DEF DestroysOne, UnwindHasMutex
<1>11. LinkedWaiters'
  <2>1. ev' = ev
    BY <1>2
  <2> SUFFICES ASSUME NEW u \in Threads, NEW i \in DOMAIN waiters'[u], waiters'[u][i].wq # NULL
               PROVE  IF ev[waiters'[u][i].wq].live THEN waiters'[u][i].event = waiters'[u][i].wq
                                                    ELSE waiters'[u][i].event = NULL
    BY <1>6, <2>1 DEF LinkedWaiters, Dying
  <2>2. waiters'[u] = waiters[u]
    BY <1>3
  <2> QED BY <1>1, <2>2 DEF IInv, LinkedWaiters, Dying
<1>12. SignaledHasNoSleeper'
  <2>1. ev' = ev
    BY <1>2
  <2> QED BY <1>3, <2>1 DEF IInv, SignaledHasNoSleeper
<1>13. NoSleepingBeauty'
  <2>1. task_state' = task_state
    BY <1>2
  <2> QED BY <1>1, <1>3, <1>4, <1>5, <2>1 DEF IInv, NoSleepingBeauty
<1> QED BY <1>7, <1>8, <1>9, <1>10, <1>11, <1>12, <1>13 DEF IInv

LEMMA InitIInv == Init => IInv
<1> SUFFICES ASSUME Init PROVE IInv
  OBVIOUS
<1>1. FreshEvent(SIGNAL, FALSE, 0) \in Event
  BY IdsAre DEF FreshEvent, Event
<1>2. \A o \in Objs : ev[o] \in Event /\ ~ev[o].live
  BY <1>1 DEF Init, Event
<1>3. TypeOK
  <2>1. ev \in [Objs -> Event]
    BY <1>2 DEF Init
  <2>2. section \in [op : {"none", "set", "iommu", "data", "destroy", "unwind"}, evs : SUBSET Objs]
    BY DEF Init, NoSection
  <2>3. waiters \in [Threads -> Seq(Waiter)]
    BY DEF Init
  <2>4. wait \in [Threads -> [all : BOOLEAN, timeout : {"none", "expired", "finite", "infinite"}]]
    BY DEF Init
  <2>5. interrupts \in [Classes \cup {NO_ID} -> Nat]
    BY DEF Init
  <2>6. /\ created \in 0 .. MaxEvents /\ signal_mapped \in 0 .. OPU_SIGNAL_EVENT_LIMIT
        /\ slots \subseteq SignalIds /\ signal_event_count \in Nat
        /\ page_set \in {"none", "checked", "done"} /\ signals \in 0 .. MaxSignals
    <3>1. created = 0 /\ signal_mapped = 0 /\ slots = {} /\ signal_event_count = 0
          /\ page_set = "none" /\ signals = 0
      BY DEF Init
    <3>2. MaxEvents \in Nat /\ OPU_SIGNAL_EVENT_LIMIT \in Nat /\ MaxSignals \in Nat
      BY OpuEventsAssumption
    <3> QED BY <3>1, <3>2
  <2>7. /\ pc \in [Threads -> WaitStates] /\ task_state \in [Threads -> {"RUNNING", "INTERRUPTIBLE"}]
        /\ wait_result \in [Threads -> {"none", "COMPLETE", "TIMEOUT", "FAIL", "EINTR"}]
    BY DEF Init, WaitStates
  <2>8. alive \in BOOLEAN /\ signal_page \in BOOLEAN
    BY DEF Init
  <2>9. event_idr \in [Ids -> Objs \cup {NULL}]
    BY DEF Init
  <2> QED BY <2>1, <2>2, <2>3, <2>4, <2>5, <2>6, <2>7, <2>8, <2>9 DEF TypeOK
<1>4. IdrAgrees
  BY <1>2 DEF Init, IdrAgrees
<1>5. Counted
  <2>1. SignalEvents = {} /\ signal_event_count = 0
    BY <1>2 DEF SignalEvents, Init
  <2> QED BY <2>1, FS_EmptySet DEF Counted
<1>6. \A t \in Threads : DOMAIN waiters[t] = {}
  BY DEF Init
<1>7. Fresh /\ LinkedWaiters /\ SignaledHasNoSleeper
  BY <1>2, <1>6 DEF Fresh, LinkedWaiters, SignaledHasNoSleeper
<1>8. DestroysOne /\ UnwindHasMutex /\ NoSleepingBeauty
  BY DEF Init, NoSection, DestroysOne, UnwindHasMutex, NoSleepingBeauty
<1> QED BY <1>3, <1>4, <1>5, <1>7, <1>8 DEF IInv

LEMMA NextIInv == ASSUME IInv, [Next]_vars PROVE IInv'
<1>1. CASE Create
  BY <1>1, Step_opu_event_create DEF Create
<1>2. CASE Page
  BY <1>2, Step_Page DEF Page
<1>3. CASE User
  BY <1>3, Step_opu_event_destroy, Step_opu_set_event, Step_opu_reset_event DEF User
<1>4. CASE Gpu
  BY <1>4, Step_gpu_signal DEF Gpu
<1>5. CASE Interrupt
  BY <1>5, Step_opu_signal_event_interrupt, Step_interrupt_without_process DEF Interrupt
<1>6. CASE Fault
  BY <1>6, Step_SignalTypes, Step_opu_signal_iommu_event
  DEF Fault, opu_signal_hw_exception_event, opu_signal_vm_fault_event, opu_signal_reset_event,
      opu_signal_poison_consumed_event
<1>7. CASE Section
  BY <1>7, Step_wake_up_all, Step_write_exception_data DEF Section
<1>8. CASE opu_event_free_process
  BY <1>8, Step_opu_event_free_process
<1>9. ASSUME NEW t \in Threads, WaitCall(t) PROVE IInv'
  BY <1>9, Step_wait_begin, Step_wait_lookup_fails DEF WaitCall
<1>10. ASSUME NEW t \in Threads, wait_interrupted(t) \/ WaitStep(t) PROVE IInv'
  BY <1>10, Step_WaitStep
<1>11. ASSUME NEW t \in Threads, free_waiters(t) PROVE IInv'
  BY <1>11, Step_free_waiters
<1>12. CASE UNCHANGED vars
  <2>1. /\ UNCHANGED <<alive, idrVars, ev, section, signals, pc, task_state, waiters, wait, wait_result>>
        /\ UNCHANGED <<signal_page, signal_mapped, page_set, slots, interrupts>>
    BY <1>12 DEF vars, pageVars, gpuVars, threadVars
  <2>2. TypeOK'
    BY <2>1 DEF IInv, TypeOK, idrVars
  <2> QED BY <2>1, <2>2, QuietStep DEF IInv
<1> QED BY <1>1, <1>2, <1>3, <1>4, <1>5, <1>6, <1>7, <1>8, <1>9, <1>10, <1>11, <1>12 DEF Next
-----------------------------------------------------------------------------
(* The theorems. *)

\* The parts of the inductive invariant hold in every reachable state, of opu_event_create
\* and destroy_event, of signals, interrupts and faults, and of opu_wait_on_events.
THEOREM Invariance == Spec => []IInv
BY InitIInv, NextIInv, PTL DEF Spec

\* The IDR leads to live events that bear their ids, every live event is in it, and
\* signal_event_count, on which allocate_event_notification_slot relies, counts the signal
\* and debug events.
THEOREM IdrAgreesWithHeap == Spec => []IdrConsistent
<1>1. IInv => IdrConsistent
  BY DEF IInv, IdrAgrees, Counted, SignalEvents, IdrConsistent
<1> QED BY <1>1, Invariance, PTL

\* destroy_event and wake_up_all meet no entry of a wait queue whose waiter waits for another
\* event, or still holds a pointer to an event that is gone.
THEOREM QueuesAreSafe == Spec => []LinkedWaiters
<1>1. IInv => LinkedWaiters
  BY DEF IInv
<1> QED BY <1>1, Invariance, PTL

\* set_event and init_event_waiter_get_status never miss each other.
THEOREM SignalsAreNotMissed == Spec => []SignaledHasNoSleeper
<1>1. IInv => SignaledHasNoSleeper
  BY DEF IInv
<1> QED BY <1>1, Invariance, PTL

\* opu_wait_on_events sets the task state before its test, so it never sleeps on a condition
\* that holds unless its wake-up is under way.
THEOREM WakeupsAreNotLost == Spec => []NoSleepingBeauty
<1>1. IInv => NoSleepingBeauty
  BY DEF IInv
<1> QED BY <1>1, Invariance, PTL
-----------------------------------------------------------------------------
(* Slots and interrupts. *)

\* There are no more signaled slots of events than interrupts to come, and no slot before
\* there is a page.
SlotInv == SlotsCovered /\ NoPageNoSlot

LEMMA MatchesFinite ==
  ASSUME TypeOK, NEW cls
  PROVE  IsFiniteSet(PartialMatches(cls)) /\ Cardinality(PartialMatches(cls)) \in Nat
<1>1. IsFiniteSet(SignalIds)
  BY OpuEventsAssumption, FS_Interval DEF SignalIds
<1>2. PartialMatches(cls) \subseteq SignalIds
  BY DEF PartialMatches, SignaledIds, TypeOK
<1> QED BY <1>1, <1>2, FS_Subset, FS_CardinalityType

\* No slot becomes signaled, no interrupt is taken and no event gets the id of a signaled slot.
Shrinks == /\ alive' => alive
           /\ alive' /\ ~signal_page' => ~signal_page
           /\ slots' \subseteq slots
           /\ interrupts' = interrupts
           /\ \A id \in slots' : event_idr'[id] # NULL => event_idr[id] # NULL

LEMMA ShrinkStep == ASSUME IInv, SlotInv, Shrinks PROVE SlotInv'
<1>1. NoPageNoSlot'
  BY DEF SlotInv, NoPageNoSlot, Shrinks
<1>2. SlotsCovered'
  <2> SUFFICES ASSUME alive', NEW cls \in Classes
               PROVE  Cardinality(PartialMatches(cls)') <= interrupts'[cls] + interrupts'[NO_ID]
    BY DEF SlotsCovered
  <2>1. Cardinality(PartialMatches(cls)) <= interrupts[cls] + interrupts[NO_ID] /\ interrupts' = interrupts
    BY DEF SlotInv, SlotsCovered, Shrinks
  <2>2. PartialMatches(cls)' \subseteq PartialMatches(cls)
    BY DEF PartialMatches, SignaledIds, Shrinks
  <2>3. TypeOK /\ interrupts[cls] \in Nat /\ interrupts[NO_ID] \in Nat
    BY DEF IInv, TypeOK
  <2>4. IsFiniteSet(PartialMatches(cls)) /\ Cardinality(PartialMatches(cls)) \in Nat
    BY <2>3, MatchesFinite
  <2>5. Cardinality(PartialMatches(cls)') \in Nat
        /\ Cardinality(PartialMatches(cls)') <= Cardinality(PartialMatches(cls))
    BY <2>2, <2>4, FS_Subset, FS_CardinalityType
  <2> QED BY <2>1, <2>3, <2>4, <2>5
<1> QED BY <1>1, <1>2 DEF SlotInv

LEMMA CreateShrinks ==
  ASSUME IInv, SlotInv, NEW type \in EventTypes, NEW auto \in AutoModes, opu_event_create(type, auto)
  PROVE  Shrinks
<1>1. TypeOK /\ alive /\ alive' = alive /\ interrupts' = interrupts
  BY DEF IInv, opu_event_create, MutexFree
<1>2. CASE gpu_signalable(type)
  <2> DEFINE mapped == IF signal_page THEN signal_mapped ELSE OLD_USER_SLOTS
             free == FreeIds(0 .. (mapped - 1))
             low == Lowest(free)
  <2>1. create_signal_event(type, auto)
    BY <1>2 DEF opu_event_create
  <2>2. /\ signal_page' = TRUE /\ slots' \subseteq slots
        /\ \/ event_idr' = event_idr
           \/ event_idr' = [event_idr EXCEPT ![low] = created + 1] /\ low \notin slots'
    BY <2>1 DEF create_signal_event, Publish, idrVars
  <2> HIDE DEF low
  <2>3. \A id \in slots' : id \in Ids
    BY <1>1, <2>2, IdsAre DEF TypeOK
  <2> QED BY <1>1, <2>2, <2>3 DEF Shrinks, TypeOK
<1>3. CASE ~gpu_signalable(type)
  <2> DEFINE free == FreeIds(OtherIds)
             low == Lowest(free)
  <2>1. /\ free # {} /\ event_idr' = [event_idr EXCEPT ![low] = created + 1]
        /\ UNCHANGED <<signal_page, slots>>
    BY <1>3 DEF opu_event_create, create_other_event, Publish
  <2>2. low \in OtherIds
    BY <2>1, LowestIsIn, OpuEventsAssumption DEF FreeIds
  <2> HIDE DEF low
  <2>3. \A id \in slots : id \in Ids /\ id # low
    BY <1>1, <2>2, IdsAre, OpuEventsAssumption DEF TypeOK
  <2> QED BY <1>1, <2>1, <2>3 DEF Shrinks, TypeOK
<1> QED BY <1>2, <1>3

LEMMA WakeShrinks == ASSUME IInv, wake_up_all PROVE Shrinks
<1>1. TypeOK /\ UNCHANGED <<alive, signal_page, slots, interrupts>>
  BY DEF IInv, wake_up_all, pageVars, gpuVars
<1>2. event_idr' = event_idr \/ \E o \in section.evs : event_idr' = [event_idr EXCEPT ![ev[o].event_id] = NULL]
  <2>1. CASE section.op = "destroy"
    <3>1. kfree_event(CHOOSE o \in section.evs : TRUE) /\ section.evs # {}
      BY <2>1 DEF wake_up_all, IInv, DestroysOne
    <3> QED BY <3>1 DEF kfree_event
  <2>2. CASE section.op # "destroy"
    BY <2>2 DEF wake_up_all
  <2> QED BY <2>1, <2>2
<1>3. \A id \in slots : id \in Ids
  BY <1>1, IdsAre DEF TypeOK
<1> QED BY <1>1, <1>2, <1>3 DEF Shrinks, TypeOK

LEMMA GpuStep ==
  ASSUME IInv, SlotInv, NEW id \in GpuIds, NEW cls \in Classes \cup {NO_ID}, gpu_signal(id, cls)
  PROVE  SlotInv'
<1>1. TypeOK /\ id \in SignalIds /\ id \in Nat
  BY IdsAre, OpuEventsAssumption DEF IInv
<1>2. /\ UNCHANGED <<alive, event_idr, signal_page>> /\ signal_page /\ slots' = slots \cup {id}
      /\ interrupts' = [interrupts EXCEPT ![cls] = @ + 1] /\ cls \in {id % PARTIAL_CLASSES, NO_ID}
  BY DEF gpu_signal, idrVars, pageVars
<1>3. NoPageNoSlot'
  BY <1>2 DEF NoPageNoSlot
<1>4. SlotsCovered'
  <2> SUFFICES ASSUME alive', NEW c \in Classes
               PROVE  Cardinality(PartialMatches(c)') <= interrupts'[c] + interrupts'[NO_ID]
    BY DEF SlotsCovered
  <2>1. Cardinality(PartialMatches(c)) <= interrupts[c] + interrupts[NO_ID]
    BY <1>2 DEF SlotInv, SlotsCovered
  <2>2. c # NO_ID
    BY OpuEventsAssumption DEF Classes, NO_ID
  <2>3. /\ interrupts[c] \in Nat /\ interrupts[NO_ID] \in Nat
        /\ interrupts'[c] = (IF c = cls THEN interrupts[c] + 1 ELSE interrupts[c])
        /\ interrupts'[NO_ID] = (IF NO_ID = cls THEN interrupts[NO_ID] + 1 ELSE interrupts[NO_ID])
    BY <1>1, <1>2 DEF TypeOK
  <2>4. IsFiniteSet(PartialMatches(c)) /\ Cardinality(PartialMatches(c)) \in Nat
    BY <1>1, MatchesFinite
  <2>5. CASE c = id % PARTIAL_CLASSES
    <3>1. PartialMatches(c)' \subseteq PartialMatches(c) \cup {id}
      BY <1>2 DEF PartialMatches, SignaledIds
    <3>2. /\ IsFiniteSet(PartialMatches(c) \cup {id})
          /\ Cardinality(PartialMatches(c) \cup {id}) = (IF id \in PartialMatches(c)
               THEN Cardinality(PartialMatches(c)) ELSE Cardinality(PartialMatches(c)) + 1)
      BY <2>4, FS_AddElement
    <3>3. /\ Cardinality(PartialMatches(c)') \in Nat
          /\ Cardinality(PartialMatches(c)') <= Cardinality(PartialMatches(c) \cup {id})
      BY <3>1, <3>2, FS_Subset, FS_CardinalityType
    <3>4. c = cls \/ NO_ID = cls
      BY <1>2, <2>5
    <3> HIDE DEF PartialMatches
    <3> QED BY <2>1, <2>2, <2>3, <2>4, <3>2, <3>3, <3>4
  <2>6. CASE c # id % PARTIAL_CLASSES
    <3>1. PartialMatches(c)' \subseteq PartialMatches(c)
      BY <1>2, <2>6 DEF PartialMatches, SignaledIds
    <3>2. /\ Cardinality(PartialMatches(c)') \in Nat
          /\ Cardinality(PartialMatches(c)') <= Cardinality(PartialMatches(c))
      BY <2>4, <3>1, FS_Subset, FS_CardinalityType
    <3> QED BY <2>1, <2>3, <2>4, <3>2
  <2> QED BY <2>5, <2>6
<1> QED BY <1>3, <1>4 DEF SlotInv

\* One interrupt is taken, and one slot of its class is acknowledged or all slots are.
LEMMA InterruptStep ==
  ASSUME IInv, SlotInv, NEW cls \in Classes \cup {NO_ID}, opu_signal_event_interrupt(cls)
  PROVE  SlotInv'
<1> DEFINE ids == IF signal_page THEN InterruptTargets(cls) ELSE {}
<1>1. TypeOK /\ alive
  BY DEF IInv, opu_signal_event_interrupt, MutexFree
<1>2. /\ UNCHANGED <<alive, event_idr, signal_page>>
      /\ slots' = slots \ ids /\ interrupts[cls] > 0
      /\ interrupts' = [interrupts EXCEPT ![cls] = @ - 1]
  BY DEF opu_signal_event_interrupt, idrVars, pageVars
<1>3. NoPageNoSlot'
  BY <1>2 DEF SlotInv, NoPageNoSlot
<1>4. ~signal_page => SignaledIds = {}
  BY <1>1 DEF SlotInv, NoPageNoSlot, SignaledIds
<1>5. PartialMatches(NO_ID) = {}
  <2>1. \A id \in Nat : id % PARTIAL_CLASSES # PARTIAL_CLASSES
    BY OpuEventsAssumption
  <2>2. SignaledIds \subseteq Nat
    BY <1>1, IdsAre DEF SignaledIds, TypeOK
  <2> QED BY <2>1, <2>2 DEF PartialMatches, NO_ID
<1>6. SlotsCovered'
  <2> SUFFICES ASSUME NEW c \in Classes
               PROVE  Cardinality(PartialMatches(c)') <= interrupts'[c] + interrupts'[NO_ID]
    BY DEF SlotsCovered
  <2>1. Cardinality(PartialMatches(c)) <= interrupts[c] + interrupts[NO_ID]
    BY <1>1 DEF SlotInv, SlotsCovered
  <2>2. c # NO_ID
    BY OpuEventsAssumption DEF Classes, NO_ID
  <2>3. /\ interrupts[c] \in Nat /\ interrupts[NO_ID] \in Nat
        /\ interrupts'[c] = (IF c = cls THEN interrupts[c] - 1 ELSE interrupts[c])
        /\ interrupts'[NO_ID] = (IF NO_ID = cls THEN interrupts[NO_ID] - 1 ELSE interrupts[NO_ID])
        /\ interrupts'[c] \in Nat /\ interrupts'[NO_ID] \in Nat
    BY <1>1, <1>2 DEF TypeOK
  <2>4. IsFiniteSet(PartialMatches(c)) /\ Cardinality(PartialMatches(c)) \in Nat
    BY <1>1, MatchesFinite
  <2>5. SignaledIds' = SignaledIds \ ids
    BY <1>2 DEF SignaledIds
  <2>6. CASE signal_page /\ PartialMatches(cls) # {}
    <3> DEFINE low == Lowest(PartialMatches(cls))
    <3>1. ids = {low} /\ cls # NO_ID
      BY <1>5, <2>6 DEF InterruptTargets
    <3>2. low \in PartialMatches(cls)
      <4>1. PartialMatches(cls) \subseteq Nat
        BY <1>1, IdsAre DEF PartialMatches, SignaledIds, TypeOK
      <4> QED BY <2>6, <4>1, LowestIsIn
    <3> HIDE DEF low
    <3>3. PartialMatches(c)' = PartialMatches(c) \ {low}
      BY <2>5, <3>1 DEF PartialMatches
    <3>4. CASE c = cls
      <4>1. Cardinality(PartialMatches(c) \ {low}) = Cardinality(PartialMatches(c)) - 1
        BY <2>4, <3>2, <3>4, FS_RemoveElement
      <4> QED BY <2>1, <2>2, <2>3, <2>4, <3>3, <3>4, <4>1
    <3>5. CASE c # cls
      <4>1. PartialMatches(c)' = PartialMatches(c)
        BY <3>2, <3>3, <3>5 DEF PartialMatches
      <4> QED BY <2>1, <2>3, <3>1, <3>5, <4>1
    <3> QED BY <3>4, <3>5
  <2>7. CASE ~(signal_page /\ PartialMatches(cls) # {})
    <3>1. SignaledIds' = {}
      BY <1>4, <2>5, <2>7 DEF InterruptTargets
    <3>2. PartialMatches(c)' = {}
      BY <3>1 DEF PartialMatches
    <3>3. Cardinality(PartialMatches(c)') = 0
      BY <3>2, FS_EmptySet
    <3> QED BY <2>3, <3>3
  <2> QED BY <2>6, <2>7
<1> QED BY <1>3, <1>6 DEF SlotInv

\* Everything else leaves the slots, the IDR, the interrupts and the page alone.
Untouched == UNCHANGED <<alive, signal_page, slots, interrupts, event_idr>>

LEMMA OthersShrink ==
  ASSUME IInv, SlotInv,
         \/ Page \/ User \/ Fault \/ write_exception_data \/ opu_event_free_process
         \/ \E t \in Threads : WaitCall(t) \/ wait_interrupted(t) \/ WaitStep(t) \/ free_waiters(t)
         \/ UNCHANGED vars
  PROVE  Shrinks
<1>1. Untouched => Shrinks
  BY DEF Untouched, Shrinks
<1> USE DEF idrVars, pageVars, gpuVars, threadVars
<1>2. CASE Page
  <2>1. PICK n \in MapSizes : page_set_check \/ page_set_commit(n) \/ opu_event_mmap(n)
    BY <1>2 DEF Page
  <2>2. CASE page_set_check
    BY <1>1, <2>2 DEF page_set_check, Untouched
  <2>3. CASE page_set_commit(n)
    BY <2>3 DEF page_set_commit, Shrinks
  <2>4. CASE opu_event_mmap(n)
    BY <1>1, <2>4 DEF opu_event_mmap, Untouched
  <2> QED BY <2>1, <2>2, <2>3, <2>4
<1>3. CASE User
  BY <1>1, <1>3, Zenon DEF User, opu_event_destroy, opu_set_event, opu_reset_event, Untouched
<1>4. CASE Fault
  BY <1>1, <1>4, Zenon DEF Fault, opu_signal_hw_exception_event, opu_signal_vm_fault_event,
     opu_signal_reset_event, opu_signal_poison_consumed_event, SignalTypes, opu_signal_iommu_event,
     Untouched
<1>5. CASE write_exception_data
  BY <1>1, <1>5 DEF write_exception_data, Untouched
<1>6. CASE opu_event_free_process
  BY <1>6 DEF opu_event_free_process, Shrinks, IInv, TypeOK, SignalIds, Ids
<1>7. ASSUME NEW t \in Threads, WaitCall(t) PROVE Shrinks
  BY <1>1, <1>7, Zenon DEF WaitCall, wait_begin, wait_lookup_fails, Untouched
<1>8. ASSUME NEW t \in Threads, wait_interrupted(t) \/ WaitStep(t) \/ free_waiters(t) PROVE Shrinks
  BY <1>1, <1>8, Zenon DEF wait_interrupted, WaitStep, wait_set_state, wait_test, wait_woken, wait_expired,
     copy_signaled_event_data, free_waiters, Untouched
<1>9. CASE UNCHANGED vars
  BY <1>1, <1>9 DEF vars, Untouched
<1> QED BY <1>2, <1>3, <1>4, <1>5, <1>6, <1>7, <1>8, <1>9

LEMMA NextSlotInv == ASSUME IInv, SlotInv, [Next]_vars PROVE SlotInv'
<1>1. CASE Create
  BY <1>1, CreateShrinks, ShrinkStep DEF Create
<1>2. CASE Gpu
  BY <1>2, GpuStep DEF Gpu
<1>3. ASSUME NEW cls \in Classes \cup {NO_ID}, opu_signal_event_interrupt(cls) PROVE SlotInv'
  BY <1>3, InterruptStep
<1>4. ASSUME NEW cls \in Classes \cup {NO_ID}, interrupt_without_process(cls) PROVE SlotInv'
  BY <1>4 DEF interrupt_without_process, SlotInv, SlotsCovered, NoPageNoSlot
<1>5. CASE wake_up_all
  BY <1>5, WakeShrinks, ShrinkStep
<1>6. CASE \/ Page \/ User \/ Fault \/ write_exception_data \/ opu_event_free_process
           \/ \E t \in Threads : WaitCall(t) \/ wait_interrupted(t) \/ WaitStep(t) \/ free_waiters(t)
           \/ UNCHANGED vars
  BY <1>6, OthersShrink, ShrinkStep
<1> QED BY <1>1, <1>2, <1>3, <1>4, <1>5, <1>6 DEF Next, Interrupt, Section

\* lookup_signaled_event_by_partial_id may set another event of the class than the one the
\* interrupt was for, or all of them, yet the interrupts to come always suffice: in each class
\* there are at least as many as signaled events.
THEOREM InterruptsSuffice == Spec => []SlotsCovered
<1>1. Init => SlotInv
  <2> SUFFICES ASSUME Init PROVE SlotInv
    OBVIOUS
  <2>1. slots = {} /\ NoPageNoSlot
    BY DEF Init, NoPageNoSlot
  <2>2. \A cls : PartialMatches(cls) = {}
    BY <2>1 DEF PartialMatches, SignaledIds
  <2>3. \A cls : Cardinality(PartialMatches(cls)) = 0
    BY <2>2, FS_EmptySet
  <2>4. \A cls \in Classes : interrupts[cls] = 0 /\ interrupts[NO_ID] = 0
    BY DEF Init
  <2> QED BY <2>1, <2>3, <2>4 DEF SlotInv, SlotsCovered
<1>2. SlotInv => SlotsCovered
  BY DEF SlotInv
<1> QED BY <1>1, <1>2, Invariance, NextSlotInv, PTL DEF Spec
=============================================================================
