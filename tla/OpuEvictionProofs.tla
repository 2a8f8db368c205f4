------------------------- MODULE OpuEvictionProofs -------------------------
(***************************************************************************)
(* The evictions of a process are accounted for on every device, for any   *)
(* number of devices, fences and suspensions.  Reliable says what the      *)
(* account depends on: stopping the queues fails only for the eviction     *)
(* worker, and the process was not opened while the driver was suspended.  *)
(* Without either the account does not balance (README, section 10).       *)
(***************************************************************************)
EXTENDS OpuEviction, FiniteSetTheorems, TLAPS

Reliable == FailingParties \subseteq {"evict"} /\ BornLocked = FALSE

\* Where each party can be, and what it relies on when it goes on.
Roles ==
  /\ pc["evict"] \in {"idle", "oops", "flush", "evict", "undo", "evicted", "failed"}
  /\ pc["restore"] \in {"idle", "bos", "restore", "restored"}
  /\ pc["mm"] \in {"idle", "evict", "evicted", "restore", "restored"}
  /\ pc["pm"] \in {"idle", "cancel", "cancel_restore", "evict", "evicted"}
  /\ pc["evict"] = "flush" => at["evict"] = 1
  /\ pc["evict"] = "undo" => at["evict"] < bad["evict"]

\* opu_locked counts the devices that are suspended or being reset, and the resumes that
\* failed ...
Locks == down \cap resetting = {} /\ opu_locked = Cardinality(down \cup resetting) + lost

\* ... and while it is not zero the processes are held by the suspension, once.
Held ==
  /\ forgotten \in Nat
  /\ pc["pm"] = "idle" => pmheld = IF opu_locked > 0 THEN 1 ELSE 0
  /\ pc["pm"] # "idle" => pmheld = 0 /\ opu_locked > 0

Accounted == \A d \in Devices : evicted[d] = Due(d) + forgotten + stuck[d]

IInv == Reliable /\ EvictionTypeOK /\ Roles /\ Locks /\ Held /\ Accounted
-----------------------------------------------------------------------------
LEMMA DevicesFinite ==
  IsFiniteSet(Devices) /\ \A S \in SUBSET Devices : IsFiniteSet(S) /\ Cardinality(S) \in Nat
<1>1. IsFiniteSet(Devices)
  BY DevicesAssumption, FS_Interval DEF Devices
<1> QED BY <1>1, FS_Subset, FS_CardinalityType

LEMMA FirstDevice == 1 \in Devices /\ \A d \in Devices : d \in Nat /\ 1 <= d /\ d <= NDevices
BY DevicesAssumption DEF Devices

LEMMA DevicesStep ==
  ASSUME NEW d \in Devices PROVE d # NDevices => d + 1 \in Devices
BY DevicesAssumption DEF Devices

\* What a party holds depends on where it is alone.
LEMMA BoundFrame ==
  ASSUME NEW q \in Parties, NEW e \in Devices,
         pc'[q] = pc[q], at'[q] = at[q], bad'[q] = bad[q]
  PROVE  Bound(q, e)' = Bound(q, e)
BY DEF Bound, Holds

LEMMA BoundType ==
  ASSUME NEW q \in Parties, NEW e \in Devices
  PROVE  Bound(q, e) \in {0, 1} /\ Bound(q, e)' \in {0, 1}
BY DEF Bound

LEMMA QueuedType == Queued \in {0, 1} /\ Queued' \in {0, 1}
BY DEF Queued

LEMMA DueType ==
  ASSUME NEW e \in Devices, pmheld \in Nat
  PROVE  Due(e) \in Nat /\ \A q \in Parties : Due(e) >= Bound(q, e)
BY BoundType, QueuedType DEF Due, Parties

\* When one party moves, what is due changes by what that party holds, by the work
\* that is queued and by what the suspension holds.
LEMMA DueChange ==
  ASSUME NEW p \in Parties, NEW e \in Devices, pmheld \in Nat, pmheld' \in Nat,
         \A q \in Parties \ {p} : Bound(q, e)' = Bound(q, e)
  PROVE  Due(e)' = Due(e) + (Bound(p, e)' - Bound(p, e)) + (Queued' - Queued)
                   + (pmheld' - pmheld)
<1>1. CASE p = "evict"
  BY <1>1, BoundType, QueuedType DEF Due, Parties
<1>2. CASE p = "restore"
  BY <1>2, BoundType, QueuedType DEF Due, Parties
<1>3. CASE p = "mm"
  BY <1>3, BoundType, QueuedType DEF Due, Parties
<1>4. CASE p = "pm"
  BY <1>4, BoundType, QueuedType DEF Due, Parties
<1> QED BY <1>1, <1>2, <1>3, <1>4 DEF Parties

LEMMA OneMore ==
  ASSUME NEW S \in SUBSET Devices, NEW d \in Devices
  PROVE  /\ d \notin S => Cardinality(S \cup {d}) = Cardinality(S) + 1
         /\ d \in S => Cardinality(S \ {d}) = Cardinality(S) - 1 /\ Cardinality(S) > 0
<1>1. IsFiniteSet(S) /\ Cardinality(S) \in Nat
  BY DevicesFinite
<1>2. d \notin S => Cardinality(S \cup {d}) = Cardinality(S) + 1
  BY <1>1, FS_AddElement
<1>3. d \in S => Cardinality(S \ {d}) = Cardinality(S) - 1 /\ Cardinality(S \ {d}) \in Nat
  BY <1>1, FS_RemoveElement, FS_CardinalityType
<1> QED BY <1>1, <1>2, <1>3

LEMMA InitIInv == Reliable /\ Init => IInv
<1> SUFFICES ASSUME Reliable, Init PROVE IInv
  OBVIOUS
<1> USE FirstDevice DEF Init, Reliable
<1>1. EvictionTypeOK
  BY ModesAssumption, BoundsAssumption DEF EvictionTypeOK, Pcs, NoCaller
<1>2. Roles
  BY DEF Roles, Parties
<1>3. Locks
  <2>1. down \cup resetting = {} /\ opu_locked = 0 /\ lost = 0
    OBVIOUS
  <2>2. Cardinality(down \cup resetting) = 0
    BY <2>1, FS_EmptySet
  <2> QED BY <2>1, <2>2 DEF Locks
<1>4. Held
  BY DEF Held, Parties
<1>5. Accounted
  BY DEF Accounted, Due, Bound, Holds, Queued, Parties
<1> QED BY <1>1, <1>2, <1>3, <1>4, <1>5 DEF IInv

LEMMA Step_evict_device ==
  ASSUME NEW p \in Parties, IInv, evict_device(p) PROVE IInv'
<1> USE FirstDevice DEF IInv, Reliable, evict_device, NextDevice, evictVars,
  fenceVars, pmVars, ledger
<1>1. EvictionTypeOK'
  <2>1. evicted' \in [Devices -> Nat]
    BY DEF EvictionTypeOK
  <2>2. pc' \in [Parties -> Pcs]
    BY DEF EvictionTypeOK, Pcs, Parties
  <2>3. at' \in [Parties -> Devices] /\ bad' \in [Parties -> Devices]
    BY DevicesStep DEF EvictionTypeOK, Parties
  <2>4. pending' \subseteq {"evict", "restore"}
    BY DEF EvictionTypeOK
  <2>5. ef' \in 0 .. MaxFences /\ fence' \in 1 .. MaxFences /\ signaled' \subseteq 1 .. MaxFences
       /\ last_eviction_seqno' \in 0 .. MaxFences /\ late' \in BOOLEAN
    BY BoundsAssumption DEF EvictionTypeOK
  <2>6. caller' \in [pc : {"idle", "tested"}, fence : 0 .. MaxFences]
    BY BoundsAssumption DEF EvictionTypeOK
  <2>7. opu_locked' \in Nat /\ down' \subseteq Devices /\ resetting' \subseteq Devices
       /\ lost' \in Nat /\ begun' \in Nat
    BY DEF EvictionTypeOK
  <2>8. pmheld' \in Nat /\ forgotten' \in Int /\ stuck' \in [Devices -> Nat]
    BY DEF EvictionTypeOK
  <2> QED BY <2>1, <2>2, <2>3, <2>4, <2>5, <2>6, <2>7, <2>8 DEF EvictionTypeOK
<1>2. Roles'
  BY DEF Roles, EvictionTypeOK, Parties
<1>3. Locks'
  BY DEF Locks
<1>4. Held'
  BY DEF Held, EvictionTypeOK, Parties
<1>5. Accounted'
  <2> SUFFICES ASSUME NEW e \in Devices
               PROVE  evicted'[e] = Due(e)' + forgotten' + stuck'[e]
    BY DEF Accounted
  <2>1. \A q \in Parties \ {p} : Bound(q, e)' = Bound(q, e)
    BY BoundFrame DEF EvictionTypeOK
  <2>2. Due(e)' = Due(e) + (Bound(p, e)' - Bound(p, e)) + (Queued' - Queued)
                  + (pmheld' - pmheld)
    BY <1>1, <2>1, DueChange DEF EvictionTypeOK, Parties
  <2>3. Bound(p, e)' = Bound(p, e) + (IF e = at[p] THEN 1 ELSE 0)
    <3>1. e \in Nat /\ 1 <= e /\ e <= NDevices /\ NDevices \in Nat
          /\ at[p] \in Nat /\ bad[p] \in Nat
      BY DevicesAssumption DEF EvictionTypeOK
    <3>2. CASE at[p] = NDevices
      <4>1. pc'[p] = "evicted"
        BY <3>2 DEF EvictionTypeOK
      <4> QED BY <4>1, <3>1, <3>2 DEF Bound, Holds
    <3>3. CASE at[p] # NDevices
      <4>1. pc'[p] = "evict" /\ at'[p] = at[p] + 1
        BY <3>3 DEF EvictionTypeOK
      <4> QED BY <4>1, <3>1, <3>3 DEF Bound, Holds
    <3> QED BY <3>2, <3>3
  <2>4. Queued' = Queued /\ forgotten' = forgotten
    BY DEF Queued
  <2>5. evicted'[e] = evicted[e] + (IF e = at[p] THEN 1 ELSE 0) /\ stuck'[e] = stuck[e]
    BY DEF EvictionTypeOK
  <2>6. pmheld' = pmheld
    OBVIOUS
  <2>7. Due(e) \in Nat
    BY DueType DEF EvictionTypeOK
  <2>13. Bound(p, e) \in {0, 1} /\ Queued \in {0, 1}
    BY BoundType, QueuedType DEF Parties
  <2>14. /\ evicted[e] = Due(e) + forgotten + stuck[e]
         /\ evicted[e] \in Nat /\ forgotten \in Int /\ stuck[e] \in Nat /\ pmheld \in Nat
    BY DEF Accounted, EvictionTypeOK
  <2> HIDE DEF IInv, evict_device, NextDevice
  <2> QED BY <2>2, <2>3, <2>4, <2>5, <2>6, <2>7, <2>13, <2>14
<1> QED BY <1>1, <1>2, <1>3, <1>4, <1>5

LEMMA Step_evict_device_fails ==
  ASSUME NEW p \in Parties, IInv, evict_device_fails(p) PROVE IInv'
<1> USE FirstDevice DEF IInv, Reliable, evict_device_fails, evictVars, fenceVars,
  pmVars, ledger
<1>1. EvictionTypeOK'
  <2>1. evicted' \in [Devices -> Nat]
    BY DEF EvictionTypeOK
  <2>2. pc' \in [Parties -> Pcs]
    BY DEF EvictionTypeOK, Pcs, Parties
  <2>3. at' \in [Parties -> Devices] /\ bad' \in [Parties -> Devices]
    BY DevicesStep DEF EvictionTypeOK, Parties
  <2>4. pending' \subseteq {"evict", "restore"}
    BY DEF EvictionTypeOK
  <2>5. ef' \in 0 .. MaxFences /\ fence' \in 1 .. MaxFences /\ signaled' \subseteq 1 .. MaxFences
       /\ last_eviction_seqno' \in 0 .. MaxFences /\ late' \in BOOLEAN
    BY BoundsAssumption DEF EvictionTypeOK
  <2>6. caller' \in [pc : {"idle", "tested"}, fence : 0 .. MaxFences]
    BY BoundsAssumption DEF EvictionTypeOK
  <2>7. opu_locked' \in Nat /\ down' \subseteq Devices /\ resetting' \subseteq Devices
       /\ lost' \in Nat /\ begun' \in Nat
    BY DEF EvictionTypeOK
  <2>8. pmheld' \in Nat /\ forgotten' \in Int /\ stuck' \in [Devices -> Nat]
    BY DEF EvictionTypeOK
  <2> QED BY <2>1, <2>2, <2>3, <2>4, <2>5, <2>6, <2>7, <2>8 DEF EvictionTypeOK
<1>2. Roles'
  <2>1. p = "evict" /\ at["evict"] \in Nat /\ 1 <= at["evict"]
    BY DEF EvictionTypeOK
  <2>2. \A q \in Parties \ {"evict"} : pc'[q] = pc[q]
    BY <2>1 DEF EvictionTypeOK
  <2>3. pc'["evict"] = (IF at["evict"] = 1 THEN "failed" ELSE "undo") /\ at'["evict"] = 1
        /\ bad'["evict"] = at["evict"]
    BY <2>1 DEF EvictionTypeOK
  <2> QED BY <2>1, <2>2, <2>3 DEF Roles, Parties
<1>3. Locks'
  BY DEF Locks
<1>4. Held'
  BY DEF Held, EvictionTypeOK, Parties
<1>5. Accounted'
  <2> SUFFICES ASSUME NEW e \in Devices
               PROVE  evicted'[e] = Due(e)' + forgotten' + stuck'[e]
    BY DEF Accounted
  <2>1. \A q \in Parties \ {p} : Bound(q, e)' = Bound(q, e)
    BY BoundFrame DEF EvictionTypeOK
  <2>2. Due(e)' = Due(e) + (Bound(p, e)' - Bound(p, e)) + (Queued' - Queued)
                  + (pmheld' - pmheld)
    BY <1>1, <2>1, DueChange DEF EvictionTypeOK, Parties
  <2>3. Bound(p, e)' = Bound(p, e)
    <3>1. e \in Nat /\ 1 <= e /\ e <= NDevices /\ NDevices \in Nat
          /\ at[p] \in Nat /\ bad[p] \in Nat
      BY DevicesAssumption DEF EvictionTypeOK
    <3>2. CASE at[p] = 1
      <4>1. pc'[p] = "failed"
        BY <3>2 DEF EvictionTypeOK
      <4> QED BY <4>1, <3>1, <3>2 DEF Bound, Holds
    <3>3. CASE at[p] # 1
      <4>1. pc'[p] = "undo" /\ at'[p] = 1 /\ bad'[p] = at[p]
        BY <3>3 DEF EvictionTypeOK
      <4> QED BY <4>1, <3>1, <3>3 DEF Bound, Holds
    <3> QED BY <3>2, <3>3
  <2>4. Queued' = Queued /\ forgotten' = forgotten
    BY DEF Queued
  <2>5. evicted'[e] = evicted[e] + (IF e = at[p] THEN 1 ELSE 0)
        /\ stuck'[e] = stuck[e] + (IF e = at[p] THEN 1 ELSE 0)
    BY DEF EvictionTypeOK
  <2>6. pmheld' = pmheld
    OBVIOUS
  <2>7. Due(e) \in Nat
    BY DueType DEF EvictionTypeOK
  <2>13. Bound(p, e) \in {0, 1} /\ Queued \in {0, 1}
    BY BoundType, QueuedType DEF Parties
  <2>14. /\ evicted[e] = Due(e) + forgotten + stuck[e]
         /\ evicted[e] \in Nat /\ forgotten \in Int /\ stuck[e] \in Nat /\ pmheld \in Nat
    BY DEF Accounted, EvictionTypeOK
  <2> HIDE DEF IInv, evict_device_fails
  <2> QED BY <2>2, <2>3, <2>4, <2>5, <2>6, <2>7, <2>13, <2>14
<1> QED BY <1>1, <1>2, <1>3, <1>4, <1>5

LEMMA Step_undo_device ==
  ASSUME NEW p \in Parties, IInv, undo_device(p) PROVE IInv'
<1> USE FirstDevice DEF IInv, Reliable, undo_device, NextDevice,
  restore_process_queues, evictVars, fenceVars, pmVars, ledger
<1>1. EvictionTypeOK'
  <2>1. evicted' \in [Devices -> Nat]
    BY DEF EvictionTypeOK
  <2>2. pc' \in [Parties -> Pcs]
    BY DEF EvictionTypeOK, Pcs, Parties
  <2>3. at' \in [Parties -> Devices] /\ bad' \in [Parties -> Devices]
    <3>1. at[p] \in Devices /\ bad[p] \in Devices /\ at[p] < bad[p]
      BY DEF EvictionTypeOK, Roles, Parties
    <3>2. at[p] + 1 \in Devices
      BY <3>1, DevicesAssumption DEF Devices
    <3> QED BY <3>2 DEF EvictionTypeOK
  <2>4. pending' \subseteq {"evict", "restore"}
    BY DEF EvictionTypeOK
  <2>5. ef' \in 0 .. MaxFences /\ fence' \in 1 .. MaxFences /\ signaled' \subseteq 1 .. MaxFences
       /\ last_eviction_seqno' \in 0 .. MaxFences /\ late' \in BOOLEAN
    BY BoundsAssumption DEF EvictionTypeOK
  <2>6. caller' \in [pc : {"idle", "tested"}, fence : 0 .. MaxFences]
    BY BoundsAssumption DEF EvictionTypeOK
  <2>7. opu_locked' \in Nat /\ down' \subseteq Devices /\ resetting' \subseteq Devices
       /\ lost' \in Nat /\ begun' \in Nat
    BY DEF EvictionTypeOK
  <2>8. pmheld' \in Nat /\ forgotten' \in Int /\ stuck' \in [Devices -> Nat]
    BY DEF EvictionTypeOK
  <2> QED BY <2>1, <2>2, <2>3, <2>4, <2>5, <2>6, <2>7, <2>8 DEF EvictionTypeOK
<1>2. Roles'
  <2>1. p = "evict" /\ at["evict"] \in Nat /\ bad["evict"] \in Nat /\ at["evict"] < bad["evict"]
    BY DEF EvictionTypeOK, Roles, Parties
  <2>2. \A q \in Parties \ {"evict"} : pc'[q] = pc[q]
    BY <2>1 DEF EvictionTypeOK
  <2>3. bad'["evict"] = bad["evict"]
    OBVIOUS
  <2>4. CASE at["evict"] + 1 = bad["evict"]
    <3>1. pc'["evict"] = "failed"
      BY <2>1, <2>4 DEF EvictionTypeOK
    <3> QED BY <3>1, <2>2 DEF Roles, Parties
  <2>5. CASE at["evict"] + 1 # bad["evict"]
    <3>1. pc'["evict"] = "undo" /\ at'["evict"] = at["evict"] + 1
      BY <2>1, <2>5 DEF EvictionTypeOK
    <3> QED BY <3>1, <2>1, <2>2, <2>3, <2>5 DEF Roles, Parties
  <2> QED BY <2>4, <2>5
<1>3. Locks'
  BY DEF Locks
<1>4. Held'
  BY DEF Held, EvictionTypeOK, Parties
<1>5. Accounted'
  <2> SUFFICES ASSUME NEW e \in Devices
               PROVE  evicted'[e] = Due(e)' + forgotten' + stuck'[e]
    BY DEF Accounted
  <2>1. \A q \in Parties \ {p} : Bound(q, e)' = Bound(q, e)
    BY BoundFrame DEF EvictionTypeOK
  <2>2. Due(e)' = Due(e) + (Bound(p, e)' - Bound(p, e)) + (Queued' - Queued)
                  + (pmheld' - pmheld)
    BY <1>1, <2>1, DueChange DEF EvictionTypeOK, Parties
  <2>10. Bound(p, at[p]) = 1 /\ at[p] \in Devices
    <3>1. at[p] \in Devices /\ at[p] \in Nat /\ bad[p] \in Nat
      BY DEF EvictionTypeOK
    <3> QED BY <3>1 DEF Bound, Holds, Roles, Parties
  <2>11. Due(at[p]) >= 1 /\ Due(at[p]) \in Nat
    BY <2>10, DueType DEF EvictionTypeOK
  <2>12. evicted[at[p]] > 0
    BY <2>10, <2>11 DEF Accounted, EvictionTypeOK, Held
  <2>3. Bound(p, e)' = Bound(p, e) - (IF e = at[p] THEN 1 ELSE 0)
    <3>1. e \in Nat /\ 1 <= e /\ e <= NDevices /\ NDevices \in Nat
          /\ at[p] \in Nat /\ bad[p] \in Nat
      BY DevicesAssumption DEF EvictionTypeOK
    <3>2. CASE at[p] + 1 = bad[p]
      <4>1. pc'[p] = "failed"
        BY <3>2 DEF EvictionTypeOK
      <4> QED BY <4>1, <3>1, <2>10, <3>2 DEF Bound, Holds
    <3>3. CASE at[p] + 1 # bad[p]
      <4>1. pc'[p] = "undo" /\ at'[p] = at[p] + 1 /\ bad'[p] = bad[p]
        <5>1. at' = [at EXCEPT ![p] = @ + 1] /\ pc' = pc /\ bad' = bad
          BY <3>1, <3>3
        <5> QED BY <5>1 DEF EvictionTypeOK
      <4> QED BY <4>1, <3>1, <2>10, <3>3 DEF Bound, Holds
    <3> QED BY <3>2, <3>3
  <2>4. Queued' = Queued /\ forgotten' = forgotten
    BY DEF Queued
  <2>5. evicted'[e] = evicted[e] - (IF e = at[p] THEN 1 ELSE 0) /\ stuck'[e] = stuck[e]
    BY <2>10, <2>12 DEF EvictionTypeOK
  <2>6. pmheld' = pmheld
    OBVIOUS
  <2>7. Due(e) \in Nat
    BY DueType DEF EvictionTypeOK
  <2>13. Bound(p, e) \in {0, 1} /\ Queued \in {0, 1}
    BY BoundType, QueuedType DEF Parties
  <2>14. /\ evicted[e] = Due(e) + forgotten + stuck[e]
         /\ evicted[e] \in Nat /\ forgotten \in Int /\ stuck[e] \in Nat /\ pmheld \in Nat
    BY DEF Accounted, EvictionTypeOK
  <2> HIDE DEF IInv, undo_device, NextDevice, restore_process_queues
  <2> QED BY <2>2, <2>3, <2>4, <2>5, <2>6, <2>7, <2>13, <2>14
<1> QED BY <1>1, <1>2, <1>3, <1>4, <1>5

LEMMA Step_restore_device ==
  ASSUME NEW p \in Parties, IInv, restore_device(p) PROVE IInv'
<1> USE FirstDevice DEF IInv, Reliable, restore_device, NextDevice,
  restore_process_queues, evictVars, fenceVars, pmVars, ledger
<1>1. EvictionTypeOK'
  <2>1. evicted' \in [Devices -> Nat]
    BY DEF EvictionTypeOK
  <2>2. pc' \in [Parties -> Pcs]
    BY DEF EvictionTypeOK, Pcs, Parties
  <2>3. at' \in [Parties -> Devices] /\ bad' \in [Parties -> Devices]
    BY DevicesStep DEF EvictionTypeOK, Parties
  <2>4. pending' \subseteq {"evict", "restore"}
    BY DEF EvictionTypeOK
  <2>5. ef' \in 0 .. MaxFences /\ fence' \in 1 .. MaxFences /\ signaled' \subseteq 1 .. MaxFences
       /\ last_eviction_seqno' \in 0 .. MaxFences /\ late' \in BOOLEAN
    BY BoundsAssumption DEF EvictionTypeOK
  <2>6. caller' \in [pc : {"idle", "tested"}, fence : 0 .. MaxFences]
    BY BoundsAssumption DEF EvictionTypeOK
  <2>7. opu_locked' \in Nat /\ down' \subseteq Devices /\ resetting' \subseteq Devices
       /\ lost' \in Nat /\ begun' \in Nat
    BY DEF EvictionTypeOK
  <2>8. pmheld' \in Nat /\ forgotten' \in Int /\ stuck' \in [Devices -> Nat]
    BY DEF EvictionTypeOK
  <2> QED BY <2>1, <2>2, <2>3, <2>4, <2>5, <2>6, <2>7, <2>8 DEF EvictionTypeOK
<1>2. Roles'
  BY DEF Roles, EvictionTypeOK, Parties
<1>3. Locks'
  BY DEF Locks
<1>4. Held'
  BY DEF Held, EvictionTypeOK, Parties
<1>5. Accounted'
  <2> SUFFICES ASSUME NEW e \in Devices
               PROVE  evicted'[e] = Due(e)' + forgotten' + stuck'[e]
    BY DEF Accounted
  <2>1. \A q \in Parties \ {p} : Bound(q, e)' = Bound(q, e)
    BY BoundFrame DEF EvictionTypeOK
  <2>2. Due(e)' = Due(e) + (Bound(p, e)' - Bound(p, e)) + (Queued' - Queued)
                  + (pmheld' - pmheld)
    BY <1>1, <2>1, DueChange DEF EvictionTypeOK, Parties
  <2>10. Bound(p, at[p]) = 1 /\ at[p] \in Devices
    <3>1. at[p] \in Devices /\ at[p] \in Nat /\ bad[p] \in Nat
      BY DEF EvictionTypeOK
    <3> QED BY <3>1 DEF Bound, Holds, Roles, Parties
  <2>11. Due(at[p]) >= 1 /\ Due(at[p]) \in Nat
    BY <2>10, DueType DEF EvictionTypeOK
  <2>12. evicted[at[p]] > 0
    BY <2>10, <2>11 DEF Accounted, EvictionTypeOK, Held
  <2>3. Bound(p, e)' = Bound(p, e) - (IF e = at[p] THEN 1 ELSE 0)
    <3>1. e \in Nat /\ 1 <= e /\ e <= NDevices /\ NDevices \in Nat
          /\ at[p] \in Nat /\ bad[p] \in Nat
      BY DevicesAssumption DEF EvictionTypeOK
    <3>2. CASE at[p] = NDevices
      <4>1. pc'[p] = "restored"
        BY <3>2 DEF EvictionTypeOK
      <4> QED BY <4>1, <3>1, <3>2 DEF Bound, Holds
    <3>3. CASE at[p] # NDevices
      <4>1. pc'[p] = "restore" /\ at'[p] = at[p] + 1
        BY <3>3 DEF EvictionTypeOK
      <4> QED BY <4>1, <3>1, <3>3 DEF Bound, Holds
    <3> QED BY <3>2, <3>3
  <2>4. Queued' = Queued /\ forgotten' = forgotten
    BY DEF Queued
  <2>5. evicted'[e] = evicted[e] - (IF e = at[p] THEN 1 ELSE 0) /\ stuck'[e] = stuck[e]
    BY <2>10, <2>12 DEF EvictionTypeOK
  <2>6. pmheld' = pmheld
    OBVIOUS
  <2>7. Due(e) \in Nat
    BY DueType DEF EvictionTypeOK
  <2>13. Bound(p, e) \in {0, 1} /\ Queued \in {0, 1}
    BY BoundType, QueuedType DEF Parties
  <2>14. /\ evicted[e] = Due(e) + forgotten + stuck[e]
         /\ evicted[e] \in Nat /\ forgotten \in Int /\ stuck[e] \in Nat /\ pmheld \in Nat
    BY DEF Accounted, EvictionTypeOK
  <2> HIDE DEF IInv, restore_device, NextDevice, restore_process_queues
  <2> QED BY <2>2, <2>3, <2>4, <2>5, <2>6, <2>7, <2>13, <2>14
<1> QED BY <1>1, <1>2, <1>3, <1>4, <1>5

LEMMA Step_schedule_evict_test ==
  ASSUME NEW f \in 1 .. MaxFences, IInv, schedule_evict_test(f) PROVE IInv'
<1> USE FirstDevice DEF IInv, Reliable, schedule_evict_test, evictVars, fenceVars,
  pmVars, ledger
<1>1. EvictionTypeOK'
  <2>1. evicted' \in [Devices -> Nat]
    BY DEF EvictionTypeOK
  <2>2. pc' \in [Parties -> Pcs]
    BY DEF EvictionTypeOK, Pcs, Parties
  <2>3. at' \in [Parties -> Devices] /\ bad' \in [Parties -> Devices]
    BY DevicesStep DEF EvictionTypeOK, Parties
  <2>4. pending' \subseteq {"evict", "restore"}
    BY DEF EvictionTypeOK
  <2>5. ef' \in 0 .. MaxFences /\ fence' \in 1 .. MaxFences /\ signaled' \subseteq 1 .. MaxFences
       /\ last_eviction_seqno' \in 0 .. MaxFences /\ late' \in BOOLEAN
    BY BoundsAssumption DEF EvictionTypeOK
  <2>6. caller' \in [pc : {"idle", "tested"}, fence : 0 .. MaxFences]
    BY BoundsAssumption DEF EvictionTypeOK
  <2>7. opu_locked' \in Nat /\ down' \subseteq Devices /\ resetting' \subseteq Devices
       /\ lost' \in Nat /\ begun' \in Nat
    BY DEF EvictionTypeOK
  <2>8. pmheld' \in Nat /\ forgotten' \in Int /\ stuck' \in [Devices -> Nat]
    BY DEF EvictionTypeOK
  <2> QED BY <2>1, <2>2, <2>3, <2>4, <2>5, <2>6, <2>7, <2>8 DEF EvictionTypeOK
<1>2. Roles'
  BY DEF Roles, EvictionTypeOK, Parties
<1>3. Locks'
  BY DEF Locks
<1>4. Held'
  BY DEF Held, EvictionTypeOK, Parties
<1>5. Accounted'
  <2> SUFFICES ASSUME NEW e \in Devices
               PROVE  evicted'[e] = Due(e)' + forgotten' + stuck'[e]
    BY DEF Accounted
  <2>1. \A q \in Parties \ {"evict"} : Bound(q, e)' = Bound(q, e)
    BY BoundFrame DEF EvictionTypeOK
  <2>2. Due(e)' = Due(e) + (Bound("evict", e)' - Bound("evict", e)) + (Queued' - Queued)
                  + (pmheld' - pmheld)
    BY <1>1, <2>1, DueChange DEF EvictionTypeOK, Parties
  <2>3. Bound("evict", e)' = Bound("evict", e)
    BY DEF EvictionTypeOK, Roles, Bound, Holds, Parties
  <2>4. Queued' = Queued /\ forgotten' = forgotten
    BY DEF Queued
  <2>5. evicted'[e] = evicted[e] /\ stuck'[e] = stuck[e]
    BY DEF EvictionTypeOK
  <2>6. pmheld' = pmheld
    OBVIOUS
  <2>7. Due(e) \in Nat
    BY DueType DEF EvictionTypeOK
  <2>13. Bound("evict", e) \in {0, 1} /\ Queued \in {0, 1}
    BY BoundType, QueuedType DEF Parties
  <2>14. /\ evicted[e] = Due(e) + forgotten + stuck[e]
         /\ evicted[e] \in Nat /\ forgotten \in Int /\ stuck[e] \in Nat /\ pmheld \in Nat
    BY DEF Accounted, EvictionTypeOK
  <2> HIDE DEF IInv, schedule_evict_test
  <2> QED BY <2>2, <2>3, <2>4, <2>5, <2>6, <2>7, <2>13, <2>14
<1> QED BY <1>1, <1>2, <1>3, <1>4, <1>5

LEMMA Step_schedule_evict ==
  ASSUME NEW f \in 1 .. MaxFences, IInv, schedule_evict(f) PROVE IInv'
<1> USE FirstDevice DEF IInv, Reliable, schedule_evict, ScheduleEviction, evictVars,
  fenceVars, pmVars, ledger
<1>1. EvictionTypeOK'
  <2>1. evicted' \in [Devices -> Nat]
    BY DEF EvictionTypeOK
  <2>2. pc' \in [Parties -> Pcs]
    BY DEF EvictionTypeOK, Pcs, Parties
  <2>3. at' \in [Parties -> Devices] /\ bad' \in [Parties -> Devices]
    BY DevicesStep DEF EvictionTypeOK, Parties
  <2>4. pending' \subseteq {"evict", "restore"}
    BY DEF EvictionTypeOK
  <2>5. ef' \in 0 .. MaxFences /\ fence' \in 1 .. MaxFences /\ signaled' \subseteq 1 .. MaxFences
       /\ last_eviction_seqno' \in 0 .. MaxFences /\ late' \in BOOLEAN
    BY BoundsAssumption DEF EvictionTypeOK
  <2>6. caller' \in [pc : {"idle", "tested"}, fence : 0 .. MaxFences]
    BY BoundsAssumption DEF EvictionTypeOK
  <2>7. opu_locked' \in Nat /\ down' \subseteq Devices /\ resetting' \subseteq Devices
       /\ lost' \in Nat /\ begun' \in Nat
    BY DEF EvictionTypeOK
  <2>8. pmheld' \in Nat /\ forgotten' \in Int /\ stuck' \in [Devices -> Nat]
    BY DEF EvictionTypeOK
  <2> QED BY <2>1, <2>2, <2>3, <2>4, <2>5, <2>6, <2>7, <2>8 DEF EvictionTypeOK
<1>2. Roles'
  BY DEF Roles, EvictionTypeOK, Parties
<1>3. Locks'
  BY DEF Locks
<1>4. Held'
  BY DEF Held, EvictionTypeOK, Parties
<1>5. Accounted'
  <2> SUFFICES ASSUME NEW e \in Devices
               PROVE  evicted'[e] = Due(e)' + forgotten' + stuck'[e]
    BY DEF Accounted
  <2>1. \A q \in Parties \ {"evict"} : Bound(q, e)' = Bound(q, e)
    BY BoundFrame DEF EvictionTypeOK
  <2>2. Due(e)' = Due(e) + (Bound("evict", e)' - Bound("evict", e)) + (Queued' - Queued)
                  + (pmheld' - pmheld)
    BY <1>1, <2>1, DueChange DEF EvictionTypeOK, Parties
  <2>3. Bound("evict", e)' = Bound("evict", e)
    BY DEF EvictionTypeOK, Roles, Bound, Holds, Parties
  <2>4. Queued' = Queued /\ forgotten' = forgotten
    BY DEF Queued
  <2>5. evicted'[e] = evicted[e] /\ stuck'[e] = stuck[e]
    BY DEF EvictionTypeOK
  <2>6. pmheld' = pmheld
    OBVIOUS
  <2>7. Due(e) \in Nat
    BY DueType DEF EvictionTypeOK
  <2>13. Bound("evict", e) \in {0, 1} /\ Queued \in {0, 1}
    BY BoundType, QueuedType DEF Parties
  <2>14. /\ evicted[e] = Due(e) + forgotten + stuck[e]
         /\ evicted[e] \in Nat /\ forgotten \in Int /\ stuck[e] \in Nat /\ pmheld \in Nat
    BY DEF Accounted, EvictionTypeOK
  <2> HIDE DEF IInv, schedule_evict, ScheduleEviction
  <2> QED BY <2>2, <2>3, <2>4, <2>5, <2>6, <2>7, <2>13, <2>14
<1> QED BY <1>1, <1>2, <1>3, <1>4, <1>5

LEMMA Step_schedule_evict_late ==
  ASSUME IInv, schedule_evict_late PROVE IInv'
<1> USE FirstDevice DEF IInv, Reliable, schedule_evict_late, ScheduleEviction,
  NoCaller, evictVars, fenceVars, pmVars, ledger
<1>1. EvictionTypeOK'
  <2>1. evicted' \in [Devices -> Nat]
    BY DEF EvictionTypeOK
  <2>2. pc' \in [Parties -> Pcs]
    BY DEF EvictionTypeOK, Pcs, Parties
  <2>3. at' \in [Parties -> Devices] /\ bad' \in [Parties -> Devices]
    BY DevicesStep DEF EvictionTypeOK, Parties
  <2>4. pending' \subseteq {"evict", "restore"}
    BY DEF EvictionTypeOK
  <2>5. ef' \in 0 .. MaxFences /\ fence' \in 1 .. MaxFences /\ signaled' \subseteq 1 .. MaxFences
       /\ last_eviction_seqno' \in 0 .. MaxFences /\ late' \in BOOLEAN
    BY BoundsAssumption DEF EvictionTypeOK
  <2>6. caller' \in [pc : {"idle", "tested"}, fence : 0 .. MaxFences]
    BY BoundsAssumption DEF EvictionTypeOK
  <2>7. opu_locked' \in Nat /\ down' \subseteq Devices /\ resetting' \subseteq Devices
       /\ lost' \in Nat /\ begun' \in Nat
    BY DEF EvictionTypeOK
  <2>8. pmheld' \in Nat /\ forgotten' \in Int /\ stuck' \in [Devices -> Nat]
    BY DEF EvictionTypeOK
  <2> QED BY <2>1, <2>2, <2>3, <2>4, <2>5, <2>6, <2>7, <2>8 DEF EvictionTypeOK
<1>2. Roles'
  BY DEF Roles, EvictionTypeOK, Parties
<1>3. Locks'
  BY DEF Locks
<1>4. Held'
  BY DEF Held, EvictionTypeOK, Parties
<1>5. Accounted'
  <2> SUFFICES ASSUME NEW e \in Devices
               PROVE  evicted'[e] = Due(e)' + forgotten' + stuck'[e]
    BY DEF Accounted
  <2>1. \A q \in Parties \ {"evict"} : Bound(q, e)' = Bound(q, e)
    BY BoundFrame DEF EvictionTypeOK
  <2>2. Due(e)' = Due(e) + (Bound("evict", e)' - Bound("evict", e)) + (Queued' - Queued)
                  + (pmheld' - pmheld)
    BY <1>1, <2>1, DueChange DEF EvictionTypeOK, Parties
  <2>3. Bound("evict", e)' = Bound("evict", e)
    BY DEF EvictionTypeOK, Roles, Bound, Holds, Parties
  <2>4. Queued' = Queued /\ forgotten' = forgotten
    BY DEF Queued
  <2>5. evicted'[e] = evicted[e] /\ stuck'[e] = stuck[e]
    BY DEF EvictionTypeOK
  <2>6. pmheld' = pmheld
    OBVIOUS
  <2>7. Due(e) \in Nat
    BY DueType DEF EvictionTypeOK
  <2>13. Bound("evict", e) \in {0, 1} /\ Queued \in {0, 1}
    BY BoundType, QueuedType DEF Parties
  <2>14. /\ evicted[e] = Due(e) + forgotten + stuck[e]
         /\ evicted[e] \in Nat /\ forgotten \in Int /\ stuck[e] \in Nat /\ pmheld \in Nat
    BY DEF Accounted, EvictionTypeOK
  <2> HIDE DEF IInv, schedule_evict_late, ScheduleEviction, NoCaller
  <2> QED BY <2>2, <2>3, <2>4, <2>5, <2>6, <2>7, <2>13, <2>14
<1> QED BY <1>1, <1>2, <1>3, <1>4, <1>5

LEMMA Step_evict_worker_begin ==
  ASSUME IInv, evict_worker_begin PROVE IInv'
<1> USE FirstDevice DEF IInv, Reliable, evict_worker_begin, Begin, evictVars,
  fenceVars, pmVars, ledger
<1>1. EvictionTypeOK'
  BY DEF EvictionTypeOK, Pcs, Parties
<1>2. Roles'
  BY DEF Roles, EvictionTypeOK, Parties
<1>3. Locks'
  BY DEF Locks
<1>4. Held'
  BY DEF Held, EvictionTypeOK, Parties
<1>5. Accounted'
  <2> SUFFICES ASSUME NEW e \in Devices
               PROVE  evicted'[e] = Due(e)' + forgotten' + stuck'[e]
    BY DEF Accounted
  <2>1. \A q \in Parties \ {"evict"} : Bound(q, e)' = Bound(q, e)
    BY BoundFrame DEF EvictionTypeOK
  <2>2. Due(e)' = Due(e) + (Bound("evict", e)' - Bound("evict", e)) + (Queued' - Queued)
                  + (pmheld' - pmheld)
    BY <1>1, <2>1, DueChange DEF EvictionTypeOK, Parties
  <2>3. Bound("evict", e)' = 0 /\ Bound("evict", e) = 0
    <3>1. e \in Nat /\ 1 <= e /\ at'["evict"] = 1 /\ pc'["evict"] \in {"oops", "flush", "evict"}
      BY DEF EvictionTypeOK, Parties
    <3> QED BY <3>1 DEF Bound, Holds, Roles
  <2>4. Queued' = Queued /\ forgotten' = forgotten
    BY DEF Queued
  <2>5. evicted'[e] = evicted[e] /\ stuck'[e] = stuck[e]
    BY DEF EvictionTypeOK
  <2>6. pmheld' = pmheld
    OBVIOUS
  <2>7. Due(e) \in Nat
    BY DueType DEF EvictionTypeOK
  <2>13. Bound("evict", e) \in {0, 1} /\ Queued \in {0, 1}
    BY BoundType, QueuedType DEF Parties
  <2>14. /\ evicted[e] = Due(e) + forgotten + stuck[e]
         /\ evicted[e] \in Nat /\ forgotten \in Int /\ stuck[e] \in Nat /\ pmheld \in Nat
    BY DEF Accounted, EvictionTypeOK
  <2> HIDE DEF IInv, evict_worker_begin, Begin
  <2> QED BY <2>2, <2>3, <2>4, <2>5, <2>6, <2>7, <2>13, <2>14
<1> QED BY <1>1, <1>2, <1>3, <1>4, <1>5

LEMMA Step_evict_worker_done ==
  ASSUME IInv, evict_worker_done PROVE IInv'
<1> USE FirstDevice DEF IInv, Reliable, evict_worker_done, Goto, evictVars,
  fenceVars, pmVars, ledger
<1>1. EvictionTypeOK'
  <2>1. evicted' \in [Devices -> Nat]
    BY DEF EvictionTypeOK
  <2>2. pc' \in [Parties -> Pcs]
    BY DEF EvictionTypeOK, Pcs, Parties
  <2>3. at' \in [Parties -> Devices] /\ bad' \in [Parties -> Devices]
    BY DevicesStep DEF EvictionTypeOK, Parties
  <2>4. pending' \subseteq {"evict", "restore"}
    BY DEF EvictionTypeOK
  <2>5. ef' \in 0 .. MaxFences /\ fence' \in 1 .. MaxFences /\ signaled' \subseteq 1 .. MaxFences
       /\ last_eviction_seqno' \in 0 .. MaxFences /\ late' \in BOOLEAN
    BY BoundsAssumption DEF EvictionTypeOK
  <2>6. caller' \in [pc : {"idle", "tested"}, fence : 0 .. MaxFences]
    BY BoundsAssumption DEF EvictionTypeOK
  <2>7. opu_locked' \in Nat /\ down' \subseteq Devices /\ resetting' \subseteq Devices
       /\ lost' \in Nat /\ begun' \in Nat
    BY DEF EvictionTypeOK
  <2>8. pmheld' \in Nat /\ forgotten' \in Int /\ stuck' \in [Devices -> Nat]
    BY DEF EvictionTypeOK
  <2> QED BY <2>1, <2>2, <2>3, <2>4, <2>5, <2>6, <2>7, <2>8 DEF EvictionTypeOK
<1>2. Roles'
  BY DEF Roles, EvictionTypeOK, Parties
<1>3. Locks'
  BY DEF Locks
<1>4. Held'
  BY DEF Held, EvictionTypeOK, Parties
<1>5. Accounted'
  <2> SUFFICES ASSUME NEW e \in Devices
               PROVE  evicted'[e] = Due(e)' + forgotten' + stuck'[e]
    BY DEF Accounted
  <2>1. \A q \in Parties \ {"evict"} : Bound(q, e)' = Bound(q, e)
    BY BoundFrame DEF EvictionTypeOK
  <2>2. Due(e)' = Due(e) + (Bound("evict", e)' - Bound("evict", e)) + (Queued' - Queued)
                  + (pmheld' - pmheld)
    BY <1>1, <2>1, DueChange DEF EvictionTypeOK, Parties
  <2>3. Bound("evict", e)' = 0 /\ Bound("evict", e) = 1
    BY DEF EvictionTypeOK, Roles, Bound, Holds, Parties
  <2>4. Queued' = 1 /\ forgotten' = forgotten + Queued
    BY DEF Queued
  <2>5. evicted'[e] = evicted[e] /\ stuck'[e] = stuck[e]
    BY DEF EvictionTypeOK
  <2>6. pmheld' = pmheld
    OBVIOUS
  <2>7. Due(e) \in Nat
    BY DueType DEF EvictionTypeOK
  <2>13. Bound("evict", e) \in {0, 1} /\ Queued \in {0, 1}
    BY BoundType, QueuedType DEF Parties
  <2>14. /\ evicted[e] = Due(e) + forgotten + stuck[e]
         /\ evicted[e] \in Nat /\ forgotten \in Int /\ stuck[e] \in Nat /\ pmheld \in Nat
    BY DEF Accounted, EvictionTypeOK
  <2> HIDE DEF IInv, evict_worker_done, Goto
  <2> QED BY <2>2, <2>3, <2>4, <2>5, <2>6, <2>7, <2>13, <2>14
<1> QED BY <1>1, <1>2, <1>3, <1>4, <1>5

LEMMA Step_evict_worker_failed ==
  ASSUME IInv, evict_worker_failed PROVE IInv'
<1> USE FirstDevice DEF IInv, Reliable, evict_worker_failed, Goto, evictVars,
  fenceVars, pmVars, ledger
<1>1. EvictionTypeOK'
  BY DEF EvictionTypeOK, Pcs, Parties
<1>2. Roles'
  BY DEF Roles, EvictionTypeOK, Parties
<1>3. Locks'
  BY DEF Locks
<1>4. Held'
  BY DEF Held, EvictionTypeOK, Parties
<1>5. Accounted'
  <2> SUFFICES ASSUME NEW e \in Devices
               PROVE  evicted'[e] = Due(e)' + forgotten' + stuck'[e]
    BY DEF Accounted
  <2>1. \A q \in Parties \ {"evict"} : Bound(q, e)' = Bound(q, e)
    BY BoundFrame DEF EvictionTypeOK
  <2>2. Due(e)' = Due(e) + (Bound("evict", e)' - Bound("evict", e)) + (Queued' - Queued)
                  + (pmheld' - pmheld)
    BY <1>1, <2>1, DueChange DEF EvictionTypeOK, Parties
  <2>3. Bound("evict", e)' = 0 /\ Bound("evict", e) = 0
    BY DEF EvictionTypeOK, Roles, Bound, Holds, Parties
  <2>4. Queued' = Queued /\ forgotten' = forgotten
    BY DEF Queued
  <2>5. evicted'[e] = evicted[e] /\ stuck'[e] = stuck[e]
    BY DEF EvictionTypeOK
  <2>6. pmheld' = pmheld
    OBVIOUS
  <2>7. Due(e) \in Nat
    BY DueType DEF EvictionTypeOK
  <2>13. Bound("evict", e) \in {0, 1} /\ Queued \in {0, 1}
    BY BoundType, QueuedType DEF Parties
  <2>14. /\ evicted[e] = Due(e) + forgotten + stuck[e]
         /\ evicted[e] \in Nat /\ forgotten \in Int /\ stuck[e] \in Nat /\ pmheld \in Nat
    BY DEF Accounted, EvictionTypeOK
  <2> HIDE DEF IInv, evict_worker_failed, Goto
  <2> QED BY <2>2, <2>3, <2>4, <2>5, <2>6, <2>7, <2>13, <2>14
<1> QED BY <1>1, <1>2, <1>3, <1>4, <1>5

LEMMA Step_restore_worker_begin ==
  ASSUME IInv, restore_worker_begin PROVE IInv'
<1> USE FirstDevice DEF IInv, Reliable, restore_worker_begin, Begin, evictVars,
  fenceVars, pmVars, ledger
<1>1. EvictionTypeOK'
  BY DEF EvictionTypeOK, Pcs, Parties
<1>2. Roles'
  BY DEF Roles, EvictionTypeOK, Parties
<1>3. Locks'
  BY DEF Locks
<1>4. Held'
  BY DEF Held, EvictionTypeOK, Parties
<1>5. Accounted'
  <2> SUFFICES ASSUME NEW e \in Devices
               PROVE  evicted'[e] = Due(e)' + forgotten' + stuck'[e]
    BY DEF Accounted
  <2>1. \A q \in Parties \ {"restore"} : Bound(q, e)' = Bound(q, e)
    BY BoundFrame DEF EvictionTypeOK
  <2>2. Due(e)' = Due(e) + (Bound("restore", e)' - Bound("restore", e)) + (Queued' - Queued)
                  + (pmheld' - pmheld)
    BY <1>1, <2>1, DueChange DEF EvictionTypeOK, Parties
  <2>3. Bound("restore", e)' = 1 /\ Bound("restore", e) = 0
    BY DEF EvictionTypeOK, Roles, Bound, Holds, Parties
  <2>4. Queued' = 0 /\ Queued = 1 /\ forgotten' = forgotten
    BY DEF Queued
  <2>5. evicted'[e] = evicted[e] /\ stuck'[e] = stuck[e]
    BY DEF EvictionTypeOK
  <2>6. pmheld' = pmheld
    OBVIOUS
  <2>7. Due(e) \in Nat
    BY DueType DEF EvictionTypeOK
  <2>13. Bound("restore", e) \in {0, 1} /\ Queued \in {0, 1}
    BY BoundType, QueuedType DEF Parties
  <2>14. /\ evicted[e] = Due(e) + forgotten + stuck[e]
         /\ evicted[e] \in Nat /\ forgotten \in Int /\ stuck[e] \in Nat /\ pmheld \in Nat
    BY DEF Accounted, EvictionTypeOK
  <2> HIDE DEF IInv, restore_worker_begin, Begin
  <2> QED BY <2>2, <2>3, <2>4, <2>5, <2>6, <2>7, <2>13, <2>14
<1> QED BY <1>1, <1>2, <1>3, <1>4, <1>5

LEMMA Step_restore_worker_bos ==
  ASSUME IInv, restore_worker_bos PROVE IInv'
<1> USE FirstDevice DEF IInv, Reliable, restore_worker_bos, Begin, evictVars,
  fenceVars, pmVars, ledger
<1>1. EvictionTypeOK'
  <2>1. evicted' \in [Devices -> Nat]
    BY DEF EvictionTypeOK
  <2>2. pc' \in [Parties -> Pcs]
    BY DEF EvictionTypeOK, Pcs, Parties
  <2>3. at' \in [Parties -> Devices] /\ bad' \in [Parties -> Devices]
    BY DevicesStep DEF EvictionTypeOK, Parties
  <2>4. pending' \subseteq {"evict", "restore"}
    BY DEF EvictionTypeOK
  <2>5. ef' \in 0 .. MaxFences /\ fence' \in 1 .. MaxFences /\ signaled' \subseteq 1 .. MaxFences
       /\ last_eviction_seqno' \in 0 .. MaxFences /\ late' \in BOOLEAN
    BY BoundsAssumption DEF EvictionTypeOK
  <2>6. caller' \in [pc : {"idle", "tested"}, fence : 0 .. MaxFences]
    BY BoundsAssumption DEF EvictionTypeOK
  <2>7. opu_locked' \in Nat /\ down' \subseteq Devices /\ resetting' \subseteq Devices
       /\ lost' \in Nat /\ begun' \in Nat
    BY DEF EvictionTypeOK
  <2>8. pmheld' \in Nat /\ forgotten' \in Int /\ stuck' \in [Devices -> Nat]
    BY DEF EvictionTypeOK
  <2> QED BY <2>1, <2>2, <2>3, <2>4, <2>5, <2>6, <2>7, <2>8 DEF EvictionTypeOK
<1>2. Roles'
  BY DEF Roles, EvictionTypeOK, Parties
<1>3. Locks'
  BY DEF Locks
<1>4. Held'
  BY DEF Held, EvictionTypeOK, Parties
<1>5. Accounted'
  <2> SUFFICES ASSUME NEW e \in Devices
               PROVE  evicted'[e] = Due(e)' + forgotten' + stuck'[e]
    BY DEF Accounted
  <2>1. \A q \in Parties \ {"restore"} : Bound(q, e)' = Bound(q, e)
    BY BoundFrame DEF EvictionTypeOK
  <2>2. Due(e)' = Due(e) + (Bound("restore", e)' - Bound("restore", e)) + (Queued' - Queued)
                  + (pmheld' - pmheld)
    BY <1>1, <2>1, DueChange DEF EvictionTypeOK, Parties
  <2>3. Bound("restore", e)' = 1 /\ Bound("restore", e) = 1
    BY DEF EvictionTypeOK, Roles, Bound, Holds, Parties
  <2>4. Queued' = Queued /\ forgotten' = forgotten
    BY DEF Queued
  <2>5. evicted'[e] = evicted[e] /\ stuck'[e] = stuck[e]
    BY DEF EvictionTypeOK
  <2>6. pmheld' = pmheld
    OBVIOUS
  <2>7. Due(e) \in Nat
    BY DueType DEF EvictionTypeOK
  <2>13. Bound("restore", e) \in {0, 1} /\ Queued \in {0, 1}
    BY BoundType, QueuedType DEF Parties
  <2>14. /\ evicted[e] = Due(e) + forgotten + stuck[e]
         /\ evicted[e] \in Nat /\ forgotten \in Int /\ stuck[e] \in Nat /\ pmheld \in Nat
    BY DEF Accounted, EvictionTypeOK
  <2> HIDE DEF IInv, restore_worker_bos, Begin
  <2> QED BY <2>2, <2>3, <2>4, <2>5, <2>6, <2>7, <2>13, <2>14
<1> QED BY <1>1, <1>2, <1>3, <1>4, <1>5

LEMMA Step_restore_worker_retry ==
  ASSUME IInv, restore_worker_retry PROVE IInv'
<1> USE FirstDevice DEF IInv, Reliable, restore_worker_retry, RestoreEnds, evictVars,
  fenceVars, pmVars, ledger
<1>1. EvictionTypeOK'
  <2>1. evicted' \in [Devices -> Nat]
    BY DEF EvictionTypeOK
  <2>2. pc' \in [Parties -> Pcs]
    BY DEF EvictionTypeOK, Pcs, Parties
  <2>3. at' \in [Parties -> Devices] /\ bad' \in [Parties -> Devices]
    BY DevicesStep DEF EvictionTypeOK, Parties
  <2>4. pending' \subseteq {"evict", "restore"}
    BY DEF EvictionTypeOK
  <2>5. ef' \in 0 .. MaxFences /\ fence' \in 1 .. MaxFences /\ signaled' \subseteq 1 .. MaxFences
       /\ last_eviction_seqno' \in 0 .. MaxFences /\ late' \in BOOLEAN
    BY BoundsAssumption DEF EvictionTypeOK
  <2>6. caller' \in [pc : {"idle", "tested"}, fence : 0 .. MaxFences]
    BY BoundsAssumption DEF EvictionTypeOK
  <2>7. opu_locked' \in Nat /\ down' \subseteq Devices /\ resetting' \subseteq Devices
       /\ lost' \in Nat /\ begun' \in Nat
    BY DEF EvictionTypeOK
  <2>8. pmheld' \in Nat /\ forgotten' \in Int /\ stuck' \in [Devices -> Nat]
    BY DEF EvictionTypeOK
  <2> QED BY <2>1, <2>2, <2>3, <2>4, <2>5, <2>6, <2>7, <2>8 DEF EvictionTypeOK
<1>2. Roles'
  BY DEF Roles, EvictionTypeOK, Parties
<1>3. Locks'
  BY DEF Locks
<1>4. Held'
  BY DEF Held, EvictionTypeOK, Parties
<1>5. Accounted'
  <2> SUFFICES ASSUME NEW e \in Devices
               PROVE  evicted'[e] = Due(e)' + forgotten' + stuck'[e]
    BY DEF Accounted
  <2>8. \A q \in {"mm", "pm"} : Bound(q, e)' = Bound(q, e)
    BY BoundFrame DEF EvictionTypeOK, Parties
  <2>9. Bound("evict", e)' = Bound("evict", e)
    <3>1. e \in Nat /\ 1 <= e /\ at'["evict"] = at["evict"] /\ bad'["evict"] = bad["evict"]
      BY DEF EvictionTypeOK
    <3>2. pc'["evict"] = IF pc["evict"] = "flush" THEN "evict" ELSE pc["evict"]
      BY DEF EvictionTypeOK, Parties
    <3> QED BY <3>1, <3>2 DEF Bound, Holds, Roles
  <2>1. \A q \in Parties \ {"restore"} : Bound(q, e)' = Bound(q, e)
    BY <2>8, <2>9 DEF Parties
  <2>2. Due(e)' = Due(e) + (Bound("restore", e)' - Bound("restore", e)) + (Queued' - Queued)
                  + (pmheld' - pmheld)
    BY <1>1, <2>1, DueChange DEF EvictionTypeOK, Parties
  <2>3. Bound("restore", e)' = 0 /\ Bound("restore", e) = 1
    BY DEF EvictionTypeOK, Roles, Bound, Holds, Parties
  <2>4. Queued' = 1 /\ forgotten' = forgotten + Queued
    BY DEF Queued
  <2>5. evicted'[e] = evicted[e] /\ stuck'[e] = stuck[e]
    BY DEF EvictionTypeOK
  <2>6. pmheld' = pmheld
    OBVIOUS
  <2>7. Due(e) \in Nat
    BY DueType DEF EvictionTypeOK
  <2>13. Bound("restore", e) \in {0, 1} /\ Queued \in {0, 1}
    BY BoundType, QueuedType DEF Parties
  <2>14. /\ evicted[e] = Due(e) + forgotten + stuck[e]
         /\ evicted[e] \in Nat /\ forgotten \in Int /\ stuck[e] \in Nat /\ pmheld \in Nat
    BY DEF Accounted, EvictionTypeOK
  <2> HIDE DEF IInv, restore_worker_retry, RestoreEnds
  <2> QED BY <2>2, <2>3, <2>4, <2>5, <2>6, <2>7, <2>13, <2>14
<1> QED BY <1>1, <1>2, <1>3, <1>4, <1>5

LEMMA Step_restore_worker_done ==
  ASSUME IInv, restore_worker_done PROVE IInv'
<1> USE FirstDevice DEF IInv, Reliable, restore_worker_done, RestoreEnds, evictVars,
  fenceVars, pmVars, ledger
<1>1. EvictionTypeOK'
  BY DEF EvictionTypeOK, Pcs, Parties
<1>2. Roles'
  BY DEF Roles, EvictionTypeOK, Parties
<1>3. Locks'
  BY DEF Locks
<1>4. Held'
  BY DEF Held, EvictionTypeOK, Parties
<1>5. Accounted'
  <2> SUFFICES ASSUME NEW e \in Devices
               PROVE  evicted'[e] = Due(e)' + forgotten' + stuck'[e]
    BY DEF Accounted
  <2>8. \A q \in {"mm", "pm"} : Bound(q, e)' = Bound(q, e)
    BY BoundFrame DEF EvictionTypeOK, Parties
  <2>9. Bound("evict", e)' = Bound("evict", e)
    <3>1. e \in Nat /\ 1 <= e /\ at'["evict"] = at["evict"] /\ bad'["evict"] = bad["evict"]
      BY DEF EvictionTypeOK
    <3>2. pc'["evict"] = IF pc["evict"] = "flush" THEN "evict" ELSE pc["evict"]
      BY DEF EvictionTypeOK, Parties
    <3> QED BY <3>1, <3>2 DEF Bound, Holds, Roles
  <2>1. \A q \in Parties \ {"restore"} : Bound(q, e)' = Bound(q, e)
    BY <2>8, <2>9 DEF Parties
  <2>2. Due(e)' = Due(e) + (Bound("restore", e)' - Bound("restore", e)) + (Queued' - Queued)
                  + (pmheld' - pmheld)
    BY <1>1, <2>1, DueChange DEF EvictionTypeOK, Parties
  <2>3. Bound("restore", e)' = 0 /\ Bound("restore", e) = 0
    BY DEF EvictionTypeOK, Roles, Bound, Holds, Parties
  <2>4. Queued' = Queued /\ forgotten' = forgotten
    BY DEF Queued
  <2>5. evicted'[e] = evicted[e] /\ stuck'[e] = stuck[e]
    BY DEF EvictionTypeOK
  <2>6. pmheld' = pmheld
    OBVIOUS
  <2>7. Due(e) \in Nat
    BY DueType DEF EvictionTypeOK
  <2>13. Bound("restore", e) \in {0, 1} /\ Queued \in {0, 1}
    BY BoundType, QueuedType DEF Parties
  <2>14. /\ evicted[e] = Due(e) + forgotten + stuck[e]
         /\ evicted[e] \in Nat /\ forgotten \in Int /\ stuck[e] \in Nat /\ pmheld \in Nat
    BY DEF Accounted, EvictionTypeOK
  <2> HIDE DEF IInv, restore_worker_done, RestoreEnds
  <2> QED BY <2>2, <2>3, <2>4, <2>5, <2>6, <2>7, <2>13, <2>14
<1> QED BY <1>1, <1>2, <1>3, <1>4, <1>5

LEMMA Step_quiesce_mm ==
  ASSUME IInv, quiesce_mm PROVE IInv'
<1> USE FirstDevice DEF IInv, Reliable, quiesce_mm, Begin, evictVars, fenceVars,
  pmVars, ledger
<1>1. EvictionTypeOK'
  BY DEF EvictionTypeOK, Pcs, Parties
<1>2. Roles'
  BY DEF Roles, EvictionTypeOK, Parties
<1>3. Locks'
  BY DEF Locks
<1>4. Held'
  BY DEF Held, EvictionTypeOK, Parties
<1>5. Accounted'
  <2> SUFFICES ASSUME NEW e \in Devices
               PROVE  evicted'[e] = Due(e)' + forgotten' + stuck'[e]
    BY DEF Accounted
  <2>1. \A q \in Parties \ {"mm"} : Bound(q, e)' = Bound(q, e)
    BY BoundFrame DEF EvictionTypeOK
  <2>2. Due(e)' = Due(e) + (Bound("mm", e)' - Bound("mm", e)) + (Queued' - Queued)
                  + (pmheld' - pmheld)
    BY <1>1, <2>1, DueChange DEF EvictionTypeOK, Parties
  <2>3. Bound("mm", e)' = 0 /\ Bound("mm", e) = 0
    <3>1. e \in Nat /\ 1 <= e /\ at'["mm"] = 1 /\ pc'["mm"] = "evict"
      BY DEF EvictionTypeOK, Parties
    <3> QED BY <3>1 DEF Bound, Holds, Roles
  <2>4. Queued' = Queued /\ forgotten' = forgotten
    BY DEF Queued
  <2>5. evicted'[e] = evicted[e] /\ stuck'[e] = stuck[e]
    BY DEF EvictionTypeOK
  <2>6. pmheld' = pmheld
    OBVIOUS
  <2>7. Due(e) \in Nat
    BY DueType DEF EvictionTypeOK
  <2>13. Bound("mm", e) \in {0, 1} /\ Queued \in {0, 1}
    BY BoundType, QueuedType DEF Parties
  <2>14. /\ evicted[e] = Due(e) + forgotten + stuck[e]
         /\ evicted[e] \in Nat /\ forgotten \in Int /\ stuck[e] \in Nat /\ pmheld \in Nat
    BY DEF Accounted, EvictionTypeOK
  <2> HIDE DEF IInv, quiesce_mm, Begin
  <2> QED BY <2>2, <2>3, <2>4, <2>5, <2>6, <2>7, <2>13, <2>14
<1> QED BY <1>1, <1>2, <1>3, <1>4, <1>5

LEMMA Step_resume_mm ==
  ASSUME IInv, resume_mm PROVE IInv'
<1> USE FirstDevice DEF IInv, Reliable, resume_mm, Begin, evictVars, fenceVars,
  pmVars, ledger
<1>1. EvictionTypeOK'
  BY DEF EvictionTypeOK, Pcs, Parties
<1>2. Roles'
  BY DEF Roles, EvictionTypeOK, Parties
<1>3. Locks'
  BY DEF Locks
<1>4. Held'
  BY DEF Held, EvictionTypeOK, Parties
<1>5. Accounted'
  <2> SUFFICES ASSUME NEW e \in Devices
               PROVE  evicted'[e] = Due(e)' + forgotten' + stuck'[e]
    BY DEF Accounted
  <2>1. \A q \in Parties \ {"mm"} : Bound(q, e)' = Bound(q, e)
    BY BoundFrame DEF EvictionTypeOK
  <2>2. Due(e)' = Due(e) + (Bound("mm", e)' - Bound("mm", e)) + (Queued' - Queued)
                  + (pmheld' - pmheld)
    BY <1>1, <2>1, DueChange DEF EvictionTypeOK, Parties
  <2>3. Bound("mm", e)' = 1 /\ Bound("mm", e) = 1
    BY DEF EvictionTypeOK, Roles, Bound, Holds, Parties
  <2>4. Queued' = Queued /\ forgotten' = forgotten
    BY DEF Queued
  <2>5. evicted'[e] = evicted[e] /\ stuck'[e] = stuck[e]
    BY DEF EvictionTypeOK
  <2>6. pmheld' = pmheld
    OBVIOUS
  <2>7. Due(e) \in Nat
    BY DueType DEF EvictionTypeOK
  <2>13. Bound("mm", e) \in {0, 1} /\ Queued \in {0, 1}
    BY BoundType, QueuedType DEF Parties
  <2>14. /\ evicted[e] = Due(e) + forgotten + stuck[e]
         /\ evicted[e] \in Nat /\ forgotten \in Int /\ stuck[e] \in Nat /\ pmheld \in Nat
    BY DEF Accounted, EvictionTypeOK
  <2> HIDE DEF IInv, resume_mm, Begin
  <2> QED BY <2>2, <2>3, <2>4, <2>5, <2>6, <2>7, <2>13, <2>14
<1> QED BY <1>1, <1>2, <1>3, <1>4, <1>5

LEMMA Step_resume_mm_done ==
  ASSUME IInv, resume_mm_done PROVE IInv'
<1> USE FirstDevice DEF IInv, Reliable, resume_mm_done, Goto, evictVars, fenceVars,
  pmVars, ledger
<1>1. EvictionTypeOK'
  BY DEF EvictionTypeOK, Pcs, Parties
<1>2. Roles'
  BY DEF Roles, EvictionTypeOK, Parties
<1>3. Locks'
  BY DEF Locks
<1>4. Held'
  BY DEF Held, EvictionTypeOK, Parties
<1>5. Accounted'
  <2> SUFFICES ASSUME NEW e \in Devices
               PROVE  evicted'[e] = Due(e)' + forgotten' + stuck'[e]
    BY DEF Accounted
  <2>1. \A q \in Parties \ {"mm"} : Bound(q, e)' = Bound(q, e)
    BY BoundFrame DEF EvictionTypeOK
  <2>2. Due(e)' = Due(e) + (Bound("mm", e)' - Bound("mm", e)) + (Queued' - Queued)
                  + (pmheld' - pmheld)
    BY <1>1, <2>1, DueChange DEF EvictionTypeOK, Parties
  <2>3. Bound("mm", e)' = 0 /\ Bound("mm", e) = 0
    BY DEF EvictionTypeOK, Roles, Bound, Holds, Parties
  <2>4. Queued' = Queued /\ forgotten' = forgotten
    BY DEF Queued
  <2>5. evicted'[e] = evicted[e] /\ stuck'[e] = stuck[e]
    BY DEF EvictionTypeOK
  <2>6. pmheld' = pmheld
    OBVIOUS
  <2>7. Due(e) \in Nat
    BY DueType DEF EvictionTypeOK
  <2>13. Bound("mm", e) \in {0, 1} /\ Queued \in {0, 1}
    BY BoundType, QueuedType DEF Parties
  <2>14. /\ evicted[e] = Due(e) + forgotten + stuck[e]
         /\ evicted[e] \in Nat /\ forgotten \in Int /\ stuck[e] \in Nat /\ pmheld \in Nat
    BY DEF Accounted, EvictionTypeOK
  <2> HIDE DEF IInv, resume_mm_done, Goto
  <2> QED BY <2>2, <2>3, <2>4, <2>5, <2>6, <2>7, <2>13, <2>14
<1> QED BY <1>1, <1>2, <1>3, <1>4, <1>5

LEMMA Step_pm_suspend ==
  ASSUME NEW d \in Devices, NEW reset \in BOOLEAN, IInv, pm_suspend(d, reset) PROVE IInv'
<1> USE FirstDevice DEF IInv, Reliable, pm_suspend, Goto, evictVars, fenceVars,
  pmVars, ledger
<1>1. EvictionTypeOK'
  <2>1. evicted' \in [Devices -> Nat]
    BY DEF EvictionTypeOK
  <2>2. pc' \in [Parties -> Pcs]
    BY DEF EvictionTypeOK, Pcs, Parties
  <2>3. at' \in [Parties -> Devices] /\ bad' \in [Parties -> Devices]
    BY DevicesStep DEF EvictionTypeOK, Parties
  <2>4. pending' \subseteq {"evict", "restore"}
    BY DEF EvictionTypeOK
  <2>5. ef' \in 0 .. MaxFences /\ fence' \in 1 .. MaxFences /\ signaled' \subseteq 1 .. MaxFences
       /\ last_eviction_seqno' \in 0 .. MaxFences /\ late' \in BOOLEAN
    BY BoundsAssumption DEF EvictionTypeOK
  <2>6. caller' \in [pc : {"idle", "tested"}, fence : 0 .. MaxFences]
    BY BoundsAssumption DEF EvictionTypeOK
  <2>7. opu_locked' \in Nat /\ down' \subseteq Devices /\ resetting' \subseteq Devices
       /\ lost' \in Nat /\ begun' \in Nat
    BY DEF EvictionTypeOK
  <2>8. pmheld' \in Nat /\ forgotten' \in Int /\ stuck' \in [Devices -> Nat]
    BY DEF EvictionTypeOK
  <2> QED BY <2>1, <2>2, <2>3, <2>4, <2>5, <2>6, <2>7, <2>8 DEF EvictionTypeOK
<1>2. Roles'
  BY DEF Roles, EvictionTypeOK, Parties
<1>3. Locks'
  <2>1. (down \cup resetting)' = (down \cup resetting) \cup {d} /\ d \notin down \cup resetting
    OBVIOUS
  <2>2. Cardinality((down \cup resetting)') = Cardinality(down \cup resetting) + 1
    BY <2>1, OneMore DEF EvictionTypeOK
  <2>3. (down \cap resetting)' = {}
    BY DEF Locks
  <2>4. Cardinality(down \cup resetting) \in Nat /\ lost \in Nat
    BY DevicesFinite DEF EvictionTypeOK
  <2> QED BY <2>2, <2>3, <2>4 DEF Locks
<1>4. Held'
  BY DEF Held, EvictionTypeOK, Parties
<1>5. Accounted'
  BY DEF Accounted, EvictionTypeOK, Roles, Due, Bound, Holds, Queued, Parties
<1> QED BY <1>1, <1>2, <1>3, <1>4, <1>5

LEMMA Step_pm_resume ==
  ASSUME NEW d \in Devices, IInv, pm_resume(d) PROVE IInv'
<1> USE FirstDevice DEF IInv, Reliable, pm_resume, evictVars, fenceVars, pmVars,
  ledger
<1>1. EvictionTypeOK'
  <2>1. evicted' \in [Devices -> Nat]
    BY DEF EvictionTypeOK
  <2>2. pc' \in [Parties -> Pcs]
    BY DEF EvictionTypeOK, Pcs, Parties
  <2>3. at' \in [Parties -> Devices] /\ bad' \in [Parties -> Devices]
    BY DevicesStep DEF EvictionTypeOK, Parties
  <2>4. pending' \subseteq {"evict", "restore"}
    BY DEF EvictionTypeOK
  <2>5. ef' \in 0 .. MaxFences /\ fence' \in 1 .. MaxFences /\ signaled' \subseteq 1 .. MaxFences
       /\ last_eviction_seqno' \in 0 .. MaxFences /\ late' \in BOOLEAN
    BY BoundsAssumption DEF EvictionTypeOK
  <2>6. caller' \in [pc : {"idle", "tested"}, fence : 0 .. MaxFences]
    BY BoundsAssumption DEF EvictionTypeOK
  <2>7. opu_locked' \in Nat /\ down' \subseteq Devices /\ resetting' \subseteq Devices
       /\ lost' \in Nat /\ begun' \in Nat
    <3>1. d \in down \cup resetting /\ down \cup resetting \in SUBSET Devices
      BY DEF EvictionTypeOK
    <3>2. Cardinality(down \cup resetting) > 0 /\ Cardinality(down \cup resetting) \in Nat
      BY <3>1, OneMore, DevicesFinite
    <3>3. opu_locked > 0 /\ opu_locked \in Nat
      BY <3>2 DEF EvictionTypeOK, Locks
    <3> QED BY <3>3 DEF EvictionTypeOK
  <2>8. pmheld' \in Nat /\ forgotten' \in Int /\ stuck' \in [Devices -> Nat]
    BY DEF EvictionTypeOK
  <2> QED BY <2>1, <2>2, <2>3, <2>4, <2>5, <2>6, <2>7, <2>8 DEF EvictionTypeOK
<1>2. Roles'
  BY DEF Roles, EvictionTypeOK, Parties
<1>3. Locks'
  <2>1. (down \cup resetting)' = (down \cup resetting) \ {d} /\ d \in down \cup resetting
    BY DEF Locks
  <2>2. Cardinality((down \cup resetting)') = Cardinality(down \cup resetting) - 1
    BY <2>1, OneMore DEF EvictionTypeOK
  <2>3. (down \cap resetting)' = {}
    BY DEF Locks
  <2>4. Cardinality(down \cup resetting) \in Nat /\ lost \in Nat
    BY DevicesFinite DEF EvictionTypeOK
  <2> QED BY <2>2, <2>3, <2>4 DEF Locks
<1>4. Held'
  BY DEF Held, EvictionTypeOK, Parties
<1>5. Accounted'
  BY DEF Accounted, EvictionTypeOK, Roles, Due, Bound, Holds, Queued, Parties
<1> QED BY <1>1, <1>2, <1>3, <1>4, <1>5

LEMMA Step_pm_post_reset ==
  ASSUME NEW d \in Devices, IInv, pm_post_reset(d) PROVE IInv'
<1> USE FirstDevice DEF IInv, Reliable, pm_post_reset, evictVars, fenceVars, pmVars,
  ledger
<1>1. EvictionTypeOK'
  <2>1. evicted' \in [Devices -> Nat]
    BY DEF EvictionTypeOK
  <2>2. pc' \in [Parties -> Pcs]
    BY DEF EvictionTypeOK, Pcs, Parties
  <2>3. at' \in [Parties -> Devices] /\ bad' \in [Parties -> Devices]
    BY DevicesStep DEF EvictionTypeOK, Parties
  <2>4. pending' \subseteq {"evict", "restore"}
    BY DEF EvictionTypeOK
  <2>5. ef' \in 0 .. MaxFences /\ fence' \in 1 .. MaxFences /\ signaled' \subseteq 1 .. MaxFences
       /\ last_eviction_seqno' \in 0 .. MaxFences /\ late' \in BOOLEAN
    BY BoundsAssumption DEF EvictionTypeOK
  <2>6. caller' \in [pc : {"idle", "tested"}, fence : 0 .. MaxFences]
    BY BoundsAssumption DEF EvictionTypeOK
  <2>7. opu_locked' \in Nat /\ down' \subseteq Devices /\ resetting' \subseteq Devices
       /\ lost' \in Nat /\ begun' \in Nat
    <3>1. d \in down \cup resetting /\ down \cup resetting \in SUBSET Devices
      BY DEF EvictionTypeOK
    <3>2. Cardinality(down \cup resetting) > 0 /\ Cardinality(down \cup resetting) \in Nat
      BY <3>1, OneMore, DevicesFinite
    <3>3. opu_locked > 0 /\ opu_locked \in Nat
      BY <3>2 DEF EvictionTypeOK, Locks
    <3> QED BY <3>3 DEF EvictionTypeOK
  <2>8. pmheld' \in Nat /\ forgotten' \in Int /\ stuck' \in [Devices -> Nat]
    BY DEF EvictionTypeOK
  <2> QED BY <2>1, <2>2, <2>3, <2>4, <2>5, <2>6, <2>7, <2>8 DEF EvictionTypeOK
<1>2. Roles'
  BY DEF Roles, EvictionTypeOK, Parties
<1>3. Locks'
  <2>1. (down \cup resetting)' = (down \cup resetting) \ {d} /\ d \in down \cup resetting
    BY DEF Locks
  <2>2. Cardinality((down \cup resetting)') = Cardinality(down \cup resetting) - 1
    BY <2>1, OneMore DEF EvictionTypeOK
  <2>3. (down \cap resetting)' = {}
    BY DEF Locks
  <2>4. Cardinality(down \cup resetting) \in Nat /\ lost \in Nat
    BY DevicesFinite DEF EvictionTypeOK
  <2> QED BY <2>2, <2>3, <2>4 DEF Locks
<1>4. Held'
  BY DEF Held, EvictionTypeOK, Parties
<1>5. Accounted'
  BY DEF Accounted, EvictionTypeOK, Roles, Due, Bound, Holds, Queued, Parties
<1> QED BY <1>1, <1>2, <1>3, <1>4, <1>5

LEMMA Step_opu_resume_fails ==
  ASSUME NEW d \in Devices, IInv, opu_resume_fails(d) PROVE IInv'
<1> USE FirstDevice DEF IInv, Reliable, opu_resume_fails, evictVars, fenceVars,
  pmVars, ledger
<1>1. EvictionTypeOK'
  BY DEF EvictionTypeOK, Pcs, Parties
<1>2. Roles'
  BY DEF Roles, EvictionTypeOK, Parties
<1>3. Locks'
  <2>1. (down \cup resetting)' = (down \cup resetting) \ {d} /\ d \in down \cup resetting
    OBVIOUS
  <2>2. Cardinality((down \cup resetting)') = Cardinality(down \cup resetting) - 1
    BY <2>1, OneMore DEF EvictionTypeOK
  <2>3. (down \cap resetting)' = {}
    BY DEF Locks
  <2>4. Cardinality(down \cup resetting) \in Nat /\ lost \in Nat
    BY DevicesFinite DEF EvictionTypeOK
  <2> QED BY <2>2, <2>3, <2>4 DEF Locks
<1>4. Held'
  BY DEF Held, EvictionTypeOK, Parties
<1>5. Accounted'
  BY DEF Accounted, EvictionTypeOK, Roles, Due, Bound, Holds, Queued, Parties
<1> QED BY <1>1, <1>2, <1>3, <1>4, <1>5

LEMMA Step_pm_cancel_evict ==
  ASSUME IInv, pm_cancel_evict PROVE IInv'
<1> USE FirstDevice DEF IInv, Reliable, pm_cancel_evict, Goto, evictVars, fenceVars,
  pmVars, ledger
<1>1. EvictionTypeOK'
  BY DEF EvictionTypeOK, Pcs, Parties
<1>2. Roles'
  BY DEF Roles, EvictionTypeOK, Parties
<1>3. Locks'
  BY DEF Locks
<1>4. Held'
  BY DEF Held, EvictionTypeOK, Parties
<1>5. Accounted'
  <2> SUFFICES ASSUME NEW e \in Devices
               PROVE  evicted'[e] = Due(e)' + forgotten' + stuck'[e]
    BY DEF Accounted
  <2>1. \A q \in Parties \ {"pm"} : Bound(q, e)' = Bound(q, e)
    BY BoundFrame DEF EvictionTypeOK
  <2>2. Due(e)' = Due(e) + (Bound("pm", e)' - Bound("pm", e)) + (Queued' - Queued)
                  + (pmheld' - pmheld)
    BY <1>1, <2>1, DueChange DEF EvictionTypeOK, Parties
  <2>3. Bound("pm", e)' = 0 /\ Bound("pm", e) = 0
    BY DEF EvictionTypeOK, Roles, Bound, Holds, Parties
  <2>4. Queued' = Queued /\ forgotten' = forgotten
    BY DEF Queued
  <2>5. evicted'[e] = evicted[e] /\ stuck'[e] = stuck[e]
    BY DEF EvictionTypeOK
  <2>6. pmheld' = pmheld
    OBVIOUS
  <2>7. Due(e) \in Nat
    BY DueType DEF EvictionTypeOK
  <2>13. Bound("pm", e) \in {0, 1} /\ Queued \in {0, 1}
    BY BoundType, QueuedType DEF Parties
  <2>14. /\ evicted[e] = Due(e) + forgotten + stuck[e]
         /\ evicted[e] \in Nat /\ forgotten \in Int /\ stuck[e] \in Nat /\ pmheld \in Nat
    BY DEF Accounted, EvictionTypeOK
  <2> HIDE DEF IInv, pm_cancel_evict, Goto
  <2> QED BY <2>2, <2>3, <2>4, <2>5, <2>6, <2>7, <2>13, <2>14
<1> QED BY <1>1, <1>2, <1>3, <1>4, <1>5

LEMMA Step_pm_cancel_restore ==
  ASSUME IInv, pm_cancel_restore PROVE IInv'
<1> USE FirstDevice DEF IInv, Reliable, pm_cancel_restore, Begin, evictVars,
  fenceVars, pmVars, ledger
<1>1. EvictionTypeOK'
  <2>1. evicted' \in [Devices -> Nat]
    BY DEF EvictionTypeOK
  <2>2. pc' \in [Parties -> Pcs]
    BY DEF EvictionTypeOK, Pcs, Parties
  <2>3. at' \in [Parties -> Devices] /\ bad' \in [Parties -> Devices]
    BY DevicesStep DEF EvictionTypeOK, Parties
  <2>4. pending' \subseteq {"evict", "restore"}
    BY DEF EvictionTypeOK
  <2>5. ef' \in 0 .. MaxFences /\ fence' \in 1 .. MaxFences /\ signaled' \subseteq 1 .. MaxFences
       /\ last_eviction_seqno' \in 0 .. MaxFences /\ late' \in BOOLEAN
    BY BoundsAssumption DEF EvictionTypeOK
  <2>6. caller' \in [pc : {"idle", "tested"}, fence : 0 .. MaxFences]
    BY BoundsAssumption DEF EvictionTypeOK
  <2>7. opu_locked' \in Nat /\ down' \subseteq Devices /\ resetting' \subseteq Devices
       /\ lost' \in Nat /\ begun' \in Nat
    BY DEF EvictionTypeOK
  <2>8. pmheld' \in Nat /\ forgotten' \in Int /\ stuck' \in [Devices -> Nat]
    BY DEF EvictionTypeOK
  <2> QED BY <2>1, <2>2, <2>3, <2>4, <2>5, <2>6, <2>7, <2>8 DEF EvictionTypeOK
<1>2. Roles'
  BY DEF Roles, EvictionTypeOK, Parties
<1>3. Locks'
  BY DEF Locks
<1>4. Held'
  <2>1. pc'["pm"] = "evict" /\ pmheld' = 0 /\ opu_locked' > 0
    BY DEF Held, EvictionTypeOK, Parties
  <2>2. forgotten' \in Nat
    BY DEF Held
  <2> QED BY <2>1, <2>2 DEF Held
<1>5. Accounted'
  <2> SUFFICES ASSUME NEW e \in Devices
               PROVE  evicted'[e] = Due(e)' + forgotten' + stuck'[e]
    BY DEF Accounted
  <2>1. \A q \in Parties \ {"pm"} : Bound(q, e)' = Bound(q, e)
    BY BoundFrame DEF EvictionTypeOK
  <2>2. Due(e)' = Due(e) + (Bound("pm", e)' - Bound("pm", e)) + (Queued' - Queued)
                  + (pmheld' - pmheld)
    BY <1>1, <2>1, DueChange DEF EvictionTypeOK, Parties
  <2>3. Bound("pm", e)' = 0 /\ Bound("pm", e) = 0
    <3>1. e \in Nat /\ 1 <= e /\ at'["pm"] = 1 /\ pc'["pm"] = "evict"
      BY DEF EvictionTypeOK, Parties
    <3> QED BY <3>1 DEF Bound, Holds, Roles
  <2>4. Queued' = 0 /\ forgotten' = forgotten + Queued
    BY DEF Queued
  <2>5. evicted'[e] = evicted[e] /\ stuck'[e] = stuck[e]
    BY DEF EvictionTypeOK
  <2>6. pmheld' = pmheld
    OBVIOUS
  <2>7. Due(e) \in Nat
    BY DueType DEF EvictionTypeOK
  <2>13. Bound("pm", e) \in {0, 1} /\ Queued \in {0, 1}
    BY BoundType, QueuedType DEF Parties
  <2>14. /\ evicted[e] = Due(e) + forgotten + stuck[e]
         /\ evicted[e] \in Nat /\ forgotten \in Int /\ stuck[e] \in Nat /\ pmheld \in Nat
    BY DEF Accounted, EvictionTypeOK
  <2> HIDE DEF IInv, pm_cancel_restore, Begin
  <2> QED BY <2>2, <2>3, <2>4, <2>5, <2>6, <2>7, <2>13, <2>14
<1> QED BY <1>1, <1>2, <1>3, <1>4, <1>5

LEMMA Step_pm_suspended ==
  ASSUME IInv, pm_suspended PROVE IInv'
<1> USE FirstDevice DEF IInv, Reliable, pm_suspended, Goto, evictVars, fenceVars,
  pmVars, ledger
<1>1. EvictionTypeOK'
  <2>1. evicted' \in [Devices -> Nat]
    BY DEF EvictionTypeOK
  <2>2. pc' \in [Parties -> Pcs]
    BY DEF EvictionTypeOK, Pcs, Parties
  <2>3. at' \in [Parties -> Devices] /\ bad' \in [Parties -> Devices]
    BY DevicesStep DEF EvictionTypeOK, Parties
  <2>4. pending' \subseteq {"evict", "restore"}
    BY DEF EvictionTypeOK
  <2>5. ef' \in 0 .. MaxFences /\ fence' \in 1 .. MaxFences /\ signaled' \subseteq 1 .. MaxFences
       /\ last_eviction_seqno' \in 0 .. MaxFences /\ late' \in BOOLEAN
    BY BoundsAssumption DEF EvictionTypeOK
  <2>6. caller' \in [pc : {"idle", "tested"}, fence : 0 .. MaxFences]
    BY BoundsAssumption DEF EvictionTypeOK
  <2>7. opu_locked' \in Nat /\ down' \subseteq Devices /\ resetting' \subseteq Devices
       /\ lost' \in Nat /\ begun' \in Nat
    BY DEF EvictionTypeOK
  <2>8. pmheld' \in Nat /\ forgotten' \in Int /\ stuck' \in [Devices -> Nat]
    BY DEF EvictionTypeOK
  <2> QED BY <2>1, <2>2, <2>3, <2>4, <2>5, <2>6, <2>7, <2>8 DEF EvictionTypeOK
<1>2. Roles'
  BY DEF Roles, EvictionTypeOK, Parties
<1>3. Locks'
  BY DEF Locks
<1>4. Held'
  <2>1. pc'["pm"] = "idle" /\ pmheld' = 1 /\ opu_locked' > 0
    BY DEF Held, Roles, EvictionTypeOK, Parties
  <2> QED BY <2>1 DEF Held
<1>5. Accounted'
  <2> SUFFICES ASSUME NEW e \in Devices
               PROVE  evicted'[e] = Due(e)' + forgotten' + stuck'[e]
    BY DEF Accounted
  <2>1. \A q \in Parties \ {"pm"} : Bound(q, e)' = Bound(q, e)
    BY BoundFrame DEF EvictionTypeOK
  <2>2. Due(e)' = Due(e) + (Bound("pm", e)' - Bound("pm", e)) + (Queued' - Queued)
                  + (pmheld' - pmheld)
    BY <1>1, <2>1, DueChange DEF EvictionTypeOK, Parties
  <2>3. Bound("pm", e)' = 0 /\ Bound("pm", e) = 1
    BY DEF EvictionTypeOK, Roles, Bound, Holds, Parties
  <2>4. Queued' = Queued /\ forgotten' = forgotten
    BY DEF Queued
  <2>5. evicted'[e] = evicted[e] /\ stuck'[e] = stuck[e]
    BY DEF EvictionTypeOK
  <2>6. pmheld' = pmheld + 1
    BY DEF Roles
  <2>7. Due(e) \in Nat
    BY DueType DEF EvictionTypeOK
  <2>13. Bound("pm", e) \in {0, 1} /\ Queued \in {0, 1}
    BY BoundType, QueuedType DEF Parties
  <2>14. /\ evicted[e] = Due(e) + forgotten + stuck[e]
         /\ evicted[e] \in Nat /\ forgotten \in Int /\ stuck[e] \in Nat /\ pmheld \in Nat
    BY DEF Accounted, EvictionTypeOK
  <2> HIDE DEF IInv, pm_suspended, Goto
  <2> QED BY <2>2, <2>3, <2>4, <2>5, <2>6, <2>7, <2>13, <2>14
<1> QED BY <1>1, <1>2, <1>3, <1>4, <1>5

-----------------------------------------------------------------------------
LEMMA NextIInv == IInv /\ [Next]_vars => IInv'
<1> SUFFICES ASSUME IInv, [Next]_vars PROVE IInv'
  OBVIOUS
<1>1. CASE Loops
  BY <1>1, Step_evict_device, Step_evict_device_fails, Step_undo_device,
     Step_restore_device DEF Loops
<1>2. CASE Callers
  BY <1>2, Step_schedule_evict_test, Step_schedule_evict, Step_schedule_evict_late
  DEF Callers
<1>3. CASE Workers
  BY <1>3, Step_evict_worker_begin, Step_evict_worker_done, Step_evict_worker_failed,
     Step_restore_worker_begin, Step_restore_worker_bos, Step_restore_worker_retry,
     Step_restore_worker_done DEF Workers
<1>4. CASE Mm
  BY <1>4, Step_quiesce_mm, Step_resume_mm, Step_resume_mm_done DEF Mm
<1>5. CASE Pm
  BY <1>5, Step_pm_suspend, Step_pm_resume, Step_pm_post_reset, Step_opu_resume_fails,
     Step_pm_cancel_evict, Step_pm_cancel_restore, Step_pm_suspended DEF Pm
<1>6. CASE UNCHANGED vars
  <2> USE <1>6 DEF vars, evictVars, fenceVars, pmVars, ledger, IInv
  <2>1. EvictionTypeOK'
    BY DEF EvictionTypeOK
  <2>2. Roles' /\ Locks' /\ Held'
    BY DEF Roles, Locks, Held
  <2>3. Accounted'
    BY DEF Accounted, Due, Bound, Holds, Queued
  <2> QED BY <2>1, <2>2, <2>3 DEF Reliable
<1> QED BY <1>1, <1>2, <1>3, <1>4, <1>5, <1>6 DEF Next

\* The invariant holds in every state of every behaviour.
THEOREM Invariance == ASSUME Reliable PROVE Spec => []IInv
<1>1. Init => IInv
  BY InitIInv
<1> QED BY <1>1, NextIInv, PTL DEF Spec

\* On every device the evictions counted are those that somebody is bound to undo and
\* those forgotten at the places the ledger names, however the four parties interleave
\* in their loops over the devices (opu_process_evict_queues, opu_process_restore_queues).
THEOREM EvictionsAreAccounted == ASSUME Reliable PROVE Spec => []EvictionsAccounted
<1>1. IInv => EvictionsAccounted
  BY DEF IInv, Accounted, EvictionsAccounted
<1> QED BY <1>1, Invariance, PTL

\* No party restores a device that is not evicted: the warning in
\* restore_process_queues_cpsch is never given.
THEOREM RestoresMatch == ASSUME Reliable PROVE Spec => []RestoreMatchesEviction
<1>1. ASSUME IInv PROVE RestoreMatchesEviction
  <2> SUFFICES ASSUME NEW p \in Parties, pc[p] \in {"undo", "restore"}
               PROVE  evicted[at[p]] > 0
    BY DEF RestoreMatchesEviction
  <2>1. at[p] \in Devices
    BY <1>1 DEF IInv, EvictionTypeOK
  <2>2. Bound(p, at[p]) = 1
    <3>1. at[p] \in Nat /\ bad[p] \in Nat
      BY <1>1, <2>1, FirstDevice DEF IInv, EvictionTypeOK
    <3> QED BY <1>1, <3>1 DEF IInv, Roles, Parties, Bound, Holds
  <2>3. Due(at[p]) >= 1 /\ Due(at[p]) \in Nat
    BY <1>1, <2>2 DEF IInv, Due, Bound, Queued, Parties, EvictionTypeOK
  <2> QED BY <1>1, <2>1, <2>3 DEF IInv, Accounted, EvictionTypeOK, Held
<1> QED BY <1>1, Invariance, PTL
-----------------------------------------------------------------------------
(* Which fence an eviction is for, when none is asked for during a suspension. *)

\* The eviction worker is due or under way only for the fence of the process ...
WorkerHasFence ==
  /\ "evict" \in pending => ef # 0 /\ last_eviction_seqno = ef
  /\ pc["evict"] # "idle" => /\ ef # 0 /\ last_eviction_seqno = ef
                             /\ "evict" \notin pending /\ pc["evict"] # "oops"

\* ... which is the only one that has not signaled ...
OneFence == \A f \in 1 .. fence : f \notin signaled => f = ef

\* ... and there is none before memory is restored ...
RestoreMakesFence ==
  /\ "restore" \in pending => ef = 0
  /\ pc["restore"] = "bos" => ef = 0 /\ "restore" \notin pending

\* ... or while the suspension has cancelled the works.
SuspendedHasNoWork ==
  /\ pc["pm"] \notin {"idle", "cancel"} => "evict" \notin pending /\ pc["evict"] = "idle"
  /\ pc["pm"] \in {"evict", "evicted"} => "restore" \notin pending /\ pc["restore"] = "idle"
  /\ pc["pm"] = "idle" /\ opu_locked > 0 =>
       ef = 0 /\ "restore" \notin pending /\ pc["restore"] = "idle"

FenceInv ==
  ~late => /\ caller.pc = "idle"
           /\ WorkerHasFence /\ OneFence /\ RestoreMakesFence /\ SuspendedHasNoWork

LEMMA InitFence == Reliable /\ Init => FenceInv
<1> SUFFICES ASSUME Reliable, Init PROVE FenceInv
  OBVIOUS
<1>1. caller.pc = "idle" /\ pending = {} /\ ef = 1 /\ fence = 1 /\ opu_locked = 0
      /\ \A p \in Parties : pc[p] = "idle"
  BY DEF Init, Reliable, NoCaller
<1> QED BY <1>1 DEF FenceInv, WorkerHasFence, OneFence, RestoreMakesFence, SuspendedHasNoWork, Parties

LEMMA Fence_evict_device ==
  ASSUME IInv, IInv', FenceInv, NEW p \in Parties, evict_device(p)
  PROVE  FenceInv'
<1>1. late' = late
  BY DEF evict_device, fenceVars
<1> SUFFICES ASSUME ~late PROVE FenceInv'
  BY <1>1 DEF FenceInv
<1>2. caller.pc = "idle" /\ WorkerHasFence /\ OneFence /\ RestoreMakesFence /\ SuspendedHasNoWork
  BY DEF FenceInv
<1>3. EvictionTypeOK /\ Roles /\ opu_locked \in Nat /\ opu_locked' \in Nat
  BY DEF IInv, EvictionTypeOK
<1>4. \A r \in Parties : pc'[r] = pc[r] \/ (r = p /\ pc[r] = "evict" /\ pc'[r] = "evicted")
  BY <1>3 DEF evict_device, NextDevice, Begin, Goto, RestoreEnds, ScheduleEviction, fenceVars, pmVars, evictVars, Parties, EvictionTypeOK, restore_process_queues
<1>5. pending' = pending /\ fence' = fence /\ signaled' = signaled /\ ef' = ef /\ last_eviction_seqno' = last_eviction_seqno /\ caller' = caller /\ opu_locked' = opu_locked
  BY DEF evict_device, NextDevice, Begin, Goto, RestoreEnds, ScheduleEviction, fenceVars, pmVars, evictVars, Parties, EvictionTypeOK, restore_process_queues
<1>10. WorkerHasFence'
  BY <1>2, <1>3, <1>4, <1>5 DEF WorkerHasFence, OneFence, RestoreMakesFence, SuspendedHasNoWork, Parties, Roles
<1>11. OneFence'
  BY <1>2, <1>3, <1>4, <1>5 DEF OneFence, RestoreMakesFence, Parties, Roles, EvictionTypeOK
<1>12. RestoreMakesFence'
  BY <1>2, <1>3, <1>4, <1>5 DEF RestoreMakesFence, SuspendedHasNoWork, WorkerHasFence, Parties, Roles
<1>13. SuspendedHasNoWork'
  BY <1>2, <1>3, <1>4, <1>5 DEF SuspendedHasNoWork, WorkerHasFence, RestoreMakesFence, Parties, Roles
<1> QED BY <1>2, <1>5, <1>10, <1>11, <1>12, <1>13 DEF FenceInv

LEMMA Fence_evict_device_fails ==
  ASSUME IInv, IInv', FenceInv, NEW p \in Parties, evict_device_fails(p)
  PROVE  FenceInv'
<1>1. late' = late
  BY DEF evict_device_fails, fenceVars
<1> SUFFICES ASSUME ~late PROVE FenceInv'
  BY <1>1 DEF FenceInv
<1>2. caller.pc = "idle" /\ WorkerHasFence /\ OneFence /\ RestoreMakesFence /\ SuspendedHasNoWork
  BY DEF FenceInv
<1>3. EvictionTypeOK /\ Roles /\ opu_locked \in Nat /\ opu_locked' \in Nat
  BY DEF IInv, EvictionTypeOK
<1>4. p = "evict" /\ pc["evict"] = "evict" /\ pc'["evict"] \in {"failed", "undo"} /\ \A r \in Parties : r # p => pc'[r] = pc[r]
  BY <1>3 DEF evict_device_fails, NextDevice, Begin, Goto, RestoreEnds, ScheduleEviction, fenceVars, pmVars, evictVars, Parties, EvictionTypeOK, restore_process_queues, IInv, Reliable
<1>5. pending' = pending /\ fence' = fence /\ signaled' = signaled /\ ef' = ef /\ last_eviction_seqno' = last_eviction_seqno /\ caller' = caller /\ opu_locked' = opu_locked
  BY DEF evict_device_fails, NextDevice, Begin, Goto, RestoreEnds, ScheduleEviction, fenceVars, pmVars, evictVars, Parties, EvictionTypeOK, restore_process_queues
<1>10. WorkerHasFence'
  BY <1>2, <1>3, <1>4, <1>5 DEF WorkerHasFence, OneFence, RestoreMakesFence, SuspendedHasNoWork, Parties, Roles
<1>11. OneFence'
  BY <1>2, <1>3, <1>4, <1>5 DEF OneFence, RestoreMakesFence, Parties, Roles, EvictionTypeOK
<1>12. RestoreMakesFence'
  BY <1>2, <1>3, <1>4, <1>5 DEF RestoreMakesFence, SuspendedHasNoWork, WorkerHasFence, Parties, Roles
<1>13. SuspendedHasNoWork'
  BY <1>2, <1>3, <1>4, <1>5 DEF SuspendedHasNoWork, WorkerHasFence, RestoreMakesFence, Parties, Roles
<1> QED BY <1>2, <1>5, <1>10, <1>11, <1>12, <1>13 DEF FenceInv

LEMMA Fence_undo_device ==
  ASSUME IInv, IInv', FenceInv, NEW p \in Parties, undo_device(p)
  PROVE  FenceInv'
<1>1. late' = late
  BY DEF undo_device, fenceVars
<1> SUFFICES ASSUME ~late PROVE FenceInv'
  BY <1>1 DEF FenceInv
<1>2. caller.pc = "idle" /\ WorkerHasFence /\ OneFence /\ RestoreMakesFence /\ SuspendedHasNoWork
  BY DEF FenceInv
<1>3. EvictionTypeOK /\ Roles /\ opu_locked \in Nat /\ opu_locked' \in Nat
  BY DEF IInv, EvictionTypeOK
<1>4. \A r \in Parties : pc'[r] = pc[r] \/ (r = p /\ pc[r] = "undo" /\ pc'[r] = "failed")
  BY <1>3 DEF undo_device, NextDevice, Begin, Goto, RestoreEnds, ScheduleEviction, fenceVars, pmVars, evictVars, Parties, EvictionTypeOK, restore_process_queues
<1>5. pending' = pending /\ fence' = fence /\ signaled' = signaled /\ ef' = ef /\ last_eviction_seqno' = last_eviction_seqno /\ caller' = caller /\ opu_locked' = opu_locked
  BY DEF undo_device, NextDevice, Begin, Goto, RestoreEnds, ScheduleEviction, fenceVars, pmVars, evictVars, Parties, EvictionTypeOK, restore_process_queues
<1>10. WorkerHasFence'
  BY <1>2, <1>3, <1>4, <1>5 DEF WorkerHasFence, OneFence, RestoreMakesFence, SuspendedHasNoWork, Parties, Roles
<1>11. OneFence'
  BY <1>2, <1>3, <1>4, <1>5 DEF OneFence, RestoreMakesFence, Parties, Roles, EvictionTypeOK
<1>12. RestoreMakesFence'
  BY <1>2, <1>3, <1>4, <1>5 DEF RestoreMakesFence, SuspendedHasNoWork, WorkerHasFence, Parties, Roles
<1>13. SuspendedHasNoWork'
  BY <1>2, <1>3, <1>4, <1>5 DEF SuspendedHasNoWork, WorkerHasFence, RestoreMakesFence, Parties, Roles
<1> QED BY <1>2, <1>5, <1>10, <1>11, <1>12, <1>13 DEF FenceInv

LEMMA Fence_restore_device ==
  ASSUME IInv, IInv', FenceInv, NEW p \in Parties, restore_device(p)
  PROVE  FenceInv'
<1>1. late' = late
  BY DEF restore_device, fenceVars
<1> SUFFICES ASSUME ~late PROVE FenceInv'
  BY <1>1 DEF FenceInv
<1>2. caller.pc = "idle" /\ WorkerHasFence /\ OneFence /\ RestoreMakesFence /\ SuspendedHasNoWork
  BY DEF FenceInv
<1>3. EvictionTypeOK /\ Roles /\ opu_locked \in Nat /\ opu_locked' \in Nat
  BY DEF IInv, EvictionTypeOK
<1>4. \A r \in Parties : pc'[r] = pc[r] \/ (r = p /\ pc[r] = "restore" /\ pc'[r] = "restored")
  BY <1>3 DEF restore_device, NextDevice, Begin, Goto, RestoreEnds, ScheduleEviction, fenceVars, pmVars, evictVars, Parties, EvictionTypeOK, restore_process_queues
<1>5. pending' = pending /\ fence' = fence /\ signaled' = signaled /\ ef' = ef /\ last_eviction_seqno' = last_eviction_seqno /\ caller' = caller /\ opu_locked' = opu_locked
  BY DEF restore_device, NextDevice, Begin, Goto, RestoreEnds, ScheduleEviction, fenceVars, pmVars, evictVars, Parties, EvictionTypeOK, restore_process_queues
<1>10. WorkerHasFence'
  BY <1>2, <1>3, <1>4, <1>5 DEF WorkerHasFence, OneFence, RestoreMakesFence, SuspendedHasNoWork, Parties, Roles
<1>11. OneFence'
  BY <1>2, <1>3, <1>4, <1>5 DEF OneFence, RestoreMakesFence, Parties, Roles, EvictionTypeOK
<1>12. RestoreMakesFence'
  BY <1>2, <1>3, <1>4, <1>5 DEF RestoreMakesFence, SuspendedHasNoWork, WorkerHasFence, Parties, Roles
<1>13. SuspendedHasNoWork'
  BY <1>2, <1>3, <1>4, <1>5 DEF SuspendedHasNoWork, WorkerHasFence, RestoreMakesFence, Parties, Roles
<1> QED BY <1>2, <1>5, <1>10, <1>11, <1>12, <1>13 DEF FenceInv

LEMMA Fence_schedule_evict_test ==
  ASSUME IInv, IInv', FenceInv, NEW f \in 1 .. MaxFences, schedule_evict_test(f)
  PROVE  FenceInv'
<1>1. late' = late
  BY DEF schedule_evict_test, fenceVars
<1> QED BY <1>1 DEF schedule_evict_test, FenceInv

LEMMA Fence_schedule_evict ==
  ASSUME IInv, IInv', FenceInv, NEW f \in 1 .. MaxFences, schedule_evict(f)
  PROVE  FenceInv'
<1>1. late' = late
  BY DEF schedule_evict, fenceVars
<1> SUFFICES ASSUME ~late PROVE FenceInv'
  BY <1>1 DEF FenceInv
<1>2. caller.pc = "idle" /\ WorkerHasFence /\ OneFence /\ RestoreMakesFence /\ SuspendedHasNoWork
  BY DEF FenceInv
<1>3. EvictionTypeOK /\ Roles /\ opu_locked \in Nat /\ opu_locked' \in Nat
  BY DEF IInv, EvictionTypeOK
<1>4. pc' = pc
  BY <1>3 DEF schedule_evict, NextDevice, Begin, Goto, RestoreEnds, ScheduleEviction, fenceVars, pmVars, evictVars, Parties, EvictionTypeOK, restore_process_queues
<1>5. fence' = fence /\ signaled' = signaled /\ ef' = ef /\ caller' = caller /\ opu_locked' = opu_locked
  BY DEF schedule_evict, NextDevice, Begin, Goto, RestoreEnds, ScheduleEviction, fenceVars, pmVars, evictVars, Parties, EvictionTypeOK, restore_process_queues
<1>6. pending' = pending \cup {"evict"} /\ last_eviction_seqno' = f /\ f \in 1 .. fence /\ f \notin signaled /\ f # last_eviction_seqno /\ pc["pm"] \in {"idle", "cancel"}
  BY <1>3 DEF schedule_evict, NextDevice, Begin, Goto, RestoreEnds, ScheduleEviction, fenceVars, pmVars, evictVars, Parties, EvictionTypeOK, restore_process_queues, Roles
<1>10. WorkerHasFence'
  BY <1>2, <1>3, <1>4, <1>5, <1>6 DEF WorkerHasFence, OneFence, RestoreMakesFence, SuspendedHasNoWork, Parties, Roles
<1>11. OneFence'
  BY <1>2, <1>3, <1>4, <1>5, <1>6 DEF OneFence, RestoreMakesFence, Parties, Roles, EvictionTypeOK
<1>12. RestoreMakesFence'
  BY <1>2, <1>3, <1>4, <1>5, <1>6 DEF RestoreMakesFence, SuspendedHasNoWork, WorkerHasFence, Parties, Roles
<1>13. SuspendedHasNoWork'
  BY <1>2, <1>3, <1>4, <1>5, <1>6 DEF SuspendedHasNoWork, WorkerHasFence, RestoreMakesFence, Parties, Roles
<1> QED BY <1>2, <1>5, <1>10, <1>11, <1>12, <1>13 DEF FenceInv

LEMMA Fence_schedule_evict_late ==
  ASSUME IInv, IInv', FenceInv, schedule_evict_late
  PROVE  FenceInv'
<1>1. late' = late
  BY DEF schedule_evict_late, fenceVars
<1> QED BY <1>1 DEF schedule_evict_late, FenceInv

LEMMA Fence_evict_worker_begin ==
  ASSUME IInv, IInv', FenceInv, evict_worker_begin
  PROVE  FenceInv'
<1>1. late' = late
  BY DEF evict_worker_begin, fenceVars
<1> SUFFICES ASSUME ~late PROVE FenceInv'
  BY <1>1 DEF FenceInv
<1>2. caller.pc = "idle" /\ WorkerHasFence /\ OneFence /\ RestoreMakesFence /\ SuspendedHasNoWork
  BY DEF FenceInv
<1>3. EvictionTypeOK /\ Roles /\ opu_locked \in Nat /\ opu_locked' \in Nat
  BY DEF IInv, EvictionTypeOK
<1>4. \A r \in Parties : pc'[r] = IF r = "evict" THEN IF ef = 0 THEN "oops" ELSE IF "restore" \in pending \/ pc["restore"] # "idle" THEN "flush" ELSE "evict" ELSE pc[r]
  BY <1>3 DEF evict_worker_begin, NextDevice, Begin, Goto, RestoreEnds, ScheduleEviction, fenceVars, pmVars, evictVars, Parties, EvictionTypeOK, restore_process_queues
<1>5. fence' = fence /\ signaled' = signaled /\ ef' = ef /\ last_eviction_seqno' = last_eviction_seqno /\ caller' = caller /\ opu_locked' = opu_locked
  BY DEF evict_worker_begin, NextDevice, Begin, Goto, RestoreEnds, ScheduleEviction, fenceVars, pmVars, evictVars, Parties, EvictionTypeOK, restore_process_queues
<1>6. pending' = pending \ {"evict"} /\ "evict" \in pending /\ pc["evict"] = "idle" /\ pc["pm"] # "cancel"
  BY <1>3 DEF evict_worker_begin, NextDevice, Begin, Goto, RestoreEnds, ScheduleEviction, fenceVars, pmVars, evictVars, Parties, EvictionTypeOK, restore_process_queues, Roles
<1>10. WorkerHasFence'
  BY <1>2, <1>3, <1>4, <1>5, <1>6 DEF WorkerHasFence, OneFence, RestoreMakesFence, SuspendedHasNoWork, Parties, Roles
<1>11. OneFence'
  BY <1>2, <1>3, <1>4, <1>5, <1>6 DEF OneFence, RestoreMakesFence, Parties, Roles, EvictionTypeOK
<1>12. RestoreMakesFence'
  BY <1>2, <1>3, <1>4, <1>5, <1>6 DEF RestoreMakesFence, SuspendedHasNoWork, WorkerHasFence, Parties, Roles
<1>13. SuspendedHasNoWork'
  BY <1>2, <1>3, <1>4, <1>5, <1>6 DEF SuspendedHasNoWork, WorkerHasFence, RestoreMakesFence, Parties, Roles
<1> QED BY <1>2, <1>5, <1>10, <1>11, <1>12, <1>13 DEF FenceInv

LEMMA Fence_evict_worker_done ==
  ASSUME IInv, IInv', FenceInv, evict_worker_done
  PROVE  FenceInv'
<1>1. late' = late
  BY DEF evict_worker_done, fenceVars
<1> SUFFICES ASSUME ~late PROVE FenceInv'
  BY <1>1 DEF FenceInv
<1>2. caller.pc = "idle" /\ WorkerHasFence /\ OneFence /\ RestoreMakesFence /\ SuspendedHasNoWork
  BY DEF FenceInv
<1>3. EvictionTypeOK /\ Roles /\ opu_locked \in Nat /\ opu_locked' \in Nat
  BY DEF IInv, EvictionTypeOK
<1>4. \A r \in Parties : pc'[r] = IF r = "evict" THEN "idle" ELSE pc[r]
  BY <1>3 DEF evict_worker_done, NextDevice, Begin, Goto, RestoreEnds, ScheduleEviction, fenceVars, pmVars, evictVars, Parties, EvictionTypeOK, restore_process_queues
<1>5. fence' = fence /\ last_eviction_seqno' = last_eviction_seqno /\ caller' = caller /\ opu_locked' = opu_locked
  BY DEF evict_worker_done, NextDevice, Begin, Goto, RestoreEnds, ScheduleEviction, fenceVars, pmVars, evictVars, Parties, EvictionTypeOK, restore_process_queues
<1>6. signaled' = signaled \cup ({ef} \ {0}) /\ ef' = 0 /\ pending' = pending \cup {"restore"} /\ pc["evict"] = "evicted"
  BY <1>3 DEF evict_worker_done, NextDevice, Begin, Goto, RestoreEnds, ScheduleEviction, fenceVars, pmVars, evictVars, Parties, EvictionTypeOK, restore_process_queues, Roles
<1>10. WorkerHasFence'
  BY <1>2, <1>3, <1>4, <1>5, <1>6 DEF WorkerHasFence, OneFence, RestoreMakesFence, SuspendedHasNoWork, Parties, Roles
<1>11. OneFence'
  BY <1>2, <1>3, <1>4, <1>5, <1>6 DEF OneFence, RestoreMakesFence, Parties, Roles, EvictionTypeOK
<1>12. RestoreMakesFence'
  BY <1>2, <1>3, <1>4, <1>5, <1>6 DEF RestoreMakesFence, SuspendedHasNoWork, WorkerHasFence, Parties, Roles
<1>13. SuspendedHasNoWork'
  BY <1>2, <1>3, <1>4, <1>5, <1>6 DEF SuspendedHasNoWork, WorkerHasFence, RestoreMakesFence, Parties, Roles
<1> QED BY <1>2, <1>5, <1>10, <1>11, <1>12, <1>13 DEF FenceInv

LEMMA Fence_evict_worker_failed ==
  ASSUME IInv, IInv', FenceInv, evict_worker_failed
  PROVE  FenceInv'
<1>1. late' = late
  BY DEF evict_worker_failed, fenceVars
<1> SUFFICES ASSUME ~late PROVE FenceInv'
  BY <1>1 DEF FenceInv
<1>2. caller.pc = "idle" /\ WorkerHasFence /\ OneFence /\ RestoreMakesFence /\ SuspendedHasNoWork
  BY DEF FenceInv
<1>3. EvictionTypeOK /\ Roles /\ opu_locked \in Nat /\ opu_locked' \in Nat
  BY DEF IInv, EvictionTypeOK
<1>4. \A r \in Parties : pc'[r] = IF r = "evict" THEN "idle" ELSE pc[r]
  BY <1>3 DEF evict_worker_failed, NextDevice, Begin, Goto, RestoreEnds, ScheduleEviction, fenceVars, pmVars, evictVars, Parties, EvictionTypeOK, restore_process_queues
<1>5. pending' = pending /\ fence' = fence /\ signaled' = signaled /\ ef' = ef /\ last_eviction_seqno' = last_eviction_seqno /\ caller' = caller /\ opu_locked' = opu_locked
  BY DEF evict_worker_failed, NextDevice, Begin, Goto, RestoreEnds, ScheduleEviction, fenceVars, pmVars, evictVars, Parties, EvictionTypeOK, restore_process_queues
<1>6. pc["evict"] = "failed"
  BY <1>3 DEF evict_worker_failed, NextDevice, Begin, Goto, RestoreEnds, ScheduleEviction, fenceVars, pmVars, evictVars, Parties, EvictionTypeOK, restore_process_queues, Roles
<1>10. WorkerHasFence'
  BY <1>2, <1>3, <1>4, <1>5, <1>6 DEF WorkerHasFence, OneFence, RestoreMakesFence, SuspendedHasNoWork, Parties, Roles
<1>11. OneFence'
  BY <1>2, <1>3, <1>4, <1>5, <1>6 DEF OneFence, RestoreMakesFence, Parties, Roles, EvictionTypeOK
<1>12. RestoreMakesFence'
  BY <1>2, <1>3, <1>4, <1>5, <1>6 DEF RestoreMakesFence, SuspendedHasNoWork, WorkerHasFence, Parties, Roles
<1>13. SuspendedHasNoWork'
  BY <1>2, <1>3, <1>4, <1>5, <1>6 DEF SuspendedHasNoWork, WorkerHasFence, RestoreMakesFence, Parties, Roles
<1> QED BY <1>2, <1>5, <1>10, <1>11, <1>12, <1>13 DEF FenceInv

LEMMA Fence_restore_worker_begin ==
  ASSUME IInv, IInv', FenceInv, restore_worker_begin
  PROVE  FenceInv'
<1>1. late' = late
  BY DEF restore_worker_begin, fenceVars
<1> SUFFICES ASSUME ~late PROVE FenceInv'
  BY <1>1 DEF FenceInv
<1>2. caller.pc = "idle" /\ WorkerHasFence /\ OneFence /\ RestoreMakesFence /\ SuspendedHasNoWork
  BY DEF FenceInv
<1>3. EvictionTypeOK /\ Roles /\ opu_locked \in Nat /\ opu_locked' \in Nat
  BY DEF IInv, EvictionTypeOK
<1>4. \A r \in Parties : pc'[r] = IF r = "restore" THEN "bos" ELSE pc[r]
  BY <1>3 DEF restore_worker_begin, NextDevice, Begin, Goto, RestoreEnds, ScheduleEviction, fenceVars, pmVars, evictVars, Parties, EvictionTypeOK, restore_process_queues
<1>5. fence' = fence /\ signaled' = signaled /\ ef' = ef /\ last_eviction_seqno' = last_eviction_seqno /\ caller' = caller /\ opu_locked' = opu_locked
  BY DEF restore_worker_begin, NextDevice, Begin, Goto, RestoreEnds, ScheduleEviction, fenceVars, pmVars, evictVars, Parties, EvictionTypeOK, restore_process_queues
<1>6. pending' = pending \ {"restore"} /\ "restore" \in pending /\ pc["restore"] = "idle" /\ pc["pm"] # "cancel_restore"
  BY <1>3 DEF restore_worker_begin, NextDevice, Begin, Goto, RestoreEnds, ScheduleEviction, fenceVars, pmVars, evictVars, Parties, EvictionTypeOK, restore_process_queues, Roles
<1>10. WorkerHasFence'
  BY <1>2, <1>3, <1>4, <1>5, <1>6 DEF WorkerHasFence, OneFence, RestoreMakesFence, SuspendedHasNoWork, Parties, Roles
<1>11. OneFence'
  BY <1>2, <1>3, <1>4, <1>5, <1>6 DEF OneFence, RestoreMakesFence, Parties, Roles, EvictionTypeOK
<1>12. RestoreMakesFence'
  BY <1>2, <1>3, <1>4, <1>5, <1>6 DEF RestoreMakesFence, SuspendedHasNoWork, WorkerHasFence, Parties, Roles
<1>13. SuspendedHasNoWork'
  BY <1>2, <1>3, <1>4, <1>5, <1>6 DEF SuspendedHasNoWork, WorkerHasFence, RestoreMakesFence, Parties, Roles
<1> QED BY <1>2, <1>5, <1>10, <1>11, <1>12, <1>13 DEF FenceInv

LEMMA Fence_restore_worker_bos ==
  ASSUME IInv, IInv', FenceInv, restore_worker_bos
  PROVE  FenceInv'
<1>1. late' = late
  BY DEF restore_worker_bos, fenceVars
<1> SUFFICES ASSUME ~late PROVE FenceInv'
  BY <1>1 DEF FenceInv
<1>2. caller.pc = "idle" /\ WorkerHasFence /\ OneFence /\ RestoreMakesFence /\ SuspendedHasNoWork
  BY DEF FenceInv
<1>3. EvictionTypeOK /\ Roles /\ opu_locked \in Nat /\ opu_locked' \in Nat
  BY DEF IInv, EvictionTypeOK
<1>4. \A r \in Parties : pc'[r] = IF r = "restore" THEN "restore" ELSE pc[r]
  BY <1>3 DEF restore_worker_bos, NextDevice, Begin, Goto, RestoreEnds, ScheduleEviction, fenceVars, pmVars, evictVars, Parties, EvictionTypeOK, restore_process_queues
<1>5. pending' = pending /\ signaled' = signaled /\ last_eviction_seqno' = last_eviction_seqno /\ caller' = caller /\ opu_locked' = opu_locked
  BY DEF restore_worker_bos, NextDevice, Begin, Goto, RestoreEnds, ScheduleEviction, fenceVars, pmVars, evictVars, Parties, EvictionTypeOK, restore_process_queues
<1>6. fence' = fence + 1 /\ ef' = fence + 1 /\ pc["restore"] = "bos"
  BY <1>3 DEF restore_worker_bos, NextDevice, Begin, Goto, RestoreEnds, ScheduleEviction, fenceVars, pmVars, evictVars, Parties, EvictionTypeOK, restore_process_queues, Roles
<1>10. WorkerHasFence'
  BY <1>2, <1>3, <1>4, <1>5, <1>6 DEF WorkerHasFence, OneFence, RestoreMakesFence, SuspendedHasNoWork, Parties, Roles
<1>11. OneFence'
  BY <1>2, <1>3, <1>4, <1>5, <1>6 DEF OneFence, RestoreMakesFence, Parties, Roles, EvictionTypeOK
<1>12. RestoreMakesFence'
  BY <1>2, <1>3, <1>4, <1>5, <1>6 DEF RestoreMakesFence, SuspendedHasNoWork, WorkerHasFence, Parties, Roles
<1>13. SuspendedHasNoWork'
  BY <1>2, <1>3, <1>4, <1>5, <1>6 DEF SuspendedHasNoWork, WorkerHasFence, RestoreMakesFence, Parties, Roles
<1> QED BY <1>2, <1>5, <1>10, <1>11, <1>12, <1>13 DEF FenceInv

LEMMA Fence_restore_worker_retry ==
  ASSUME IInv, IInv', FenceInv, restore_worker_retry
  PROVE  FenceInv'
<1>1. late' = late
  BY DEF restore_worker_retry, fenceVars
<1> SUFFICES ASSUME ~late PROVE FenceInv'
  BY <1>1 DEF FenceInv
<1>2. caller.pc = "idle" /\ WorkerHasFence /\ OneFence /\ RestoreMakesFence /\ SuspendedHasNoWork
  BY DEF FenceInv
<1>3. EvictionTypeOK /\ Roles /\ opu_locked \in Nat /\ opu_locked' \in Nat
  BY DEF IInv, EvictionTypeOK
<1>4. pc'["restore"] = "idle" /\ pc'["pm"] = pc["pm"] /\ pc'["evict"] = IF pc["evict"] = "flush" THEN "evict" ELSE pc["evict"]
  BY <1>3 DEF restore_worker_retry, NextDevice, Begin, Goto, RestoreEnds, ScheduleEviction, fenceVars, pmVars, evictVars, Parties, EvictionTypeOK, restore_process_queues
<1>5. fence' = fence /\ signaled' = signaled /\ ef' = ef /\ last_eviction_seqno' = last_eviction_seqno /\ caller' = caller /\ opu_locked' = opu_locked
  BY DEF restore_worker_retry, NextDevice, Begin, Goto, RestoreEnds, ScheduleEviction, fenceVars, pmVars, evictVars, Parties, EvictionTypeOK, restore_process_queues
<1>6. pending' = pending \cup {"restore"} /\ pc["restore"] = "bos"
  BY <1>3 DEF restore_worker_retry, NextDevice, Begin, Goto, RestoreEnds, ScheduleEviction, fenceVars, pmVars, evictVars, Parties, EvictionTypeOK, restore_process_queues, Roles
<1>10. WorkerHasFence'
  BY <1>2, <1>3, <1>4, <1>5, <1>6 DEF WorkerHasFence, OneFence, RestoreMakesFence, SuspendedHasNoWork, Parties, Roles
<1>11. OneFence'
  BY <1>2, <1>3, <1>4, <1>5, <1>6 DEF OneFence, RestoreMakesFence, Parties, Roles, EvictionTypeOK
<1>12. RestoreMakesFence'
  BY <1>2, <1>3, <1>4, <1>5, <1>6 DEF RestoreMakesFence, SuspendedHasNoWork, WorkerHasFence, Parties, Roles
<1>13. SuspendedHasNoWork'
  BY <1>2, <1>3, <1>4, <1>5, <1>6 DEF SuspendedHasNoWork, WorkerHasFence, RestoreMakesFence, Parties, Roles
<1> QED BY <1>2, <1>5, <1>10, <1>11, <1>12, <1>13 DEF FenceInv

LEMMA Fence_restore_worker_done ==
  ASSUME IInv, IInv', FenceInv, restore_worker_done
  PROVE  FenceInv'
<1>1. late' = late
  BY DEF restore_worker_done, fenceVars
<1> SUFFICES ASSUME ~late PROVE FenceInv'
  BY <1>1 DEF FenceInv
<1>2. caller.pc = "idle" /\ WorkerHasFence /\ OneFence /\ RestoreMakesFence /\ SuspendedHasNoWork
  BY DEF FenceInv
<1>3. EvictionTypeOK /\ Roles /\ opu_locked \in Nat /\ opu_locked' \in Nat
  BY DEF IInv, EvictionTypeOK
<1>4. pc'["restore"] = "idle" /\ pc'["pm"] = pc["pm"] /\ pc'["evict"] = IF pc["evict"] = "flush" THEN "evict" ELSE pc["evict"]
  BY <1>3 DEF restore_worker_done, NextDevice, Begin, Goto, RestoreEnds, ScheduleEviction, fenceVars, pmVars, evictVars, Parties, EvictionTypeOK, restore_process_queues
<1>5. pending' = pending /\ fence' = fence /\ signaled' = signaled /\ ef' = ef /\ last_eviction_seqno' = last_eviction_seqno /\ caller' = caller /\ opu_locked' = opu_locked
  BY DEF restore_worker_done, NextDevice, Begin, Goto, RestoreEnds, ScheduleEviction, fenceVars, pmVars, evictVars, Parties, EvictionTypeOK, restore_process_queues
<1>6. pc["restore"] = "restored"
  BY <1>3 DEF restore_worker_done, NextDevice, Begin, Goto, RestoreEnds, ScheduleEviction, fenceVars, pmVars, evictVars, Parties, EvictionTypeOK, restore_process_queues, Roles
<1>10. WorkerHasFence'
  BY <1>2, <1>3, <1>4, <1>5, <1>6 DEF WorkerHasFence, OneFence, RestoreMakesFence, SuspendedHasNoWork, Parties, Roles
<1>11. OneFence'
  BY <1>2, <1>3, <1>4, <1>5, <1>6 DEF OneFence, RestoreMakesFence, Parties, Roles, EvictionTypeOK
<1>12. RestoreMakesFence'
  BY <1>2, <1>3, <1>4, <1>5, <1>6 DEF RestoreMakesFence, SuspendedHasNoWork, WorkerHasFence, Parties, Roles
<1>13. SuspendedHasNoWork'
  BY <1>2, <1>3, <1>4, <1>5, <1>6 DEF SuspendedHasNoWork, WorkerHasFence, RestoreMakesFence, Parties, Roles
<1> QED BY <1>2, <1>5, <1>10, <1>11, <1>12, <1>13 DEF FenceInv

LEMMA Fence_quiesce_mm ==
  ASSUME IInv, IInv', FenceInv, quiesce_mm
  PROVE  FenceInv'
<1>1. late' = late
  BY DEF quiesce_mm, fenceVars
<1> SUFFICES ASSUME ~late PROVE FenceInv'
  BY <1>1 DEF FenceInv
<1>2. caller.pc = "idle" /\ WorkerHasFence /\ OneFence /\ RestoreMakesFence /\ SuspendedHasNoWork
  BY DEF FenceInv
<1>3. EvictionTypeOK /\ Roles /\ opu_locked \in Nat /\ opu_locked' \in Nat
  BY DEF IInv, EvictionTypeOK
<1>4. \A r \in Parties : pc'[r] = IF r = "mm" THEN "evict" ELSE pc[r]
  BY <1>3 DEF quiesce_mm, NextDevice, Begin, Goto, RestoreEnds, ScheduleEviction, fenceVars, pmVars, evictVars, Parties, EvictionTypeOK, restore_process_queues
<1>5. pending' = pending /\ fence' = fence /\ signaled' = signaled /\ ef' = ef /\ last_eviction_seqno' = last_eviction_seqno /\ caller' = caller /\ opu_locked' = opu_locked
  BY DEF quiesce_mm, NextDevice, Begin, Goto, RestoreEnds, ScheduleEviction, fenceVars, pmVars, evictVars, Parties, EvictionTypeOK, restore_process_queues
<1>10. WorkerHasFence'
  BY <1>2, <1>3, <1>4, <1>5 DEF WorkerHasFence, OneFence, RestoreMakesFence, SuspendedHasNoWork, Parties, Roles
<1>11. OneFence'
  BY <1>2, <1>3, <1>4, <1>5 DEF OneFence, RestoreMakesFence, Parties, Roles, EvictionTypeOK
<1>12. RestoreMakesFence'
  BY <1>2, <1>3, <1>4, <1>5 DEF RestoreMakesFence, SuspendedHasNoWork, WorkerHasFence, Parties, Roles
<1>13. SuspendedHasNoWork'
  BY <1>2, <1>3, <1>4, <1>5 DEF SuspendedHasNoWork, WorkerHasFence, RestoreMakesFence, Parties, Roles
<1> QED BY <1>2, <1>5, <1>10, <1>11, <1>12, <1>13 DEF FenceInv

LEMMA Fence_resume_mm ==
  ASSUME IInv, IInv', FenceInv, resume_mm
  PROVE  FenceInv'
<1>1. late' = late
  BY DEF resume_mm, fenceVars
<1> SUFFICES ASSUME ~late PROVE FenceInv'
  BY <1>1 DEF FenceInv
<1>2. caller.pc = "idle" /\ WorkerHasFence /\ OneFence /\ RestoreMakesFence /\ SuspendedHasNoWork
  BY DEF FenceInv
<1>3. EvictionTypeOK /\ Roles /\ opu_locked \in Nat /\ opu_locked' \in Nat
  BY DEF IInv, EvictionTypeOK
<1>4. \A r \in Parties : pc'[r] = IF r = "mm" THEN "restore" ELSE pc[r]
  BY <1>3 DEF resume_mm, NextDevice, Begin, Goto, RestoreEnds, ScheduleEviction, fenceVars, pmVars, evictVars, Parties, EvictionTypeOK, restore_process_queues
<1>5. pending' = pending /\ fence' = fence /\ signaled' = signaled /\ ef' = ef /\ last_eviction_seqno' = last_eviction_seqno /\ caller' = caller /\ opu_locked' = opu_locked
  BY DEF resume_mm, NextDevice, Begin, Goto, RestoreEnds, ScheduleEviction, fenceVars, pmVars, evictVars, Parties, EvictionTypeOK, restore_process_queues
<1>10. WorkerHasFence'
  BY <1>2, <1>3, <1>4, <1>5 DEF WorkerHasFence, OneFence, RestoreMakesFence, SuspendedHasNoWork, Parties, Roles
<1>11. OneFence'
  BY <1>2, <1>3, <1>4, <1>5 DEF OneFence, RestoreMakesFence, Parties, Roles, EvictionTypeOK
<1>12. RestoreMakesFence'
  BY <1>2, <1>3, <1>4, <1>5 DEF RestoreMakesFence, SuspendedHasNoWork, WorkerHasFence, Parties, Roles
<1>13. SuspendedHasNoWork'
  BY <1>2, <1>3, <1>4, <1>5 DEF SuspendedHasNoWork, WorkerHasFence, RestoreMakesFence, Parties, Roles
<1> QED BY <1>2, <1>5, <1>10, <1>11, <1>12, <1>13 DEF FenceInv

LEMMA Fence_resume_mm_done ==
  ASSUME IInv, IInv', FenceInv, resume_mm_done
  PROVE  FenceInv'
<1>1. late' = late
  BY DEF resume_mm_done, fenceVars
<1> SUFFICES ASSUME ~late PROVE FenceInv'
  BY <1>1 DEF FenceInv
<1>2. caller.pc = "idle" /\ WorkerHasFence /\ OneFence /\ RestoreMakesFence /\ SuspendedHasNoWork
  BY DEF FenceInv
<1>3. EvictionTypeOK /\ Roles /\ opu_locked \in Nat /\ opu_locked' \in Nat
  BY DEF IInv, EvictionTypeOK
<1>4. \A r \in Parties : pc'[r] = IF r = "mm" THEN "idle" ELSE pc[r]
  BY <1>3 DEF resume_mm_done, NextDevice, Begin, Goto, RestoreEnds, ScheduleEviction, fenceVars, pmVars, evictVars, Parties, EvictionTypeOK, restore_process_queues
<1>5. pending' = pending /\ fence' = fence /\ signaled' = signaled /\ ef' = ef /\ last_eviction_seqno' = last_eviction_seqno /\ caller' = caller /\ opu_locked' = opu_locked
  BY DEF resume_mm_done, NextDevice, Begin, Goto, RestoreEnds, ScheduleEviction, fenceVars, pmVars, evictVars, Parties, EvictionTypeOK, restore_process_queues
<1>10. WorkerHasFence'
  BY <1>2, <1>3, <1>4, <1>5 DEF WorkerHasFence, OneFence, RestoreMakesFence, SuspendedHasNoWork, Parties, Roles
<1>11. OneFence'
  BY <1>2, <1>3, <1>4, <1>5 DEF OneFence, RestoreMakesFence, Parties, Roles, EvictionTypeOK
<1>12. RestoreMakesFence'
  BY <1>2, <1>3, <1>4, <1>5 DEF RestoreMakesFence, SuspendedHasNoWork, WorkerHasFence, Parties, Roles
<1>13. SuspendedHasNoWork'
  BY <1>2, <1>3, <1>4, <1>5 DEF SuspendedHasNoWork, WorkerHasFence, RestoreMakesFence, Parties, Roles
<1> QED BY <1>2, <1>5, <1>10, <1>11, <1>12, <1>13 DEF FenceInv

LEMMA Fence_pm_suspend ==
  ASSUME IInv, IInv', FenceInv, NEW d \in Devices, NEW reset \in BOOLEAN, pm_suspend(d, reset)
  PROVE  FenceInv'
<1>1. late' = late
  BY DEF pm_suspend, fenceVars
<1> SUFFICES ASSUME ~late PROVE FenceInv'
  BY <1>1 DEF FenceInv
<1>2. caller.pc = "idle" /\ WorkerHasFence /\ OneFence /\ RestoreMakesFence /\ SuspendedHasNoWork
  BY DEF FenceInv
<1>3. EvictionTypeOK /\ Roles /\ opu_locked \in Nat /\ opu_locked' \in Nat
  BY DEF IInv, EvictionTypeOK
<1>4. \A r \in Parties : pc'[r] = IF r = "pm" THEN IF opu_locked = 0 THEN "cancel" ELSE "idle" ELSE pc[r]
  BY <1>3 DEF pm_suspend, NextDevice, Begin, Goto, RestoreEnds, ScheduleEviction, fenceVars, pmVars, evictVars, Parties, EvictionTypeOK, restore_process_queues
<1>5. pending' = pending /\ fence' = fence /\ signaled' = signaled /\ ef' = ef /\ last_eviction_seqno' = last_eviction_seqno /\ caller' = caller
  BY DEF pm_suspend, NextDevice, Begin, Goto, RestoreEnds, ScheduleEviction, fenceVars, pmVars, evictVars, Parties, EvictionTypeOK, restore_process_queues
<1>6. opu_locked' = opu_locked + 1 /\ pc["pm"] = "idle"
  BY <1>3 DEF pm_suspend, NextDevice, Begin, Goto, RestoreEnds, ScheduleEviction, fenceVars, pmVars, evictVars, Parties, EvictionTypeOK, restore_process_queues, Roles
<1>10. WorkerHasFence'
  BY <1>2, <1>3, <1>4, <1>5, <1>6 DEF WorkerHasFence, OneFence, RestoreMakesFence, SuspendedHasNoWork, Parties, Roles
<1>11. OneFence'
  BY <1>2, <1>3, <1>4, <1>5, <1>6 DEF OneFence, RestoreMakesFence, Parties, Roles, EvictionTypeOK
<1>12. RestoreMakesFence'
  BY <1>2, <1>3, <1>4, <1>5, <1>6 DEF RestoreMakesFence, SuspendedHasNoWork, WorkerHasFence, Parties, Roles
<1>13. SuspendedHasNoWork'
  BY <1>2, <1>3, <1>4, <1>5, <1>6 DEF SuspendedHasNoWork, WorkerHasFence, RestoreMakesFence, Parties, Roles
<1> QED BY <1>2, <1>5, <1>10, <1>11, <1>12, <1>13 DEF FenceInv

LEMMA Fence_pm_resume ==
  ASSUME IInv, IInv', FenceInv, NEW d \in Devices, pm_resume(d)
  PROVE  FenceInv'
<1>1. late' = late
  BY DEF pm_resume, fenceVars
<1> SUFFICES ASSUME ~late PROVE FenceInv'
  BY <1>1 DEF FenceInv
<1>2. caller.pc = "idle" /\ WorkerHasFence /\ OneFence /\ RestoreMakesFence /\ SuspendedHasNoWork
  BY DEF FenceInv
<1>3. EvictionTypeOK /\ Roles /\ opu_locked \in Nat /\ opu_locked' \in Nat
  BY DEF IInv, EvictionTypeOK
<1>4. pc' = pc
  BY <1>3 DEF pm_resume, NextDevice, Begin, Goto, RestoreEnds, ScheduleEviction, fenceVars, pmVars, evictVars, Parties, EvictionTypeOK, restore_process_queues
<1>5. fence' = fence /\ signaled' = signaled /\ ef' = ef /\ last_eviction_seqno' = last_eviction_seqno /\ caller' = caller
  BY DEF pm_resume, NextDevice, Begin, Goto, RestoreEnds, ScheduleEviction, fenceVars, pmVars, evictVars, Parties, EvictionTypeOK, restore_process_queues
<1>6. pc["pm"] = "idle" /\ opu_locked' = opu_locked - 1 /\ pending' = IF opu_locked = 1 THEN pending \cup {"restore"} ELSE pending
  BY <1>3 DEF pm_resume, NextDevice, Begin, Goto, RestoreEnds, ScheduleEviction, fenceVars, pmVars, evictVars, Parties, EvictionTypeOK, restore_process_queues, Roles
<1>7. opu_locked > 0
  BY <1>3, <1>6
<1>10. WorkerHasFence'
  BY <1>2, <1>3, <1>4, <1>5, <1>6, <1>7 DEF WorkerHasFence, OneFence, RestoreMakesFence, SuspendedHasNoWork, Parties, Roles
<1>11. OneFence'
  BY <1>2, <1>3, <1>4, <1>5, <1>6, <1>7 DEF OneFence, RestoreMakesFence, Parties, Roles, EvictionTypeOK
<1>12. RestoreMakesFence'
  BY <1>2, <1>3, <1>4, <1>5, <1>6, <1>7 DEF RestoreMakesFence, SuspendedHasNoWork, WorkerHasFence, Parties, Roles
<1>13. SuspendedHasNoWork'
  BY <1>2, <1>3, <1>4, <1>5, <1>6, <1>7 DEF SuspendedHasNoWork, WorkerHasFence, RestoreMakesFence, Parties, Roles
<1> QED BY <1>2, <1>5, <1>10, <1>11, <1>12, <1>13 DEF FenceInv

LEMMA Fence_pm_post_reset ==
  ASSUME IInv, IInv', FenceInv, NEW d \in Devices, pm_post_reset(d)
  PROVE  FenceInv'
<1>1. late' = late
  BY DEF pm_post_reset, fenceVars
<1> SUFFICES ASSUME ~late PROVE FenceInv'
  BY <1>1 DEF FenceInv
<1>2. caller.pc = "idle" /\ WorkerHasFence /\ OneFence /\ RestoreMakesFence /\ SuspendedHasNoWork
  BY DEF FenceInv
<1>3. EvictionTypeOK /\ Roles /\ opu_locked \in Nat /\ opu_locked' \in Nat
  BY DEF IInv, EvictionTypeOK
<1>4. pc' = pc
  BY <1>3 DEF pm_post_reset, NextDevice, Begin, Goto, RestoreEnds, ScheduleEviction, fenceVars, pmVars, evictVars, Parties, EvictionTypeOK, restore_process_queues
<1>5. pending' = pending /\ fence' = fence /\ signaled' = signaled /\ ef' = ef /\ last_eviction_seqno' = last_eviction_seqno /\ caller' = caller
  BY DEF pm_post_reset, NextDevice, Begin, Goto, RestoreEnds, ScheduleEviction, fenceVars, pmVars, evictVars, Parties, EvictionTypeOK, restore_process_queues
<1>6. pc["pm"] = "idle" /\ opu_locked' = opu_locked - 1
  BY <1>3 DEF pm_post_reset, NextDevice, Begin, Goto, RestoreEnds, ScheduleEviction, fenceVars, pmVars, evictVars, Parties, EvictionTypeOK, restore_process_queues, Roles
<1>7. opu_locked > 0
  BY <1>3, <1>6
<1>10. WorkerHasFence'
  BY <1>2, <1>3, <1>4, <1>5, <1>6, <1>7 DEF WorkerHasFence, OneFence, RestoreMakesFence, SuspendedHasNoWork, Parties, Roles
<1>11. OneFence'
  BY <1>2, <1>3, <1>4, <1>5, <1>6, <1>7 DEF OneFence, RestoreMakesFence, Parties, Roles, EvictionTypeOK
<1>12. RestoreMakesFence'
  BY <1>2, <1>3, <1>4, <1>5, <1>6, <1>7 DEF RestoreMakesFence, SuspendedHasNoWork, WorkerHasFence, Parties, Roles
<1>13. SuspendedHasNoWork'
  BY <1>2, <1>3, <1>4, <1>5, <1>6, <1>7 DEF SuspendedHasNoWork, WorkerHasFence, RestoreMakesFence, Parties, Roles
<1> QED BY <1>2, <1>5, <1>10, <1>11, <1>12, <1>13 DEF FenceInv

LEMMA Fence_opu_resume_fails ==
  ASSUME IInv, IInv', FenceInv, NEW d \in Devices, opu_resume_fails(d)
  PROVE  FenceInv'
<1>1. late' = late
  BY DEF opu_resume_fails, fenceVars
<1> SUFFICES ASSUME ~late PROVE FenceInv'
  BY <1>1 DEF FenceInv
<1>2. caller.pc = "idle" /\ WorkerHasFence /\ OneFence /\ RestoreMakesFence /\ SuspendedHasNoWork
  BY DEF FenceInv
<1>3. EvictionTypeOK /\ Roles /\ opu_locked \in Nat /\ opu_locked' \in Nat
  BY DEF IInv, EvictionTypeOK
<1>4. pc' = pc
  BY <1>3 DEF opu_resume_fails, NextDevice, Begin, Goto, RestoreEnds, ScheduleEviction, fenceVars, pmVars, evictVars, Parties, EvictionTypeOK, restore_process_queues
<1>5. pending' = pending /\ fence' = fence /\ signaled' = signaled /\ ef' = ef /\ last_eviction_seqno' = last_eviction_seqno /\ caller' = caller /\ opu_locked' = opu_locked
  BY DEF opu_resume_fails, NextDevice, Begin, Goto, RestoreEnds, ScheduleEviction, fenceVars, pmVars, evictVars, Parties, EvictionTypeOK, restore_process_queues
<1>10. WorkerHasFence'
  BY <1>2, <1>3, <1>4, <1>5 DEF WorkerHasFence, OneFence, RestoreMakesFence, SuspendedHasNoWork, Parties, Roles
<1>11. OneFence'
  BY <1>2, <1>3, <1>4, <1>5 DEF OneFence, RestoreMakesFence, Parties, Roles, EvictionTypeOK
<1>12. RestoreMakesFence'
  BY <1>2, <1>3, <1>4, <1>5 DEF RestoreMakesFence, SuspendedHasNoWork, WorkerHasFence, Parties, Roles
<1>13. SuspendedHasNoWork'
  BY <1>2, <1>3, <1>4, <1>5 DEF SuspendedHasNoWork, WorkerHasFence, RestoreMakesFence, Parties, Roles
<1> QED BY <1>2, <1>5, <1>10, <1>11, <1>12, <1>13 DEF FenceInv

LEMMA Fence_pm_cancel_evict ==
  ASSUME IInv, IInv', FenceInv, pm_cancel_evict
  PROVE  FenceInv'
<1>1. late' = late
  BY DEF pm_cancel_evict, fenceVars
<1> SUFFICES ASSUME ~late PROVE FenceInv'
  BY <1>1 DEF FenceInv
<1>2. caller.pc = "idle" /\ WorkerHasFence /\ OneFence /\ RestoreMakesFence /\ SuspendedHasNoWork
  BY DEF FenceInv
<1>3. EvictionTypeOK /\ Roles /\ opu_locked \in Nat /\ opu_locked' \in Nat
  BY DEF IInv, EvictionTypeOK
<1>4. \A r \in Parties : pc'[r] = IF r = "pm" THEN "cancel_restore" ELSE pc[r]
  BY <1>3 DEF pm_cancel_evict, NextDevice, Begin, Goto, RestoreEnds, ScheduleEviction, fenceVars, pmVars, evictVars, Parties, EvictionTypeOK, restore_process_queues
<1>5. fence' = fence /\ signaled' = signaled /\ ef' = ef /\ last_eviction_seqno' = last_eviction_seqno /\ caller' = caller /\ opu_locked' = opu_locked
  BY DEF pm_cancel_evict, NextDevice, Begin, Goto, RestoreEnds, ScheduleEviction, fenceVars, pmVars, evictVars, Parties, EvictionTypeOK, restore_process_queues
<1>6. pc["pm"] = "cancel" /\ pc["evict"] = "idle" /\ pending' = pending \ {"evict"}
  BY <1>3 DEF pm_cancel_evict, NextDevice, Begin, Goto, RestoreEnds, ScheduleEviction, fenceVars, pmVars, evictVars, Parties, EvictionTypeOK, restore_process_queues, Roles
<1>10. WorkerHasFence'
  BY <1>2, <1>3, <1>4, <1>5, <1>6 DEF WorkerHasFence, OneFence, RestoreMakesFence, SuspendedHasNoWork, Parties, Roles
<1>11. OneFence'
  BY <1>2, <1>3, <1>4, <1>5, <1>6 DEF OneFence, RestoreMakesFence, Parties, Roles, EvictionTypeOK
<1>12. RestoreMakesFence'
  BY <1>2, <1>3, <1>4, <1>5, <1>6 DEF RestoreMakesFence, SuspendedHasNoWork, WorkerHasFence, Parties, Roles
<1>13. SuspendedHasNoWork'
  BY <1>2, <1>3, <1>4, <1>5, <1>6 DEF SuspendedHasNoWork, WorkerHasFence, RestoreMakesFence, Parties, Roles
<1> QED BY <1>2, <1>5, <1>10, <1>11, <1>12, <1>13 DEF FenceInv

LEMMA Fence_pm_cancel_restore ==
  ASSUME IInv, IInv', FenceInv, pm_cancel_restore
  PROVE  FenceInv'
<1>1. late' = late
  BY DEF pm_cancel_restore, fenceVars
<1> SUFFICES ASSUME ~late PROVE FenceInv'
  BY <1>1 DEF FenceInv
<1>2. caller.pc = "idle" /\ WorkerHasFence /\ OneFence /\ RestoreMakesFence /\ SuspendedHasNoWork
  BY DEF FenceInv
<1>3. EvictionTypeOK /\ Roles /\ opu_locked \in Nat /\ opu_locked' \in Nat
  BY DEF IInv, EvictionTypeOK
<1>4. \A r \in Parties : pc'[r] = IF r = "pm" THEN "evict" ELSE pc[r]
  BY <1>3 DEF pm_cancel_restore, NextDevice, Begin, Goto, RestoreEnds, ScheduleEviction, fenceVars, pmVars, evictVars, Parties, EvictionTypeOK, restore_process_queues
<1>5. fence' = fence /\ signaled' = signaled /\ ef' = ef /\ last_eviction_seqno' = last_eviction_seqno /\ caller' = caller /\ opu_locked' = opu_locked
  BY DEF pm_cancel_restore, NextDevice, Begin, Goto, RestoreEnds, ScheduleEviction, fenceVars, pmVars, evictVars, Parties, EvictionTypeOK, restore_process_queues
<1>6. pc["pm"] = "cancel_restore" /\ pc["restore"] = "idle" /\ pending' = pending \ {"restore"}
  BY <1>3 DEF pm_cancel_restore, NextDevice, Begin, Goto, RestoreEnds, ScheduleEviction, fenceVars, pmVars, evictVars, Parties, EvictionTypeOK, restore_process_queues, Roles
<1>10. WorkerHasFence'
  BY <1>2, <1>3, <1>4, <1>5, <1>6 DEF WorkerHasFence, OneFence, RestoreMakesFence, SuspendedHasNoWork, Parties, Roles
<1>11. OneFence'
  BY <1>2, <1>3, <1>4, <1>5, <1>6 DEF OneFence, RestoreMakesFence, Parties, Roles, EvictionTypeOK
<1>12. RestoreMakesFence'
  BY <1>2, <1>3, <1>4, <1>5, <1>6 DEF RestoreMakesFence, SuspendedHasNoWork, WorkerHasFence, Parties, Roles
<1>13. SuspendedHasNoWork'
  BY <1>2, <1>3, <1>4, <1>5, <1>6 DEF SuspendedHasNoWork, WorkerHasFence, RestoreMakesFence, Parties, Roles
<1> QED BY <1>2, <1>5, <1>10, <1>11, <1>12, <1>13 DEF FenceInv

LEMMA Fence_pm_suspended ==
  ASSUME IInv, IInv', FenceInv, pm_suspended
  PROVE  FenceInv'
<1>1. late' = late
  BY DEF pm_suspended, fenceVars
<1> SUFFICES ASSUME ~late PROVE FenceInv'
  BY <1>1 DEF FenceInv
<1>2. caller.pc = "idle" /\ WorkerHasFence /\ OneFence /\ RestoreMakesFence /\ SuspendedHasNoWork
  BY DEF FenceInv
<1>3. EvictionTypeOK /\ Roles /\ opu_locked \in Nat /\ opu_locked' \in Nat
  BY DEF IInv, EvictionTypeOK
<1>4. \A r \in Parties : pc'[r] = IF r = "pm" THEN "idle" ELSE pc[r]
  BY <1>3 DEF pm_suspended, NextDevice, Begin, Goto, RestoreEnds, ScheduleEviction, fenceVars, pmVars, evictVars, Parties, EvictionTypeOK, restore_process_queues
<1>5. pending' = pending /\ fence' = fence /\ last_eviction_seqno' = last_eviction_seqno /\ caller' = caller /\ opu_locked' = opu_locked
  BY DEF pm_suspended, NextDevice, Begin, Goto, RestoreEnds, ScheduleEviction, fenceVars, pmVars, evictVars, Parties, EvictionTypeOK, restore_process_queues
<1>6. pc["pm"] = "evicted" /\ signaled' = signaled \cup ({ef} \ {0}) /\ ef' = 0
  BY <1>3 DEF pm_suspended, NextDevice, Begin, Goto, RestoreEnds, ScheduleEviction, fenceVars, pmVars, evictVars, Parties, EvictionTypeOK, restore_process_queues, Roles
<1>10. WorkerHasFence'
  BY <1>2, <1>3, <1>4, <1>5, <1>6 DEF WorkerHasFence, OneFence, RestoreMakesFence, SuspendedHasNoWork, Parties, Roles
<1>11. OneFence'
  BY <1>2, <1>3, <1>4, <1>5, <1>6 DEF OneFence, RestoreMakesFence, Parties, Roles, EvictionTypeOK
<1>12. RestoreMakesFence'
  BY <1>2, <1>3, <1>4, <1>5, <1>6 DEF RestoreMakesFence, SuspendedHasNoWork, WorkerHasFence, Parties, Roles
<1>13. SuspendedHasNoWork'
  BY <1>2, <1>3, <1>4, <1>5, <1>6 DEF SuspendedHasNoWork, WorkerHasFence, RestoreMakesFence, Parties, Roles
<1> QED BY <1>2, <1>5, <1>10, <1>11, <1>12, <1>13 DEF FenceInv

LEMMA NextFence == IInv /\ IInv' /\ FenceInv /\ [Next]_vars => FenceInv'
<1> SUFFICES ASSUME IInv, IInv', FenceInv, [Next]_vars PROVE FenceInv'
  OBVIOUS
<1>1. CASE Loops
  BY <1>1, Fence_evict_device, Fence_evict_device_fails, Fence_undo_device, Fence_restore_device DEF Loops
<1>2. CASE Callers
  BY <1>2, Fence_schedule_evict_test, Fence_schedule_evict, Fence_schedule_evict_late DEF Callers
<1>3. CASE Workers
  BY <1>3, Fence_evict_worker_begin, Fence_evict_worker_done, Fence_evict_worker_failed,
     Fence_restore_worker_begin, Fence_restore_worker_bos, Fence_restore_worker_retry,
     Fence_restore_worker_done DEF Workers
<1>4. CASE Mm
  BY <1>4, Fence_quiesce_mm, Fence_resume_mm, Fence_resume_mm_done DEF Mm
<1>5. CASE Pm
  BY <1>5, Fence_pm_suspend, Fence_pm_resume, Fence_pm_post_reset, Fence_opu_resume_fails,
     Fence_pm_cancel_evict, Fence_pm_cancel_restore, Fence_pm_suspended DEF Pm
<1>6. CASE UNCHANGED vars
  BY <1>6 DEF vars, evictVars, fenceVars, pmVars, ledger, FenceInv, WorkerHasFence, OneFence,
     RestoreMakesFence, SuspendedHasNoWork
<1> QED BY <1>1, <1>2, <1>3, <1>4, <1>5, <1>6 DEF Next

\* The eviction worker that is due to run finds a fence, the one the eviction was asked
\* for: what evict_process_worker checks with WARN_ONCE, through suspensions, resumes that
\* fail and restores that are retried, when no eviction is asked for during a suspension.
THEOREM EvictionFindsFence == ASSUME Reliable PROVE Spec => []FenceUnlessLate
<1>1. Init => FenceInv
  BY InitFence
<1>2. FenceInv => FenceUnlessLate
  BY DEF FenceInv, WorkerHasFence, FenceUnlessLate, EvictionHasFence
<1> QED BY <1>1, <1>2, NextFence, Invariance, PTL DEF Spec
=============================================================================
