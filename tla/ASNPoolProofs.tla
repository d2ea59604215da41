---------------------------- MODULE ASNPoolProofs ----------------------------
(***************************************************************************)
(* Proofs about ASNPool for every number of slots and every set of         *)
(* pointers.  The invariants of the run are not inductive: that a stale or *)
(* double delete finds its slot free and is told apart by the bulkFreed    *)
(* flag, and that only slots above the baseline are lost, are facts about  *)
(* the pointers clients still have.  PoolInv adds those facts.             *)
(***************************************************************************)
EXTENDS ASNPool, PoolOpsProofs

\* What relates the flags and counters of the pool to the clients' pointers.
FlagsMatchPointers ==
  /\ pool.bulkFreed \cap pool.occupied = {}
  /\ \A o \in Objects : kind[o] = "stale" =>
       at[o] \notin pool.occupied /\ at[o] \in pool.bulkFreed \cup lost
  /\ dead \cap (pool.occupied \cup pool.bulkFreed) = {}

\* Before the baseline is fixed no handler is late; afterwards those that are
\* not lie below it, and the slots lost under the others above.
BaselineDivides ==
  /\ ~pool.frozen => /\ lost = {}
                     /\ \A o \in Objects : kind[o] # "late"
  /\ pool.frozen => \A o \in Objects : kind[o] = "startup" => at[o] < pool.perm
  /\ \A s \in lost : s >= pool.perm

PoolInv ==
  /\ TypeOK
  /\ SlotsHaveOneOwner
  /\ NeverUnderReports
  /\ FlagsMatchPointers
  /\ BaselineDivides
  /\ AlarmsAreTrueDoubleDestroys

-----------------------------------------------------------------------------
\* Releasing a free slot leaves the pool alone or raises the slot's alarm.
LEMMA ReleaseFree ==
  ASSUME NEW p \in Pools, NEW s \in Slots, s \notin p.occupied,
         p.alarms = Cardinality(p.warned)
  PROVE  LET q == Release(p, s)
         IN  /\ q \in Pools /\ q.alarms = Cardinality(q.warned)
             /\ q.occupied = p.occupied /\ q.used = p.used
             /\ q.bulkFreed = p.bulkFreed
             /\ q.perm = p.perm /\ q.frozen = p.frozen
             /\ q.warned = IF s \in p.bulkFreed THEN p.warned
                           ELSE p.warned \cup {s}
<1>1. CASE s \in p.bulkFreed \/ s \in p.warned
  <2>1. Release(p, s) = p
    BY <1>1 DEF Release
  <2> QED
    BY <1>1, <2>1
<1>2. CASE s \notin p.bulkFreed /\ s \notin p.warned
  <2>1. Release(p, s) = [p EXCEPT !.warned = p.warned \cup {s},
                                  !.alarms = p.alarms + 1]
    BY <1>2 DEF Release
  <2>2. p.warned \in SUBSET Slots /\ p.warned \cup {s} \in SUBSET Slots
    BY DEF Pools
  <2>3. /\ Cardinality(p.warned \cup {s}) = Cardinality(p.warned) + 1
        /\ Cardinality(p.warned \cup {s}) \in Nat
        /\ Cardinality(p.warned \cup {s}) <= NSlots
    BY <1>2, <2>2, AddRemoveSlot, SlotSets
  <2>4. p.alarms + 1 = Cardinality(p.warned \cup {s})
    BY <2>3
  <2>5. p.alarms + 1 \in 0 .. NSlots
    BY <2>3, <2>4, NSlotsAssumption
  <2> QED
    BY <1>2, <2>1, <2>2, <2>4, <2>5 DEF Pools
<1> QED
  BY <1>1, <1>2

-----------------------------------------------------------------------------
(* PoolInv is inductive: one lemma per action of ASNPool.                   *)

LEMMA InitPoolInv == Init => PoolInv
<1>1. Cardinality({}) = 0
  BY FS_EmptySet
<1>2. 0 \in Slots
  BY NSlotsAssumption DEF Slots
<1> QED
  BY <1>1, <1>2, NSlotsAssumption
  DEF Init, PoolInv, TypeOK, Pools, EmptyPool, SlotsHaveOneOwner, Holders,
      HandlerKinds, NeverUnderReports, FlagsMatchPointers, BaselineDivides,
      AlarmsAreTrueDoubleDestroys

\* The two actions that obtain an object.
LEMMA ObtainPoolInv ==
  ASSUME PoolInv, NEW o \in Objects, Register(o) \/ New(o)
  PROVE  PoolInv'
<1> DEFINE s == FirstFree(pool)
           k == IF New(o) THEN "transient"
                ELSE IF pool.frozen THEN "late" ELSE "startup"
<1>1. /\ kind[o] = "none" /\ NoStale /\ CanAlloc(pool) /\ pool' = Alloc(pool)
      /\ at' = [at EXCEPT ![o] = s] /\ kind' = [kind EXCEPT ![o] = k]
      /\ dead' = dead \ {s} /\ lost' = lost /\ doubled' = doubled
  BY DEF Register, New, Obtain
<1>2. k \in {"startup", "late", "transient"}
  OBVIOUS
<1>3. /\ k = "late" => pool.frozen
      /\ k = "startup" => ~pool.frozen
  OBVIOUS
<1>4. /\ pool' \in Pools
      /\ s \in Slots \ pool.occupied
      /\ pool'.occupied = pool.occupied \cup {s}
      /\ pool'.bulkFreed = pool.bulkFreed \ {s}
      /\ pool'.warned = pool.warned /\ pool'.alarms = pool.alarms
      /\ pool'.perm = pool.perm /\ pool'.frozen = pool.frozen
      /\ Cardinality(pool'.occupied) <= pool'.used
  BY <1>1, AllocKeeps DEF PoolInv, TypeOK, NeverUnderReports
<1> HIDE DEF s, k
<1>5. TypeOK'
  BY <1>1, <1>2, <1>4 DEF PoolInv, TypeOK, HandlerKinds
<1>6. \A q \in Objects : /\ kind'[q] = IF q = o THEN k ELSE kind[q]
                         /\ at'[q] = IF q = o THEN s ELSE at[q]
  BY <1>1 DEF PoolInv, TypeOK
<1>7. SlotsHaveOneOwner'
  <2>1. ASSUME NEW t \in Slots \ lost
        PROVE  /\ t \in pool'.occupied <=> Holders(t)' # {}
               /\ \A q, r \in Holders(t)' : q = r
    <3>1. /\ t \in pool.occupied <=> Holders(t) # {}
          /\ \A q, r \in Holders(t) : q = r
      BY <2>1 DEF PoolInv, SlotsHaveOneOwner
    <3>2. CASE t = s
      <4>1. Holders(t) = {}
        BY <1>4, <3>1, <3>2
      <4>2. Holders(t)' = {o}
        BY <1>2, <1>6, <3>2, <4>1 DEF Holders, HandlerKinds
      <4> QED
        BY <1>4, <3>2, <4>2
    <3>3. CASE t # s
      <4>1. Holders(t)' = Holders(t)
        BY <1>1, <1>6, <3>3 DEF Holders, HandlerKinds
      <4> QED
        BY <1>4, <3>1, <3>3, <4>1
    <3> QED
      BY <3>2, <3>3
  <2>2. \A q \in Objects : kind'[q] = "startup" => at'[q] \notin lost
    BY <1>3, <1>6 DEF PoolInv, SlotsHaveOneOwner, BaselineDivides
  <2> QED
    BY <1>1, <2>1, <2>2 DEF SlotsHaveOneOwner
<1>8. FlagsMatchPointers'
  BY <1>1, <1>2, <1>4, <1>6 DEF PoolInv, FlagsMatchPointers, NoStale
<1>9. BaselineDivides'
  BY <1>1, <1>3, <1>4, <1>6 DEF PoolInv, BaselineDivides
<1> QED
  BY <1>1, <1>4, <1>5, <1>7, <1>8, <1>9
  DEF PoolInv, NeverUnderReports, AlarmsAreTrueDoubleDestroys

LEMMA NewFailsPoolInv == PoolInv /\ NewFails => PoolInv'
<1> SUFFICES ASSUME PoolInv, NewFails PROVE PoolInv'
  OBVIOUS
<1>1. pool' = [pool EXCEPT !.failed = TRUE]
  BY DEF NewFails, Alloc
<1>2. /\ pool' \in Pools
      /\ pool'.occupied = pool.occupied /\ pool'.used = pool.used
      /\ pool'.bulkFreed = pool.bulkFreed
      /\ pool'.warned = pool.warned /\ pool'.alarms = pool.alarms
      /\ pool'.perm = pool.perm /\ pool'.frozen = pool.frozen
  BY <1>1 DEF PoolInv, TypeOK, Pools
<1> QED
  BY <1>2
  DEF NewFails, PoolInv, TypeOK, SlotsHaveOneOwner, Holders,
      NeverUnderReports, FlagsMatchPointers, BaselineDivides,
      AlarmsAreTrueDoubleDestroys

LEMMA DestroyPoolInv ==
  ASSUME PoolInv, NEW o \in Objects, Destroy(o)
  PROVE  PoolInv'
<1> DEFINE s == at[o]
<1>1. /\ kind[o] # "none" /\ pool' = Release(pool, s)
      /\ dead' = IF s \in pool.occupied THEN dead \cup {s} ELSE dead
      /\ kind' = [kind EXCEPT ![o] = "none"] /\ at' = [at EXCEPT ![o] = 0]
      /\ lost' = lost /\ doubled' = doubled
  BY DEF Destroy
<1>2. s \in Slots /\ pool \in Pools
  BY DEF PoolInv, TypeOK
<1>3. \A q \in Objects : /\ kind'[q] = IF q = o THEN "none" ELSE kind[q]
                         /\ at'[q] = IF q = o THEN 0 ELSE at[q]
  BY <1>1 DEF PoolInv, TypeOK
<1>4. \A t : Holders(t)' = Holders(t) \ {o}
  BY <1>3 DEF Holders, HandlerKinds
<1>5. s \notin lost => /\ s \in pool.occupied <=> o \in Holders(s)
                       /\ o \in Holders(s) => Holders(s) = {o}
  <2>1. kind[o] = "stale" => s \notin pool.occupied
    BY DEF PoolInv, FlagsMatchPointers
  <2>2. kind[o] # "stale" => o \in Holders(s)
    BY <1>1 DEF PoolInv, TypeOK, Holders
  <2>3. kind[o] = "stale" => o \notin Holders(s)
    BY DEF Holders, HandlerKinds
  <2>4. s \notin lost => /\ s \in pool.occupied <=> Holders(s) # {}
                         /\ \A q, r \in Holders(s) : q = r
    BY <1>2 DEF PoolInv, SlotsHaveOneOwner
  <2> HIDE DEF s
  <2> QED
    BY <2>1, <2>2, <2>3, <2>4
<1>6. /\ pool' \in Pools
      /\ pool'.occupied = pool.occupied \ {s}
      /\ pool'.bulkFreed = pool.bulkFreed
      /\ pool'.perm = pool.perm /\ pool'.frozen = pool.frozen
      /\ Cardinality(pool'.occupied) <= pool'.used
      /\ pool'.alarms = Cardinality(pool'.warned)
      /\ pool'.warned = pool.warned \/ /\ pool'.warned = pool.warned \cup {s}
                                       /\ s \in lost
  <2>1. CASE s \in pool.occupied
    <3>1. /\ pool' \in Pools
          /\ pool' = [pool EXCEPT !.occupied = pool.occupied \ {s},
                                  !.used = pool.used - 1]
          /\ Cardinality(pool'.occupied) <= pool'.used
      BY <1>1, <1>2, <2>1, ReleaseOccupied DEF PoolInv, NeverUnderReports
    <3>2. /\ pool'.occupied = pool.occupied \ {s}
          /\ pool'.bulkFreed = pool.bulkFreed
          /\ pool'.perm = pool.perm /\ pool'.frozen = pool.frozen
          /\ pool'.warned = pool.warned /\ pool'.alarms = pool.alarms
      BY <1>2, <3>1 DEF Pools
    <3> QED
      BY <3>1, <3>2 DEF PoolInv, AlarmsAreTrueDoubleDestroys
  <2>2. CASE s \notin pool.occupied
    <3>1. pool.alarms = Cardinality(pool.warned)
      BY DEF PoolInv, AlarmsAreTrueDoubleDestroys
    <3>2. /\ pool' \in Pools /\ pool'.alarms = Cardinality(pool'.warned)
          /\ pool'.occupied = pool.occupied /\ pool'.used = pool.used
          /\ pool'.bulkFreed = pool.bulkFreed
          /\ pool'.perm = pool.perm /\ pool'.frozen = pool.frozen
          /\ pool'.warned = IF s \in pool.bulkFreed THEN pool.warned
                            ELSE pool.warned \cup {s}
      <4> HIDE DEF s
      <4> QED
        BY <1>1, <1>2, <2>2, <3>1, ReleaseFree
    <3>3. s \notin lost => kind[o] = "stale"
      BY <1>1, <1>5, <2>2 DEF PoolInv, TypeOK, Holders
    <3>4. s \notin lost => s \in pool.bulkFreed
      BY <3>3 DEF PoolInv, FlagsMatchPointers
    <3> QED
      BY <2>2, <3>2, <3>4 DEF PoolInv, NeverUnderReports
  <2> QED
    BY <2>1, <2>2
<1> HIDE DEF s
<1>7. TypeOK'
  <2>1. 0 \in Slots
    BY NSlotsAssumption DEF Slots
  <2> QED
    BY <1>1, <1>2, <1>6, <2>1 DEF PoolInv, TypeOK
<1>8. SlotsHaveOneOwner'
  <2>1. ASSUME NEW t \in Slots \ lost
        PROVE  /\ t \in pool'.occupied <=> Holders(t)' # {}
               /\ \A q, r \in Holders(t)' : q = r
    <3>1. /\ t \in pool.occupied <=> Holders(t) # {}
          /\ \A q, r \in Holders(t) : q = r
      BY <2>1 DEF PoolInv, SlotsHaveOneOwner
    <3>2. CASE t = s
      BY <1>4, <1>5, <1>6, <2>1, <3>1, <3>2
    <3>3. CASE t # s
      <4>1. o \notin Holders(t)
        BY <3>3 DEF Holders, s
      <4> QED
        BY <1>4, <1>6, <3>1, <3>3, <4>1
    <3> QED
      BY <3>2, <3>3
  <2>2. \A q \in Objects : kind'[q] = "startup" => at'[q] \notin lost
    BY <1>3 DEF PoolInv, SlotsHaveOneOwner
  <2> QED
    BY <1>1, <2>1, <2>2 DEF SlotsHaveOneOwner
<1>9. FlagsMatchPointers'
  BY <1>1, <1>3, <1>6 DEF PoolInv, FlagsMatchPointers
<1>10. BaselineDivides'
  BY <1>1, <1>3, <1>6 DEF PoolInv, BaselineDivides
<1>11. AlarmsAreTrueDoubleDestroys'
  BY <1>1, <1>6 DEF PoolInv, AlarmsAreTrueDoubleDestroys
<1> QED
  BY <1>6, <1>7, <1>8, <1>9, <1>10, <1>11 DEF PoolInv, NeverUnderReports

LEMMA DoubleDeletePoolInv ==
  ASSUME PoolInv, NEW s \in Slots, DoubleDelete(s)
  PROVE  PoolInv'
<1>1. s \notin pool.occupied /\ s \notin pool.bulkFreed
  BY DEF PoolInv, FlagsMatchPointers, DoubleDelete
<1>2. /\ pool \in Pools /\ pool.alarms = Cardinality(pool.warned)
      /\ pool' = Release(pool, s)
  BY DEF PoolInv, TypeOK, AlarmsAreTrueDoubleDestroys, DoubleDelete
<1>3. /\ pool' \in Pools /\ pool'.alarms = Cardinality(pool'.warned)
      /\ pool'.occupied = pool.occupied /\ pool'.used = pool.used
      /\ pool'.bulkFreed = pool.bulkFreed
      /\ pool'.perm = pool.perm /\ pool'.frozen = pool.frozen
      /\ pool'.warned = pool.warned \cup {s}
  BY <1>1, <1>2, ReleaseFree
<1> QED
  BY <1>3
  DEF DoubleDelete, PoolInv, TypeOK, SlotsHaveOneOwner, Holders,
      NeverUnderReports, FlagsMatchPointers, BaselineDivides,
      AlarmsAreTrueDoubleDestroys

\* A handler's slot is occupied as long as no slot has been lost.
LEMMA HandlersBelow ==
  ASSUME PoolInv, ~pool.frozen, NEW o \in Objects, kind[o] \in HandlerKinds
  PROVE  at[o] \in pool.occupied
<1>1. lost = {} /\ at[o] \in Slots
  BY DEF PoolInv, TypeOK, BaselineDivides
<1>2. o \in Holders(at[o])
  BY DEF Holders
<1> QED
  BY <1>1, <1>2 DEF PoolInv, SlotsHaveOneOwner

LEMMA FreezePoolInv == PoolInv /\ Freeze => PoolInv'
<1> SUFFICES ASSUME PoolInv, Freeze PROVE PoolInv'
  OBVIOUS
<1>1. /\ pool' \in Pools /\ pool'.frozen
      /\ pool'.occupied = pool.occupied /\ pool'.bulkFreed = pool.bulkFreed
      /\ pool'.warned = pool.warned /\ pool'.alarms = pool.alarms
      /\ \A s \in pool.occupied : s < pool'.perm
      /\ Cardinality(pool'.occupied) <= pool'.used
  BY FreezeKeeps DEF Freeze, PoolInv, TypeOK, NeverUnderReports
<1>2. ~pool.frozen /\ lost = {}
  BY DEF Freeze, PoolInv, BaselineDivides
<1>3. \A o \in Objects : kind[o] = "startup" => at[o] < pool'.perm
  BY <1>1, <1>2, HandlersBelow DEF HandlerKinds
<1> QED
  BY <1>1, <1>2, <1>3
  DEF Freeze, PoolInv, TypeOK, SlotsHaveOneOwner, Holders,
      NeverUnderReports, FlagsMatchPointers, BaselineDivides,
      AlarmsAreTrueDoubleDestroys

LEMMA ResetPoolInv == PoolInv /\ Reset => PoolInv'
<1> SUFFICES ASSUME PoolInv, Reset PROVE PoolInv'
  OBVIOUS
<1>1. /\ pool' \in Pools /\ pool'.frozen
      /\ pool.frozen => pool'.perm = pool.perm
      /\ ~pool.frozen => \A s \in pool.occupied : s < pool'.perm
      /\ pool'.occupied = {s \in pool.occupied : s < pool'.perm}
      /\ pool'.bulkFreed = pool.bulkFreed \cup {s \in pool.occupied : s >= pool'.perm}
      /\ pool'.warned = pool.warned /\ pool'.alarms = pool.alarms
      /\ Cardinality(pool'.occupied) <= pool'.used
  BY ResetKeeps DEF Reset, PoolInv, TypeOK, NeverUnderReports
<1>2. \A o \in Objects : kind[o] = "startup" => at[o] < pool'.perm
  BY <1>1, HandlersBelow DEF PoolInv, BaselineDivides, HandlerKinds
<1>3. /\ at' = at /\ dead' = dead /\ doubled' = doubled
      /\ \A o \in Objects : kind'[o] =
           IF kind[o] = "transient" /\ at[o] >= pool'.perm THEN "stale" ELSE kind[o]
      /\ lost' = lost \cup {s \in Slots :
             /\ s >= pool'.perm
             /\ \E o \in Objects : at[o] = s /\ kind[o] = "late"}
  BY DEF Reset
<1>4. /\ pool'.perm \in Nat /\ Slots \subseteq Nat
      /\ pool.occupied \subseteq Slots
      /\ \A s \in pool.occupied : s \in Nat
      /\ \A o \in Objects : at[o] \in Slots /\ at[o] \in Nat
  BY <1>1, NSlotsAssumption DEF PoolInv, TypeOK, Pools, Slots
<1>5. TypeOK'
  BY <1>1, <1>3 DEF Reset, PoolInv, TypeOK
<1>6. SlotsHaveOneOwner'
  <2>1. ASSUME NEW t \in Slots, t \notin lost'
        PROVE  /\ t \in pool'.occupied <=> Holders(t)' # {}
               /\ \A q, r \in Holders(t)' : q = r
    <3>1. /\ t \in pool.occupied <=> Holders(t) # {}
          /\ \A q, r \in Holders(t) : q = r
      BY <1>3, <2>1 DEF PoolInv, SlotsHaveOneOwner
    <3>2. CASE t < pool'.perm
      <4>1. Holders(t)' = Holders(t)
        BY <1>3, <1>4, <3>2 DEF Holders, HandlerKinds
      <4> QED
        BY <1>1, <3>1, <3>2, <4>1
    <3>3. CASE ~ (t < pool'.perm)
      <4>1. t >= pool'.perm
        BY <1>4, <3>3
      <4>2. \A o \in Objects : ~ (at[o] = t /\ kind[o] = "late")
        BY <1>3, <2>1, <4>1
      <4>3. Holders(t)' = {}
        BY <1>2, <1>3, <3>3, <4>1, <4>2 DEF Holders, HandlerKinds
      <4> QED
        BY <1>1, <3>3, <4>3
    <3> QED
      BY <3>2, <3>3
  <2>2. \A o \in Objects : kind'[o] = "startup" => at'[o] \notin lost'
    <3>1. ASSUME NEW o \in Objects, kind'[o] = "startup"
          PROVE  at[o] \notin lost'
      <4>1. kind[o] = "startup" /\ at[o] \notin lost /\ at[o] < pool'.perm
        BY <1>2, <1>3, <3>1 DEF PoolInv, SlotsHaveOneOwner
      <4>2. ~ (at[o] >= pool'.perm)
        BY <1>4, <4>1
      <4> QED
        BY <1>3, <4>1, <4>2
    <3> QED
      BY <1>3, <3>1
  <2> QED
    BY <2>1, <2>2 DEF SlotsHaveOneOwner
<1>7. FlagsMatchPointers'
  <2>1. pool'.bulkFreed \cap pool'.occupied = {}
    <3>1. \A s \in pool.occupied : ~ (s >= pool'.perm /\ s < pool'.perm)
      BY <1>4
    <3>2. pool.bulkFreed \cap pool.occupied = {}
      BY DEF PoolInv, FlagsMatchPointers
    <3> QED
      BY <1>1, <3>1, <3>2
  <2>2. ASSUME NEW o \in Objects, kind'[o] = "stale"
        PROVE  at[o] \notin pool'.occupied /\ at[o] \in pool'.bulkFreed \cup lost'
    <3>1. CASE kind[o] = "stale"
      BY <1>1, <1>3, <3>1 DEF PoolInv, FlagsMatchPointers
    <3>2. CASE kind[o] # "stale"
      <4>1. kind[o] = "transient" /\ at[o] >= pool'.perm
        BY <1>3, <2>2, <3>2
      <4>2. ~ (at[o] < pool'.perm)
        BY <1>4, <4>1
      <4>3. o \in Holders(at[o])
        BY <4>1 DEF Holders
      <4>4. at[o] \in pool.occupied \/ at[o] \in lost
        BY <1>4, <4>3 DEF PoolInv, SlotsHaveOneOwner
      <4> QED
        BY <1>1, <1>3, <4>1, <4>2, <4>4
    <3> QED
      BY <3>1, <3>2
  <2>3. dead' \cap (pool'.occupied \cup pool'.bulkFreed) = {}
    BY <1>1, <1>3 DEF PoolInv, FlagsMatchPointers
  <2> QED
    BY <1>3, <2>1, <2>2, <2>3 DEF FlagsMatchPointers
<1>8. BaselineDivides'
  <2>1. \A s \in lost' : s >= pool'.perm
    BY <1>1, <1>3 DEF PoolInv, BaselineDivides
  <2> QED
    BY <1>1, <1>2, <1>3, <2>1 DEF BaselineDivides
<1>9. AlarmsAreTrueDoubleDestroys'
  BY <1>1, <1>3 DEF PoolInv, AlarmsAreTrueDoubleDestroys
<1> QED
  BY <1>1, <1>5, <1>6, <1>7, <1>8, <1>9 DEF PoolInv, NeverUnderReports

LEMMA NextPoolInv == PoolInv /\ [Next]_vars => PoolInv'
<1> SUFFICES ASSUME PoolInv, [Next]_vars PROVE PoolInv'
  OBVIOUS
<1>1. CASE Next
  BY <1>1, ObtainPoolInv, NewFailsPoolInv, DestroyPoolInv,
     DoubleDeletePoolInv, FreezePoolInv, ResetPoolInv
  DEF Next
<1>2. CASE UNCHANGED vars
  BY <1>2
  DEF vars, PoolInv, TypeOK, SlotsHaveOneOwner, Holders, NeverUnderReports,
      FlagsMatchPointers, BaselineDivides, AlarmsAreTrueDoubleDestroys
<1> QED
  BY <1>1, <1>2

LEMMA PoolInvariance == Spec => []PoolInv
BY InitPoolInv, NextPoolInv, PTL DEF Spec

-----------------------------------------------------------------------------
\* Every field of the pool keeps its type: the counters of getRuntimeStats()
\* never go below 0 or above the pool's capacity.
THEOREM PoolTypeCorrect == Spec => []TypeOK
<1>1. PoolInv => TypeOK
  BY DEF PoolInv
<1> QED
  BY <1>1, PoolInvariance, PTL

\* usedCount covers the occupied slots, whatever the clients destroy and when,
\* and whenever handlers are registered.
THEOREM CountCoversOccupancy == Spec => []NeverUnderReports
<1>1. PoolInv => NeverUnderReports
  BY DEF PoolInv
<1> QED
  BY <1>1, PoolInvariance, PTL

\* rawAlloc() never takes its second exhaustion exit.
THEOREM AllocationFindsSlot == Spec => []CounterCheckSuffices
<1>1. PoolInv => CounterCheckSuffices
  <2> SUFFICES ASSUME PoolInv, pool.used < NSlots, FreeSlots(pool) = {}
               PROVE  FALSE
    BY DEF CounterCheckSuffices
  <2>1. pool.occupied = Slots /\ pool.used \in 0 .. NSlots
    BY DEF PoolInv, TypeOK, Pools, FreeSlots
  <2>2. NSlots <= pool.used
    BY <2>1, SlotSets DEF PoolInv, NeverUnderReports
  <2> QED
    BY <2>1, <2>2, NSlotsAssumption
<1> QED
  BY <1>1, PoolInvariance, PTL

\* Outside the slots lost under handlers registered late no slot leaks and none
\* has two owners; and no handler registered before the baseline was fixed is
\* ever in a lost slot, whatever is registered, removed and reset afterwards.
THEOREM OneOwnerPerSlot == Spec => []SlotsHaveOneOwner
<1>1. PoolInv => SlotsHaveOneOwner
  BY DEF PoolInv
<1> QED
  BY <1>1, PoolInvariance, PTL

\* The double-release alarm has no false negatives, and false positives only in
\* the slots lost under late handlers.
THEOREM AlarmIsExact == Spec => []AlarmsAreTrueDoubleDestroys
<1>1. PoolInv => AlarmsAreTrueDoubleDestroys
  BY DEF PoolInv
<1> QED
  BY <1>1, PoolInvariance, PTL

\* Whatever fixes the baseline puts it above every handler registered by then,
\* and nothing moves it again.
THEOREM BaselineNeverMoves == Spec => BaselineIsFixed
<1> DEFINE Above == \A o \in Objects : kind[o] \in HandlerKinds => at[o] < pool'.perm
           Fixed == /\ pool.frozen => pool'.frozen /\ pool'.perm = pool.perm
                    /\ pool'.frozen /\ ~pool.frozen => Above
<1>1. ASSUME PoolInv, [Next]_vars PROVE Fixed
  <2>1. pool \in Pools /\ Cardinality(pool.occupied) <= pool.used
    BY <1>1 DEF PoolInv, TypeOK, NeverUnderReports
  <2>2. CASE pool'.frozen = pool.frozen /\ pool'.perm = pool.perm
    BY <2>2
  <2>3. ASSUME NEW o \in Objects, Register(o) \/ New(o)
        PROVE  pool'.frozen = pool.frozen /\ pool'.perm = pool.perm
    BY <2>1, <2>3, AllocKeeps DEF Register, New, Obtain
  <2>4. ASSUME NewFails
        PROVE  pool'.frozen = pool.frozen /\ pool'.perm = pool.perm
    <3>1. pool' = [pool EXCEPT !.failed = TRUE]
      BY <2>4 DEF NewFails, Alloc
    <3> QED
      BY <2>1, <3>1 DEF Pools
  <2>5. ASSUME NEW s \in Slots, pool' = Release(pool, s)
        PROVE  pool'.frozen = pool.frozen /\ pool'.perm = pool.perm
    BY <2>1, <2>5 DEF Release, Pools
  <2>6. ASSUME NEW o \in Objects, Destroy(o)
        PROVE  pool'.frozen = pool.frozen /\ pool'.perm = pool.perm
    BY <1>1, <2>5, <2>6 DEF Destroy, PoolInv, TypeOK
  <2>7. ASSUME NEW s \in Slots, DoubleDelete(s)
        PROVE  pool'.frozen = pool.frozen /\ pool'.perm = pool.perm
    BY <2>5, <2>7 DEF DoubleDelete
  <2>8. CASE Freeze
    <3>1. ~pool.frozen /\ \A s \in pool.occupied : s < pool'.perm
      BY <2>1, <2>8, FreezeKeeps DEF Freeze
    <3> QED
      BY <1>1, <3>1, HandlersBelow
  <2>9. CASE Reset
    <3>1. /\ pool'.frozen
          /\ pool.frozen => pool'.perm = pool.perm
          /\ ~pool.frozen => \A s \in pool.occupied : s < pool'.perm
      BY <2>1, <2>9, ResetKeeps DEF Reset
    <3> QED
      BY <1>1, <3>1, HandlersBelow
  <2>10. CASE UNCHANGED vars
    BY <2>2, <2>10 DEF vars
  <2> HIDE DEF Fixed
  <2> QED
    BY <1>1, <2>2, <2>3, <2>4, <2>6, <2>7, <2>8, <2>9, <2>10 DEF Next
<1>2. PoolInv /\ [Next]_vars => [Fixed]_vars
  BY <1>1
<1> QED
  BY <1>2, PoolInvariance, PTL DEF Spec, BaselineIsFixed
=============================================================================
