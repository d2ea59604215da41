---------------------------- MODULE PoolOpsProofs ----------------------------
(***************************************************************************)
(* What the operators of PoolOps return, for every pool of every size:     *)
(* the lemmas that the proofs about the pool's clients share.              *)
(***************************************************************************)
EXTENDS PoolOps, FiniteSetTheorems, Induction, TLAPS

-----------------------------------------------------------------------------
(* Facts about sets of slots.                                               *)

\* Slots is finite, has NSlots elements, and so has every set of slots a size.
LEMMA SlotSets ==
  /\ IsFiniteSet(Slots)
  /\ Cardinality(Slots) = NSlots
  /\ \A S \in SUBSET Slots : /\ IsFiniteSet(S)
                             /\ Cardinality(S) \in Nat
                             /\ Cardinality(S) <= NSlots
                             /\ Cardinality(S) = NSlots => S = Slots
<1>1. IsFiniteSet(Slots) /\ Cardinality(Slots) = NSlots
  BY NSlotsAssumption, FS_Interval DEF Slots
<1> QED
  BY <1>1, FS_Subset, FS_CardinalityType

\* Adding a slot to a set, or taking one away, changes its size by one.
LEMMA AddRemoveSlot ==
  ASSUME NEW S \in SUBSET Slots, NEW s \in Slots
  PROVE  /\ s \notin S => Cardinality(S \cup {s}) = Cardinality(S) + 1
         /\ s \in S => /\ Cardinality(S \ {s}) = Cardinality(S) - 1
                       /\ Cardinality(S) >= 1
<1>1. IsFiniteSet(S)
  BY SlotSets
<1>2. s \in S => Cardinality(S \ {s}) = Cardinality(S) - 1 /\ S \ {s} \in SUBSET Slots
  BY <1>1, FS_RemoveElement
<1>3. s \in S => Cardinality(S \ {s}) \in Nat /\ Cardinality(S) \in Nat
  BY <1>2, SlotSets
<1> QED
  BY <1>1, <1>2, <1>3, FS_AddElement

\* The slots below h are at most h.
LEMMA SlotsBelow ==
  ASSUME NEW S \in SUBSET Slots, NEW h \in Nat, \A s \in S : s < h
  PROVE  Cardinality(S) <= h
<1>1. S \subseteq 0 .. h - 1
  BY DEF Slots
<1>2. IsFiniteSet(0 .. h - 1) /\ Cardinality(0 .. h - 1) = h
  BY FS_Interval
<1> QED
  BY <1>1, <1>2, FS_Subset

-----------------------------------------------------------------------------
(* What the operators of PoolOps return.                                    *)

\* rawAlloc() returns a free slot whenever there is one.
LEMMA FirstFreeIsFree ==
  ASSUME NEW p \in Pools, FreeSlots(p) # {}
  PROVE  FirstFree(p) \in Slots /\ FirstFree(p) \notin p.occupied
<1>1. FreeSlots(p) \subseteq Nat
  BY NSlotsAssumption DEF FreeSlots, Slots
<1>2. \E s \in FreeSlots(p) : \A t \in FreeSlots(p) : s <= t
  BY <1>1, LeastNat
<1>3. FirstFree(p) \in FreeSlots(p)
  BY <1>2 DEF FirstFree
<1> QED
  BY <1>3 DEF FreeSlots

\* freezePermCount() computes a bound of the occupied slots within the pool.
LEMMA HighWaterBounds ==
  ASSUME NEW p \in Pools
  PROVE  /\ HighWater(p) \in 0 .. NSlots
         /\ \A s \in p.occupied : s < HighWater(p)
         /\ HighWater(p) > 0 => HighWater(p) - 1 \in p.occupied
<1> DEFINE T == {h \in Nat : \A s \in p.occupied : s < h}
<1>1. p.occupied \subseteq Slots
  BY DEF Pools
<1>2. NSlots \in T
  BY <1>1, NSlotsAssumption DEF Slots
<1>3. PICK h \in T : \A y \in T : h <= y
  <2>1. T \subseteq Nat /\ T # {}
    BY <1>2
  <2> HIDE DEF T
  <2> QED
    BY <2>1, LeastNat
<1>4. h \in 0 .. NSlots
  BY <1>2, <1>3, NSlotsAssumption
<1>5. ASSUME h > 0 PROVE h - 1 \in p.occupied
  <2>1. h - 1 \in Nat /\ h - 1 \notin T
    BY <1>3, <1>5
  <2>2. PICK s \in p.occupied : ~ (s < h - 1)
    BY <2>1
  <2>3. s \in Int /\ s < h
    BY <1>1, <1>3, <2>2 DEF Slots
  <2>4. s = h - 1
    BY <2>2, <2>3, <1>4
  <2> QED
    BY <2>4, <2>2
<1>6. \E g \in 0 .. NSlots : /\ \A s \in p.occupied : s < g
                             /\ g > 0 => g - 1 \in p.occupied
  BY <1>3, <1>4, <1>5
<1> QED
  BY <1>6 DEF HighWater

\* A successful allocation occupies one free slot and keeps the count covered.
LEMMA AllocKeeps ==
  ASSUME NEW p \in Pools, Cardinality(p.occupied) <= p.used, CanAlloc(p)
  PROVE  /\ Alloc(p) \in Pools
         /\ FirstFree(p) \in Slots \ p.occupied
         /\ Alloc(p).occupied = p.occupied \cup {FirstFree(p)}
         /\ Alloc(p).bulkFreed = p.bulkFreed \ {FirstFree(p)}
         /\ Alloc(p).warned = p.warned /\ Alloc(p).alarms = p.alarms
         /\ Alloc(p).perm = p.perm /\ Alloc(p).frozen = p.frozen
         /\ Cardinality(Alloc(p).occupied) <= Alloc(p).used
<1> DEFINE s == FirstFree(p)
<1>1. s \in Slots /\ s \notin p.occupied
  BY FirstFreeIsFree DEF CanAlloc
<1>2. Alloc(p) = Occupy(p, s)
  BY DEF Alloc
<1>3. p.used < NSlots /\ p.used \in 0 .. NSlots /\ p.peak \in 0 .. NSlots
  BY DEF CanAlloc, Pools
<1>4. Cardinality(p.occupied \cup {s}) = Cardinality(p.occupied) + 1
  BY <1>1, AddRemoveSlot DEF Pools
<1>5. Cardinality(p.occupied) \in Nat
  BY SlotSets DEF Pools
<1> HIDE DEF s
<1>6. Occupy(p, s) \in Pools
  <2> DEFINE pk == IF p.used + 1 > p.peak THEN p.used + 1 ELSE p.peak
  <2>1. p.used + 1 \in 0 .. NSlots /\ pk \in 0 .. NSlots
    BY <1>3, NSlotsAssumption
  <2>2. Occupy(p, s) = [p EXCEPT !.occupied = p.occupied \cup {s},
                                 !.bulkFreed = p.bulkFreed \ {s},
                                 !.used = p.used + 1,
                                 !.peak = pk]
    BY DEF Occupy
  <2>3. p.occupied \cup {s} \in SUBSET Slots /\ p.bulkFreed \ {s} \in SUBSET Slots
    BY <1>1 DEF Pools
  <2> HIDE DEF pk
  <2> QED
    BY <2>1, <2>2, <2>3 DEF Pools
<1>7. Occupy(p, s).used = p.used + 1 /\ Occupy(p, s).occupied = p.occupied \cup {s}
  BY DEF Occupy, Pools
<1>8. Cardinality(Occupy(p, s).occupied) <= Occupy(p, s).used
  BY <1>3, <1>4, <1>5, <1>7
<1> QED
  BY <1>1, <1>2, <1>6, <1>7, <1>8 DEF Occupy, Pools, s

\* Releasing an occupied slot keeps the count covered and never underflows it.
LEMMA ReleaseOccupied ==
  ASSUME NEW p \in Pools, Cardinality(p.occupied) <= p.used,
         NEW s \in p.occupied
  PROVE  /\ Release(p, s) \in Pools
         /\ Release(p, s) = [p EXCEPT !.occupied = p.occupied \ {s},
                                      !.used = p.used - 1]
         /\ Cardinality(Release(p, s).occupied) <= Release(p, s).used
<1>1. s \in Slots /\ p.occupied \in SUBSET Slots /\ p.used \in 0 .. NSlots
  BY DEF Pools
<1>2. /\ Cardinality(p.occupied \ {s}) = Cardinality(p.occupied) - 1
      /\ Cardinality(p.occupied) >= 1
  BY <1>1, AddRemoveSlot
<1>3. Cardinality(p.occupied) \in Nat
  BY <1>1, SlotSets
<1>4. p.used - 1 \in 0 .. NSlots
  BY <1>1, <1>2, <1>3, NSlotsAssumption
<1>5. Release(p, s) = [p EXCEPT !.occupied = p.occupied \ {s},
                                !.used = p.used - 1]
  BY DEF Release
<1>6. Release(p, s) \in Pools
  BY <1>1, <1>4, <1>5 DEF Pools
<1>7. /\ Release(p, s).occupied = p.occupied \ {s}
      /\ Release(p, s).used = p.used - 1
  BY <1>5 DEF Pools
<1> QED
  BY <1>1, <1>2, <1>3, <1>5, <1>6, <1>7

\* Freezing keeps the occupied slots, all below the new baseline.
LEMMA FreezeKeeps ==
  ASSUME NEW p \in Pools, Cardinality(p.occupied) <= p.used
  PROVE  LET q == FreezePermCount(p)
         IN  /\ q \in Pools /\ q.frozen
             /\ q.occupied = p.occupied /\ q.bulkFreed = p.bulkFreed
             /\ q.warned = p.warned /\ q.alarms = p.alarms
             /\ q.peak = p.peak /\ q.failed = p.failed
             /\ q.perm = HighWater(p)
             /\ \A s \in p.occupied : s < q.perm
             /\ Cardinality(q.occupied) <= q.used
<1> DEFINE h == HighWater(p)
<1>1. h \in 0 .. NSlots /\ \A s \in p.occupied : s < h
  BY HighWaterBounds
<1>2. p.occupied \in SUBSET Slots /\ p.used \in 0 .. NSlots
  BY DEF Pools
<1>3. h \in Nat
  BY <1>1
<1>4. Cardinality(p.occupied) <= h
  BY <1>1, <1>2, <1>3, SlotsBelow
<1> HIDE DEF h
<1>5. FreezePermCount(p) = [p EXCEPT !.perm = h,
                                     !.used = IF h < p.used THEN h ELSE p.used,
                                     !.frozen = TRUE]
  BY DEF FreezePermCount, h
<1> QED
  BY <1>1, <1>2, <1>4, <1>5 DEF Pools, h

\* resetAll() leaves exactly the slots below the frozen baseline.
LEMMA ResetKeeps ==
  ASSUME NEW p \in Pools, Cardinality(p.occupied) <= p.used
  PROVE  LET q == ResetAll(p)
         IN  /\ q \in Pools /\ q.frozen
             /\ p.frozen => q.perm = p.perm
             /\ ~p.frozen => /\ q.perm = HighWater(p)
                             /\ \A s \in p.occupied : s < q.perm
             /\ q.used = q.perm /\ q.peak = p.peak /\ q.failed = p.failed
             /\ q.occupied = {s \in p.occupied : s < q.perm}
             /\ q.bulkFreed = p.bulkFreed \cup {s \in p.occupied : s >= q.perm}
             /\ q.warned = p.warned /\ q.alarms = p.alarms
             /\ Cardinality(q.occupied) <= q.used
<1> DEFINE f == AutoFreezePermCountOnce(p)
<1>1. /\ f \in Pools /\ f.frozen
      /\ f.occupied = p.occupied /\ f.bulkFreed = p.bulkFreed
      /\ f.warned = p.warned /\ f.alarms = p.alarms
      /\ p.frozen => f.perm = p.perm
      /\ f.peak = p.peak /\ f.failed = p.failed
      /\ ~p.frozen => /\ f.perm = HighWater(p)
                      /\ \A s \in p.occupied : s < f.perm
  BY FreezeKeeps DEF AutoFreezePermCountOnce
<1>2. ResetAll(p) = DropAbove(f)
  BY DEF ResetAll
<1> HIDE DEF f
<1>3. /\ DropAbove(f) \in Pools
      /\ DropAbove(f).perm = f.perm /\ DropAbove(f).frozen = f.frozen
      /\ DropAbove(f).used = f.perm
      /\ DropAbove(f).peak = f.peak /\ DropAbove(f).failed = f.failed
      /\ DropAbove(f).occupied = {s \in f.occupied : s < f.perm}
      /\ DropAbove(f).bulkFreed = f.bulkFreed \cup {s \in f.occupied : s >= f.perm}
      /\ DropAbove(f).warned = f.warned /\ DropAbove(f).alarms = f.alarms
  BY <1>1 DEF DropAbove, Pools
<1>4. Cardinality({s \in f.occupied : s < f.perm}) <= f.perm
  <2>1. {s \in f.occupied : s < f.perm} \in SUBSET Slots /\ f.perm \in Nat
    BY <1>1 DEF Pools
  <2> QED
    BY <2>1, SlotsBelow
<1> QED
  BY <1>1, <1>2, <1>3, <1>4
=============================================================================
