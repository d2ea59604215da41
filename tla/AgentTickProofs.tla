--------------------------- MODULE AgentTickProofs ---------------------------
(***************************************************************************)
(* Theorems of AgentTick, for any number of traps, handlers, varbinds and  *)
(* slots.                                                                  *)
(*                                                                         *)
(* First the contracts of what a tick is made of: asn_delete() of a set of *)
(* slots, a step of a build, a script, a tree, sendTo(), the decoding of a *)
(* packet and the pass over the queue.  Then four layers, each resting on  *)
(* the one before:                                                         *)
(*   TickTypes   holds whatever the sketch does;                           *)
(*   Stateless   if its informs fit the list;                              *)
(*   PoolInv     if it also never sends from its ack callback;             *)
(*   ReserveInv  if the pool also has the size defs.h derives, while the   *)
(*               sketch keeps to its reserve and the baseline has not      *)
(*               taken in a notification sent before the first tick.       *)
(***************************************************************************)
EXTENDS AgentTick, PoolOpsProofs

-----------------------------------------------------------------------------
(* Pools whose counters tell the truth, and what asn_delete() of a set of   *)
(* slots makes of one.                                                      *)

Sound ==
  {p \in Pools : Cardinality(p.occupied) <= p.used /\ p.alarms = Cardinality(p.warned)}

\* The fields that only the sketch's setup() and an alarm change.
Quiet(p, q) ==
  q.perm = p.perm /\ q.frozen = p.frozen /\ q.warned = p.warned /\ q.alarms = p.alarms

\* q is p after asn_delete() of every slot in S.
Released(p, S, q) ==
  /\ q \in Sound
  /\ q.occupied = p.occupied \ S
  /\ q.bulkFreed = p.bulkFreed
  /\ q.perm = p.perm /\ q.frozen = p.frozen
  /\ q.peak = p.peak /\ q.failed = p.failed
  /\ S \subseteq p.occupied \cup p.bulkFreed => Quiet(p, q)
  /\ S \subseteq p.occupied => q.used = p.used - Cardinality(S)
  /\ q.used <= p.used

LEMMA SoundPools ==
  ASSUME NEW p \in Sound
  PROVE  /\ p \in Pools
         /\ p.occupied \in SUBSET Slots /\ p.bulkFreed \in SUBSET Slots
         /\ p.warned \in SUBSET Slots
         /\ p.used \in 0 .. NSlots /\ p.peak \in 0 .. NSlots /\ p.perm \in 0 .. NSlots
         /\ p.frozen \in BOOLEAN /\ p.failed \in BOOLEAN
         /\ Cardinality(p.occupied) <= p.used /\ Cardinality(p.occupied) \in Nat
         /\ p.alarms = Cardinality(p.warned)
BY SlotSets DEF Sound, Pools

\* One asn_delete(), of whatever slot.
LEMMA ReleaseOne ==
  ASSUME NEW p \in Sound, NEW s \in Slots
  PROVE  /\ Release(p, s) \in Sound
         /\ Release(p, s).occupied = p.occupied \ {s}
         /\ Release(p, s).bulkFreed = p.bulkFreed
         /\ Release(p, s).perm = p.perm /\ Release(p, s).frozen = p.frozen
         /\ Release(p, s).peak = p.peak /\ Release(p, s).failed = p.failed
         /\ s \in p.occupied \cup p.bulkFreed => Quiet(p, Release(p, s))
         /\ s \in p.occupied => Release(p, s).used = p.used - 1
         /\ Release(p, s).used <= p.used
<1> USE SoundPools
<1>1. CASE s \in p.occupied
  <2>1. /\ Release(p, s) \in Pools
        /\ Release(p, s) = [p EXCEPT !.occupied = p.occupied \ {s},
                                     !.used = p.used - 1]
        /\ Cardinality(Release(p, s).occupied) <= Release(p, s).used
    BY <1>1, ReleaseOccupied
  <2>2. /\ Release(p, s).warned = p.warned /\ Release(p, s).alarms = p.alarms
        /\ Release(p, s).occupied = p.occupied \ {s}
        /\ Release(p, s).used = p.used - 1
        /\ Release(p, s).bulkFreed = p.bulkFreed
        /\ Release(p, s).perm = p.perm /\ Release(p, s).frozen = p.frozen
        /\ Release(p, s).peak = p.peak /\ Release(p, s).failed = p.failed
    BY <2>1 DEF Pools
  <2>3. Release(p, s).used <= p.used
    BY <2>2
  <2> QED
    BY <1>1, <2>1, <2>2, <2>3 DEF Sound, Quiet
<1>2. CASE s \notin p.occupied /\ (s \in p.bulkFreed \/ s \in p.warned)
  <2>1. Release(p, s) = p
    BY <1>2 DEF Release
  <2> QED
    BY <1>2, <2>1 DEF Quiet
<1>3. CASE s \notin p.occupied /\ s \notin p.bulkFreed /\ s \notin p.warned
  <2>1. Release(p, s) = [p EXCEPT !.warned = p.warned \cup {s}, !.alarms = p.alarms + 1]
    BY <1>3 DEF Release
  <2>2. Cardinality(p.warned \cup {s}) = p.alarms + 1
    BY <1>3, AddRemoveSlot
  <2>3. p.warned \cup {s} \in SUBSET Slots /\ p.alarms + 1 \in 0 .. NSlots
    <3>1. p.warned \cup {s} \in SUBSET Slots
      OBVIOUS
    <3>2. /\ Cardinality(p.warned \cup {s}) \in Nat
          /\ Cardinality(p.warned \cup {s}) <= NSlots
      BY <3>1, SlotSets
    <3> QED
      BY <2>2, <3>1, <3>2, NSlotsAssumption
  <2>4. /\ Release(p, s) \in Pools
        /\ Release(p, s).warned = p.warned \cup {s}
        /\ Release(p, s).alarms = p.alarms + 1
        /\ Release(p, s).occupied = p.occupied
        /\ Release(p, s).used = p.used
        /\ Release(p, s).bulkFreed = p.bulkFreed
        /\ Release(p, s).perm = p.perm /\ Release(p, s).frozen = p.frozen
        /\ Release(p, s).peak = p.peak /\ Release(p, s).failed = p.failed
    BY <2>1, <2>3 DEF Pools
  <2>5. Release(p, s).used <= p.used
    BY <2>4
  <2> QED
    BY <1>3, <2>2, <2>4, <2>5 DEF Sound
<1> QED
  BY <1>1, <1>2, <1>3

\* asn_delete() of a set of slots, whatever they hold.
LEMMA ReleaseAllReleases ==
  ASSUME NEW p \in Sound, NEW S \in SUBSET Slots
  PROVE  Released(p, S, ReleaseAll(p, S))
<1> DEFINE pick == [T \in SUBSET S |-> CHOOSE s \in T : TRUE]
           step == [s \in S |-> [q \in Sound |-> Release(q, s)]]
           Body(iter) == [T \in SUBSET S |->
                            IF T = {} THEN p
                            ELSE Release(iter[T \ {CHOOSE s \in T : TRUE}],
                                         CHOOSE s \in T : TRUE)]
           it == CHOOSE iter : iter = Body(iter)
<1>1. IsFiniteSet(S) /\ Picks(S, pick)
  BY SlotSets DEF Picks
<1>2. step \in [S -> [Sound -> Sound]]
  BY ReleaseOne
<1>3. PICK f : IsFold(f, S, Sound, pick, p, step)
  <2> HIDE DEF pick, step
  <2> QED
    BY <1>1, <1>2, SubsetIteration
<1>4. f = Body(f)
  <2>1. ASSUME NEW T \in SUBSET S, T # {}
        PROVE  step[pick[T]][f[T \ {pick[T]}]] = Release(f[T \ {pick[T]}], pick[T])
    <3>1. pick[T] \in S /\ f[T \ {pick[T]}] \in Sound
      BY <1>1, <1>3, <2>1 DEF Picks, IsFold
    <3> HIDE DEF pick
    <3> QED
      BY <3>1
  <2>2. f = [T \in SUBSET S |->
               IF T = {} THEN p ELSE Release(f[T \ {pick[T]}], pick[T])]
    <3> HIDE DEF pick, step
    <3> QED
      BY <1>3, <2>1 DEF IsFold
  <2> QED
    BY <2>2
<1>5. it = Body(it)
  <2> HIDE DEF Body
  <2> QED
    BY <1>4
<1>6. ReleaseAll(p, S) = it[S]
  BY DEF ReleaseAll, FoldSet, MapThenFoldSet
<1> DEFINE G == {T \in SUBSET S : Released(p, T, it[T])}
<1>7. \A T \in SUBSET S : T # {} => it[T] = Release(it[T \ {pick[T]}], pick[T])
  BY <1>5
<1>8. it[{}] = p
  BY <1>5
<1> HIDE DEF it, pick
<1>9. {} \in G
  BY <1>8, FS_EmptySet, SoundPools DEF Released, Quiet
<1>10. ASSUME NEW T \in SUBSET S, T # {}, T \ {pick[T]} \in G
       PROVE  T \in G
  <2> DEFINE x == pick[T]
             R == T \ {x}
             q == it[R]
  <2>1. x \in T /\ Cardinality(T) = Cardinality(R) + 1
        /\ Cardinality(R) \in Nat /\ Cardinality(T) \in Nat
    BY <1>1, <1>10, PickedAway
  <2>2. Released(p, R, q) /\ it[T] = Release(q, x)
    BY <1>7, <1>10
  <2> HIDE DEF x, q
  <2>3. q \in Sound /\ x \in Slots /\ T = R \cup {x} /\ x \notin R
    BY <2>1, <2>2 DEF Released
  <2> HIDE DEF R
  <2>4. T \subseteq p.occupied => it[T].used = p.used - Cardinality(T)
    <3> SUFFICES ASSUME T \subseteq p.occupied
                 PROVE  it[T].used = p.used - Cardinality(T)
      OBVIOUS
    <3>1. q.used = p.used - Cardinality(R) /\ x \in q.occupied
      BY <2>1, <2>2, <2>3 DEF Released
    <3>2. it[T].used = q.used - 1
      BY <2>2, <2>3, <3>1, ReleaseOne
    <3>3. p.used \in Int
      BY SoundPools
    <3> QED
      BY <2>1, <3>1, <3>2, <3>3
  <2>5. T \subseteq p.occupied \cup p.bulkFreed => Quiet(p, it[T])
    <3> SUFFICES ASSUME T \subseteq p.occupied \cup p.bulkFreed
                 PROVE  Quiet(p, it[T])
      OBVIOUS
    <3>1. Quiet(p, q) /\ x \in q.occupied \cup q.bulkFreed
      BY <2>1, <2>2, <2>3 DEF Released
    <3>2. Quiet(q, it[T])
      BY <2>2, <2>3, <3>1, ReleaseOne
    <3> QED
      BY <3>1, <3>2 DEF Quiet
  <2>6. /\ it[T] \in Sound
        /\ it[T].occupied = q.occupied \ {x}
        /\ it[T].bulkFreed = q.bulkFreed
        /\ it[T].perm = q.perm /\ it[T].frozen = q.frozen
        /\ it[T].peak = q.peak /\ it[T].failed = q.failed
    BY <2>2, <2>3, ReleaseOne
  <2>7. q.occupied \ {x} = p.occupied \ T
    BY <2>2, <2>3 DEF Released
  <2>8. it[T].used <= p.used
    <3>1. it[T].used <= q.used /\ q.used <= p.used
      BY <2>2, <2>3, ReleaseOne DEF Released
    <3>2. it[T].used \in Int /\ q.used \in Int /\ p.used \in Int
      BY <2>3, <2>6, SoundPools
    <3> QED
      BY <3>1, <3>2
  <2> QED
    BY <2>2, <2>4, <2>5, <2>6, <2>7, <2>8 DEF Released
<1>11. SUBSET S \subseteq G
  <2> HIDE DEF G
  <2> QED
    BY <1>1, <1>9, <1>10, SubsetInduction
<1> QED
  BY <1>6, <1>11

-----------------------------------------------------------------------------
(* asn_new<>(), and the steps of a build.                                   *)

\* A successful asn_new<>() takes the lowest free slot.
LEMMA AllocTakes ==
  ASSUME NEW p \in Sound, CanAlloc(p)
  PROVE  /\ Alloc(p) \in Sound
         /\ FirstFree(p) \in Slots \ p.occupied
         /\ \A s \in Slots \ p.occupied : FirstFree(p) <= s
         /\ Alloc(p).occupied = p.occupied \cup {FirstFree(p)}
         /\ Quiet(p, Alloc(p))
         /\ Alloc(p).used = p.used + 1 /\ p.used + 1 <= NSlots
         /\ Alloc(p).peak = (IF p.used + 1 > p.peak THEN p.used + 1 ELSE p.peak)
         /\ Alloc(p).failed = p.failed
<1> USE SoundPools
<1>1. /\ Alloc(p) \in Pools
      /\ FirstFree(p) \in Slots \ p.occupied
      /\ Alloc(p).occupied = p.occupied \cup {FirstFree(p)}
      /\ Quiet(p, Alloc(p))
      /\ Cardinality(Alloc(p).occupied) <= Alloc(p).used
  BY AllocKeeps DEF Quiet
<1>2. Alloc(p) = Occupy(p, FirstFree(p)) /\ p.used < NSlots /\ FreeSlots(p) # {}
  BY DEF Alloc, CanAlloc
<1>3. /\ Alloc(p).used = p.used + 1
      /\ Alloc(p).peak = (IF p.used + 1 > p.peak THEN p.used + 1 ELSE p.peak)
      /\ Alloc(p).failed = p.failed
  BY <1>2 DEF Occupy, Pools
<1>4. \A s \in FreeSlots(p) : FirstFree(p) <= s
  <2>1. FreeSlots(p) \subseteq Nat
    BY NSlotsAssumption DEF FreeSlots, Slots
  <2>2. \E s \in FreeSlots(p) : \A t \in FreeSlots(p) : s <= t
    BY <1>2, <2>1, LeastNat
  <2> QED
    BY <2>2 DEF FirstFree
<1>5. p.used + 1 <= NSlots
  BY <1>2, NSlotsAssumption
<1> QED
  BY <1>1, <1>3, <1>4, <1>5 DEF Sound, Quiet, FreeSlots

\* While the counter is below the pool's size, there is a slot to find.
LEMMA RoomToAlloc ==
  ASSUME NEW p \in Sound, p.used < NSlots
  PROVE  CanAlloc(p)
<1>1. FreeSlots(p) # {}
  <2> SUFFICES ASSUME FreeSlots(p) = {} PROVE FALSE
    OBVIOUS
  <2>1. p.occupied = Slots
    BY SoundPools DEF FreeSlots
  <2> QED
    BY <2>1, SlotSets, SoundPools, NSlotsAssumption
<1> QED
  BY <1>1 DEF CanAlloc

\* A failed one is only counted.
LEMMA AllocFails ==
  ASSUME NEW p \in Sound, ~CanAlloc(p)
  PROVE  /\ Alloc(p) \in Sound
         /\ Alloc(p).occupied = p.occupied
         /\ Quiet(p, Alloc(p))
<1> USE SoundPools
<1>1. Alloc(p) = [p EXCEPT !.failed = TRUE]
  BY DEF Alloc
<1>2. /\ Alloc(p) \in Pools
      /\ Alloc(p).occupied = p.occupied /\ Alloc(p).used = p.used
      /\ Quiet(p, Alloc(p))
  BY <1>1 DEF Pools, Quiet
<1> QED
  BY <1>2 DEF Sound, Quiet

Parts == {"root", "pdu", "list", "temp"}

Steps == {Node(part) : part \in Parts} \cup {Leaf(part) : part \in Parts}
           \cup {[kind |-> "drop", part |-> "temp"]}

Builds ==
  [pool : Sound, root : SUBSET Slots, pdu : SUBSET Slots, list : SUBSET Slots,
   temp : SUBSET Slots, ok : BOOLEAN, whole : BOOLEAN]

\* One step, case by case.
LEMMA StepTaken ==
  ASSUME NEW b \in Builds, NEW step \in Steps, b.ok, step.kind # "drop", CanAlloc(b.pool)
  PROVE  LET s == FirstFree(b.pool)
             c == BuildStep(b, step)
         IN  /\ c \in Builds
             /\ c.pool = Alloc(b.pool)
             /\ c.root = IF step.part = "root" THEN b.root \cup {s} ELSE b.root
             /\ c.pdu  = IF step.part = "pdu"  THEN b.pdu  \cup {s} ELSE b.pdu
             /\ c.list = IF step.part = "list" THEN b.list \cup {s} ELSE b.list
             /\ c.temp = IF step.part = "temp" THEN b.temp \cup {s} ELSE b.temp
             /\ c.ok /\ c.whole = b.whole
<1> DEFINE s == FirstFree(b.pool)
           c == BuildStep(b, step)
<1>1. c = [b EXCEPT !.pool = Alloc(b.pool), ![step.part] = b[step.part] \cup {s}]
  BY DEF BuildStep
<1>2. b.pool \in Sound
  BY DEF Builds
<1>3. Alloc(b.pool) \in Sound /\ s \in Slots
  BY <1>2, AllocTakes
<1>4. step.part \in Parts
  BY DEF Steps, Node, Leaf, Parts
<1> HIDE DEF s, c
<1> USE DEF Builds
<1>5. CASE step.part = "root"
  <2>1. c = [b EXCEPT !.pool = Alloc(b.pool), !.root = b.root \cup {s}]
    BY <1>1, <1>5
  <2>2. b.root \cup {s} \in SUBSET Slots
    BY <1>3
  <2>3. /\ c \in Builds /\ c.pool = Alloc(b.pool) /\ c.ok /\ c.whole = b.whole
        /\ c.root = b.root \cup {s}
        /\ c.pdu = b.pdu /\ c.list = b.list /\ c.temp = b.temp
    BY <1>3, <2>1, <2>2
  <2> QED
    BY <1>5, <2>3 DEF s, c
<1>6. CASE step.part = "pdu"
  <2>1. c = [b EXCEPT !.pool = Alloc(b.pool), !.pdu = b.pdu \cup {s}]
    BY <1>1, <1>6
  <2>2. b.pdu \cup {s} \in SUBSET Slots
    BY <1>3
  <2>3. /\ c \in Builds /\ c.pool = Alloc(b.pool) /\ c.ok /\ c.whole = b.whole
        /\ c.pdu = b.pdu \cup {s}
        /\ c.root = b.root /\ c.list = b.list /\ c.temp = b.temp
    BY <1>3, <2>1, <2>2
  <2> QED
    BY <1>6, <2>3 DEF s, c
<1>7. CASE step.part = "list"
  <2>1. c = [b EXCEPT !.pool = Alloc(b.pool), !.list = b.list \cup {s}]
    BY <1>1, <1>7
  <2>2. b.list \cup {s} \in SUBSET Slots
    BY <1>3
  <2>3. /\ c \in Builds /\ c.pool = Alloc(b.pool) /\ c.ok /\ c.whole = b.whole
        /\ c.list = b.list \cup {s}
        /\ c.root = b.root /\ c.pdu = b.pdu /\ c.temp = b.temp
    BY <1>3, <2>1, <2>2
  <2> QED
    BY <1>7, <2>3 DEF s, c
<1>8. CASE step.part = "temp"
  <2>1. c = [b EXCEPT !.pool = Alloc(b.pool), !.temp = b.temp \cup {s}]
    BY <1>1, <1>8
  <2>2. b.temp \cup {s} \in SUBSET Slots
    BY <1>3
  <2>3. /\ c \in Builds /\ c.pool = Alloc(b.pool) /\ c.ok /\ c.whole = b.whole
        /\ c.temp = b.temp \cup {s}
        /\ c.root = b.root /\ c.pdu = b.pdu /\ c.list = b.list
    BY <1>3, <2>1, <2>2
  <2> QED
    BY <1>8, <2>3 DEF s, c
<1> QED
  BY <1>4, <1>5, <1>6, <1>7, <1>8 DEF Parts

LEMMA StepMissing ==
  ASSUME NEW b \in Builds, NEW step \in Steps, b.ok, step.kind # "drop", ~CanAlloc(b.pool)
  PROVE  LET c == BuildStep(b, step)
         IN  /\ c \in Builds
             /\ c.root = b.root /\ c.pdu = b.pdu /\ c.list = b.list /\ c.temp = b.temp
             /\ step.kind = "leaf" => c.ok /\ c.pool = Alloc(b.pool)
             /\ step.kind # "leaf" => ~c.ok /\ c.pool = ReleaseAll(Alloc(b.pool), b.list)
<1> DEFINE c == BuildStep(b, step)
<1>1. b.pool \in Sound /\ b.list \in SUBSET Slots
  BY DEF Builds
<1>2. Alloc(b.pool) \in Sound
  BY <1>1, AllocFails
<1>3. ReleaseAll(Alloc(b.pool), b.list) \in Sound
  BY <1>1, <1>2, ReleaseAllReleases DEF Released
<1>4. c = Missing([b EXCEPT !.pool = Alloc(b.pool)], step)
  BY DEF BuildStep
<1> HIDE DEF c
<1>5. CASE step.kind = "leaf"
  <2>1. c = [b EXCEPT !.pool = Alloc(b.pool), !.whole = FALSE]
    BY <1>4, <1>5 DEF Missing, Builds
  <2> QED
    BY <1>2, <1>5, <2>1 DEF Builds, c
<1>6. CASE step.kind # "leaf"
  <2>1. c = [b EXCEPT !.pool = ReleaseAll(Alloc(b.pool), b.list), !.ok = FALSE]
    BY <1>4, <1>6 DEF Missing, Builds
  <2> QED
    BY <1>3, <1>6, <2>1 DEF Builds, c
<1> QED
  BY <1>5, <1>6

LEMMA StepDrops ==
  ASSUME NEW b \in Builds, NEW step \in Steps, b.ok, step.kind = "drop"
  PROVE  LET c == BuildStep(b, step)
         IN  /\ c \in Builds
             /\ c.pool = ReleaseAll(b.pool, b.temp)
             /\ c.root = b.root /\ c.pdu = b.pdu /\ c.list = b.list /\ c.temp = {}
             /\ c.ok /\ c.whole = b.whole
<1>1. BuildStep(b, step) = [b EXCEPT !.pool = ReleaseAll(b.pool, b.temp), !.temp = {}]
  BY DEF BuildStep
<1>2. ReleaseAll(b.pool, b.temp) \in Sound
  BY ReleaseAllReleases DEF Released, Builds
<1> QED
  BY <1>1, <1>2 DEF Builds

LEMMA StepOfBuild ==
  ASSUME NEW b \in Builds, NEW step \in Steps
  PROVE  BuildStep(b, step) \in Builds
<1>1. CASE ~b.ok
  BY <1>1 DEF BuildStep
<1>2. CASE b.ok
  BY <1>2, StepTaken, StepMissing, StepDrops
<1> QED
  BY <1>1, <1>2

-----------------------------------------------------------------------------
(* A whole script.                                                          *)

\* A run is the sequence of the builds after each of its steps.
Trace(g, b, script) ==
  /\ g \in [0 .. Len(script) -> Builds]
  /\ g[0] = b
  /\ \A i \in 1 .. Len(script) : g[i] = BuildStep(g[i - 1], script[i])

LEMMA RunSteps ==
  ASSUME NEW b \in Builds, NEW script \in Seq(Steps)
  PROVE  \E g : Trace(g, b, script) /\ Run(b, script) = g[Len(script)]
<1> DEFINE n == Len(script)
           step == [i \in 1 .. n |-> [c \in Builds |-> BuildStep(c, script[i])]]
           Body(iter) == [T \in SUBSET (1 .. n) |->
                            IF T = {} THEN b
                            ELSE BuildStep(iter[T \ {Max(T)}], script[Max(T)])]
           it == CHOOSE iter : iter = Body(iter)
<1>1. n \in Nat /\ DOMAIN script = 1 .. n /\ \A i \in 1 .. n : script[i] \in Steps
  OBVIOUS
<1>1a. n \in Nat
  OBVIOUS
<1> HIDE DEF n
<1>2. step \in [1 .. n -> [Builds -> Builds]]
  BY <1>1, StepOfBuild
<1>3. \A i \in 1 .. n, c \in Builds : step[i][c] = BuildStep(c, script[i])
  OBVIOUS
<1> HIDE DEF step
<1>4. PICK f : IsPositionFold(f, n, Builds, b, step)
  BY <1>1a, <1>2, PositionFold
<1>5. f = Body(f)
  <2>1. ASSUME NEW T \in SUBSET (1 .. n), T # {}
        PROVE  step[Max(T)][f[T \ {Max(T)}]]
                 = BuildStep(f[T \ {Max(T)}], script[Max(T)])
    <3>1. Max(T) \in 1 .. n
      BY <1>1, <2>1, LargestPosition
    <3>2. f[T \ {Max(T)}] \in Builds
      BY <1>4 DEF IsPositionFold
    <3> QED
      BY <1>3, <3>1, <3>2
  <2> QED
    BY <1>4, <2>1 DEF IsPositionFold
<1>6. it = Body(it)
  <2> HIDE DEF Body
  <2> QED
    BY <1>5
<1>7. Run(b, script) = it[1 .. n]
  BY <1>1 DEF Run, FoldLeft, MapThenFoldSet
<1>8. it[{}] = b /\ \A T \in SUBSET (1 .. n) :
                      T # {} => it[T] = BuildStep(it[T \ {Max(T)}], script[Max(T)])
  BY <1>6
<1> HIDE DEF it
<1>9. ASSUME NEW T \in SUBSET (1 .. n), T # {}, it[T \ {Max(T)}] \in Builds
      PROVE  it[T] = step[Max(T)][it[T \ {Max(T)}]]
  <2>1. Max(T) \in 1 .. n
    BY <1>1, <1>9, LargestPosition
  <2> QED
    BY <1>3, <1>8, <1>9, <2>1
<1>10. PICK g : Chain(g, n, Builds, b, step) /\ g[n] = it[1 .. n]
  <2>1. Folds(it, n, Builds, b, step)
    BY <1>8, <1>9 DEF Folds
  <2> QED
    BY <1>1a, <1>2, <2>1, FoldChain
<1>11. ASSUME NEW i \in 1 .. n PROVE g[i] = BuildStep(g[i - 1], script[i])
  <2>1. g[i - 1] \in Builds /\ g[i] = step[i][g[i - 1]]
    BY <1>1, <1>10 DEF Chain
  <2> QED
    BY <1>3, <2>1
<1> QED
  BY <1>7, <1>10, <1>11 DEF Trace, Chain, n

\* What the first step and each later one keep, a run keeps.
LEMMA RunKeeps ==
  ASSUME NEW b \in Builds, NEW script \in Seq(Steps), NEW V, b \in V,
         \A c \in V \cap Builds : \A i \in 1 .. Len(script) : BuildStep(c, script[i]) \in V
  PROVE  Run(b, script) \in V \cap Builds
<1>1. PICK g : Trace(g, b, script) /\ Run(b, script) = g[Len(script)]
  BY RunSteps
<1> DEFINE n == Len(script)
           J == {i \in Nat : i <= n => g[i] \in V}
<1>2. n \in Nat
  OBVIOUS
<1>3. /\ g \in [0 .. n -> Builds]
      /\ g[0] = b
      /\ \A i \in 1 .. n : g[i] = BuildStep(g[i - 1], script[i])
  BY <1>1 DEF Trace
<1> HIDE DEF n
<1>4. 0 \in J
  BY <1>3
<1>5. ASSUME NEW i \in Nat, i \in J PROVE i + 1 \in J
  <2> SUFFICES ASSUME i + 1 <= n PROVE g[i + 1] \in V
    OBVIOUS
  <2>1. i + 1 \in 1 .. n /\ (i + 1) - 1 = i /\ g[i] \in V /\ g[i] \in Builds
    BY <1>2, <1>3, <1>5
  <2> QED
    BY <1>3, <2>1 DEF n
<1>6. Nat \subseteq J
  <2> HIDE DEF J
  <2> QED
    BY <1>4, <1>5, SetInduction
<1>7. g[n] \in V /\ g[n] \in Builds
  BY <1>2, <1>3, <1>6
<1> QED
  BY <1>1, <1>7 DEF n

\* The script of one varbind.
LEMMA CallbackScript == CallbackVarBind \in Seq(Steps)
<1>1. /\ Node("list") \in Steps /\ Leaf("list") \in Steps /\ Leaf("temp") \in Steps
      /\ [kind |-> "drop", part |-> "temp"] \in Steps
  BY DEF Steps, Parts
<1>2. ClonedValue("list") \in Seq(Steps)
  BY <1>1 DEF ClonedValue
<1>3. <<Node("list"), Leaf("list")>> \in Seq(Steps)
  BY <1>1
<1> QED
  BY <1>2, <1>3 DEF CallbackVarBind

\* The varbinds of a build are added one after the other.
LEMMA VarBindSteps ==
  ASSUME NEW b \in Builds, NEW k \in Nat
  PROVE  \E g \in [0 .. k -> Builds] :
           /\ g[0] = b
           /\ \A i \in 1 .. k : g[i] = Run(g[i - 1], CallbackVarBind)
           /\ AddVarBinds(b, k) = g[k]
<1> DEFINE more == [i \in Nat |-> [c \in Builds |-> Run(c, CallbackVarBind)]]
           Body(with) == [i \in 0 .. k |->
                            IF i = 0 THEN b ELSE Run(with[i - 1], CallbackVarBind)]
           it == CHOOSE with : with = Body(with)
<1>1. CallbackVarBind \in Seq(Steps)
  BY CallbackScript
<1>2. \A c \in Builds : Run(c, CallbackVarBind) \in Builds
  <2> SUFFICES ASSUME NEW c \in Builds PROVE Run(c, CallbackVarBind) \in Builds
    OBVIOUS
  <2>1. PICK g : Trace(g, c, CallbackVarBind)
                 /\ Run(c, CallbackVarBind) = g[Len(CallbackVarBind)]
    BY <1>1, RunSteps
  <2>2. Len(CallbackVarBind) \in Nat
    BY <1>1
  <2> QED
    BY <2>1, <2>2 DEF Trace
<1>3. PICK f : Iterates(f, Builds, b, more)
  <2>1. more \in [Nat -> [Builds -> Builds]]
    BY <1>2
  <2> HIDE DEF more
  <2> QED
    BY <2>1, Iteration, Zenon
<1>4. /\ f \in [Nat -> Builds] /\ f[0] = b
      /\ \A i \in Nat : f[i + 1] = Run(f[i], CallbackVarBind)
  BY <1>3 DEF Iterates
<1> DEFINE h == [i \in 0 .. k |-> f[i]]
<1>5. h = Body(h)
  <2>1. ASSUME NEW i \in 0 .. k, i # 0
        PROVE  f[i] = Run(h[i - 1], CallbackVarBind)
    <3>1. i - 1 \in Nat /\ i - 1 \in 0 .. k /\ (i - 1) + 1 = i
      BY <2>1
    <3> QED
      BY <1>4, <3>1
  <2> QED
    BY <1>4, <2>1
<1>6. it = Body(it)
  <2> HIDE DEF Body, h
  <2> QED
    BY <1>5
<1>7. AddVarBinds(b, k) = it[k]
  BY DEF AddVarBinds
<1>8. /\ DOMAIN it = 0 .. k /\ it = [i \in 0 .. k |-> it[i]]
      /\ it[0] = b
      /\ \A i \in 1 .. k : it[i] = Run(it[i - 1], CallbackVarBind)
  <2>1. it = [i \in 0 .. k |-> IF i = 0 THEN b ELSE Run(it[i - 1], CallbackVarBind)]
    BY <1>6
  <2> HIDE DEF it
  <2>2. 0 \in 0 .. k /\ \A i \in 1 .. k : i \in 0 .. k /\ i # 0
    OBVIOUS
  <2> QED
    BY <2>1, <2>2
<1> HIDE DEF it
<1> DEFINE J == {i \in Nat : i <= k => it[i] \in Builds}
<1>9. 0 \in J
  BY <1>8
<1>10. ASSUME NEW i \in Nat, i \in J PROVE i + 1 \in J
  <2> SUFFICES ASSUME i + 1 <= k PROVE it[i + 1] \in Builds
    OBVIOUS
  <2>1. i + 1 \in 1 .. k /\ (i + 1) - 1 = i /\ it[i] \in Builds
    BY <1>10
  <2> QED
    BY <1>2, <1>8, <2>1
<1>11. Nat \subseteq J
  <2> HIDE DEF J
  <2> QED
    BY <1>9, <1>10, SetInduction
<1>12. it \in [0 .. k -> Builds]
  BY <1>8, <1>11
<1> QED
  BY <1>7, <1>8, <1>12

-----------------------------------------------------------------------------
(* What a build does to the pool it starts from: nothing of what it finds.  *)

\* b is a build in progress that started from pool p.
Building(p, b) ==
  /\ b \in Builds
  /\ Quiet(p, b.pool)
  /\ p.occupied \subseteq b.pool.occupied
  /\ (b.root \cup b.pdu \cup b.list \cup b.temp) \cap p.occupied = {}
  /\ b.root \cup b.pdu \cup b.temp \subseteq b.pool.occupied
  /\ b.ok => b.list \subseteq b.pool.occupied
  /\ b.root \cap b.pdu = {} /\ b.root \cap b.list = {} /\ b.root \cap b.temp = {}
  /\ b.pdu \cap b.list = {} /\ b.pdu \cap b.temp = {} /\ b.list \cap b.temp = {}

LEMMA NewBuilding ==
  ASSUME NEW p \in Sound
  PROVE  Building(p, NewBuild(p))
BY DEF Building, NewBuild, Builds, Quiet

LEMMA BuildingStep ==
  ASSUME NEW p \in Sound, NEW b, Building(p, b), NEW step \in Steps
  PROVE  /\ Building(p, BuildStep(b, step))
         /\ b.root \subseteq BuildStep(b, step).root
<1> DEFINE c == BuildStep(b, step)
<1>1. /\ b \in Builds /\ b.pool \in Sound
      /\ b.root \in SUBSET Slots /\ b.pdu \in SUBSET Slots
      /\ b.list \in SUBSET Slots /\ b.temp \in SUBSET Slots
  BY DEF Building, Builds
<1>2. CASE ~b.ok
  BY <1>2 DEF BuildStep
<1>3. CASE b.ok /\ step.kind = "drop"
  <2>1. /\ c \in Builds
        /\ c.pool = ReleaseAll(b.pool, b.temp)
        /\ c.root = b.root /\ c.pdu = b.pdu /\ c.list = b.list /\ c.temp = {}
        /\ c.ok
    BY <1>1, <1>3, StepDrops
  <2>2. Released(b.pool, b.temp, c.pool)
    BY <1>1, <2>1, ReleaseAllReleases
  <2> HIDE DEF c
  <2>3. Quiet(b.pool, c.pool) /\ c.pool.occupied = b.pool.occupied \ b.temp
    BY <2>2 DEF Released, Building
  <2> QED
    BY <1>3, <2>1, <2>3 DEF Building, Quiet, c
<1>4. CASE b.ok /\ step.kind # "drop" /\ CanAlloc(b.pool)
  <2> DEFINE s == FirstFree(b.pool)
  <2>1. /\ c \in Builds
        /\ c.pool = Alloc(b.pool)
        /\ c.root = IF step.part = "root" THEN b.root \cup {s} ELSE b.root
        /\ c.pdu  = IF step.part = "pdu"  THEN b.pdu  \cup {s} ELSE b.pdu
        /\ c.list = IF step.part = "list" THEN b.list \cup {s} ELSE b.list
        /\ c.temp = IF step.part = "temp" THEN b.temp \cup {s} ELSE b.temp
        /\ c.ok
    BY <1>1, <1>4, StepTaken
  <2>2. /\ s \in Slots /\ s \notin b.pool.occupied
        /\ c.pool.occupied = b.pool.occupied \cup {s}
        /\ Quiet(b.pool, c.pool)
    BY <1>1, <1>4, <2>1, AllocTakes
  <2>3. Quiet(p, c.pool)
    BY <2>2 DEF Building, Quiet
  <2> HIDE DEF c, s
  <2>4. /\ s \notin p.occupied
        /\ s \notin b.root /\ s \notin b.pdu /\ s \notin b.list /\ s \notin b.temp
    BY <1>4, <2>2 DEF Building
  <2>5. step.part \in Parts
    BY DEF Steps, Node, Leaf, Parts
  <2>6. CASE step.part = "root"
    BY <1>4, <2>1, <2>2, <2>3, <2>4, <2>6 DEF Building, c
  <2>7. CASE step.part = "pdu"
    BY <1>4, <2>1, <2>2, <2>3, <2>4, <2>7 DEF Building, c
  <2>8. CASE step.part = "list"
    BY <1>4, <2>1, <2>2, <2>3, <2>4, <2>8 DEF Building, c
  <2>9. CASE step.part = "temp"
    BY <1>4, <2>1, <2>2, <2>3, <2>4, <2>9 DEF Building, c
  <2> QED
    BY <2>5, <2>6, <2>7, <2>8, <2>9 DEF Parts
<1>5. CASE b.ok /\ step.kind # "drop" /\ ~CanAlloc(b.pool)
  <2>1. /\ c \in Builds
        /\ c.root = b.root /\ c.pdu = b.pdu /\ c.list = b.list /\ c.temp = b.temp
        /\ step.kind = "leaf" => c.ok /\ c.pool = Alloc(b.pool)
        /\ step.kind # "leaf" => ~c.ok /\ c.pool = ReleaseAll(Alloc(b.pool), b.list)
    BY <1>1, <1>5, StepMissing
  <2>2. /\ Alloc(b.pool) \in Sound /\ Alloc(b.pool).occupied = b.pool.occupied
        /\ Quiet(b.pool, Alloc(b.pool))
    BY <1>1, <1>5, AllocFails
  <2>3. CASE step.kind = "leaf"
    BY <1>5, <2>1, <2>2, <2>3 DEF Building, Quiet
  <2>4. CASE step.kind # "leaf"
    <3>1. Released(Alloc(b.pool), b.list, c.pool)
      BY <1>1, <2>1, <2>2, <2>4, ReleaseAllReleases
    <3> HIDE DEF c
    <3>2. Quiet(Alloc(b.pool), c.pool) /\ c.pool.occupied = b.pool.occupied \ b.list
      BY <1>5, <2>2, <3>1 DEF Released, Building
    <3>3. Quiet(p, c.pool)
      BY <2>2, <3>2 DEF Building, Quiet
    <3> QED
      BY <1>5, <2>1, <2>4, <3>2, <3>3 DEF Building, c
  <2> QED
    BY <2>3, <2>4
<1> QED
  BY <1>2, <1>3, <1>4, <1>5

LEMMA BuildingRun ==
  ASSUME NEW p \in Sound, NEW b, Building(p, b), NEW script \in Seq(Steps)
  PROVE  /\ Building(p, Run(b, script))
         /\ b.root \subseteq Run(b, script).root
<1> DEFINE V == {c \in Builds : Building(p, c) /\ b.root \subseteq c.root}
<1>1. b \in V /\ b \in Builds
  BY DEF Building
<1>2. ASSUME NEW c \in V \cap Builds, NEW i \in 1 .. Len(script)
      PROVE  BuildStep(c, script[i]) \in V
  <2>1. script[i] \in Steps
    OBVIOUS
  <2>2. Building(p, BuildStep(c, script[i])) /\ c.root \subseteq BuildStep(c, script[i]).root
    BY <2>1, BuildingStep
  <2> QED
    BY <2>2 DEF Building
<1>3. Run(b, script) \in V \cap Builds
  <2> HIDE DEF V
  <2> QED
    BY <1>1, <1>2, RunKeeps
<1> QED
  BY <1>3

LEMMA BuildingVarBinds ==
  ASSUME NEW p \in Sound, NEW b, Building(p, b), NEW k \in Nat
  PROVE  /\ Building(p, AddVarBinds(b, k))
         /\ b.root \subseteq AddVarBinds(b, k).root
<1>1. PICK g \in [0 .. k -> Builds] :
           /\ g[0] = b
           /\ \A i \in 1 .. k : g[i] = Run(g[i - 1], CallbackVarBind)
           /\ AddVarBinds(b, k) = g[k]
  BY VarBindSteps DEF Building
<1>2. CallbackVarBind \in Seq(Steps)
  BY CallbackScript
<1> DEFINE J == {i \in Nat : i <= k => Building(p, g[i]) /\ b.root \subseteq g[i].root}
<1>3. 0 \in J
  BY <1>1
<1>4. ASSUME NEW i \in Nat, i \in J PROVE i + 1 \in J
  <2> SUFFICES ASSUME i + 1 <= k
               PROVE  Building(p, g[i + 1]) /\ b.root \subseteq g[i + 1].root
    OBVIOUS
  <2>1. i + 1 \in 1 .. k /\ (i + 1) - 1 = i
        /\ Building(p, g[i]) /\ b.root \subseteq g[i].root
    BY <1>4
  <2>2. g[i + 1] = Run(g[i], CallbackVarBind)
    BY <1>1, <2>1
  <2> QED
    BY <1>2, <2>1, <2>2, BuildingRun
<1>5. Nat \subseteq J
  <2> HIDE DEF J
  <2> QED
    BY <1>3, <1>4, SetInduction
<1> QED
  BY <1>1, <1>5

\* A longer sequence begins like its front.
LEMMA FrontOfConcat ==
  ASSUME NEW S, NEW s \in Seq(S), NEW t \in Seq(S), 1 <= Len(s)
  PROVE  /\ s \o t \in Seq(S)
         /\ 1 <= Len(s \o t) /\ (s \o t)[1] = s[1]
OBVIOUS

\* Every script is one of steps and begins with the root.
LEMMA ScriptSteps ==
  ASSUME NEW n \in Notifications
  PROVE  /\ Script(n) \in Seq(Steps)
         /\ 1 <= Len(Script(n)) /\ Script(n)[1] = Node("root")
<1> DEFINE fill == IF n.version = 1 THEN FillTrapPdu ELSE FillPdu
           mandatory == IF n.version = 1 THEN << >> ELSE MandatoryVarBinds
<1>1. /\ Envelope \in Seq(Steps) /\ Len(Envelope) = 4 /\ Envelope[1] = Node("root")
      /\ FillTrapPdu \in Seq(Steps) /\ FillPdu \in Seq(Steps)
      /\ <<Node("list")>> \in Seq(Steps) /\ MandatoryVarBinds \in Seq(Steps)
      /\ << >> \in Seq(Steps)
  <2>1. \A part \in Parts : Node(part) \in Steps /\ Leaf(part) \in Steps
    BY DEF Steps
  <2>2. [kind |-> "drop", part |-> "temp"] \in Steps
    BY DEF Steps
  <2>3. "root" \in Parts /\ "pdu" \in Parts /\ "list" \in Parts /\ "temp" \in Parts
    BY DEF Parts
  <2> HIDE DEF Steps, Parts
  <2>4. ClonedValue("pdu") \in Seq(Steps) /\ ClonedValue("list") \in Seq(Steps)
    BY <2>1, <2>2, <2>3 DEF ClonedValue
  <2>5. /\ Envelope \in Seq(Steps) /\ Len(Envelope) = 4 /\ Envelope[1] = Node("root")
    BY <2>1, <2>3 DEF Envelope
  <2>6. FillTrapPdu \in Seq(Steps) /\ FillPdu \in Seq(Steps)
    BY <2>1, <2>3, <2>4 DEF FillTrapPdu, FillPdu
  <2>7. <<Node("list")>> \in Seq(Steps) /\ << >> \in Seq(Steps)
    BY <2>1, <2>3
  <2>8. MandatoryVarBinds \in Seq(Steps)
    BY <2>1, <2>3, <2>4 DEF MandatoryVarBinds
  <2> QED
    BY <2>5, <2>6, <2>7, <2>8
<1>2. fill \in Seq(Steps) /\ mandatory \in Seq(Steps)
  BY <1>1
<1>3. Script(n) = ((Envelope \o fill) \o <<Node("list")>>) \o mandatory
  BY DEF Script
<1> HIDE DEF fill, mandatory, Steps
<1>4. /\ Envelope \o fill \in Seq(Steps) /\ 1 <= Len(Envelope \o fill)
      /\ (Envelope \o fill)[1] = Node("root")
  <2>1. Envelope \in Seq(Steps) /\ 1 <= Len(Envelope)
    BY <1>1
  <2>2. /\ Envelope \o fill \in Seq(Steps) /\ 1 <= Len(Envelope \o fill)
        /\ (Envelope \o fill)[1] = Envelope[1]
    BY <1>2, <2>1, FrontOfConcat
  <2> QED
    BY <1>1, <2>2
<1>5. /\ (Envelope \o fill) \o <<Node("list")>> \in Seq(Steps)
      /\ 1 <= Len((Envelope \o fill) \o <<Node("list")>>)
      /\ ((Envelope \o fill) \o <<Node("list")>>)[1] = Node("root")
  BY <1>1, <1>4, FrontOfConcat
<1> DEFINE front == (Envelope \o fill) \o <<Node("list")>>
<1>6. front \in Seq(Steps) /\ 1 <= Len(front) /\ front[1] = Node("root")
  BY <1>5
<1> HIDE DEF front
<1>7. /\ front \o mandatory \in Seq(Steps) /\ 1 <= Len(front \o mandatory)
      /\ (front \o mandatory)[1] = Node("root")
  BY <1>2, <1>6, FrontOfConcat
<1> QED
  BY <1>3, <1>7 DEF front

\* The root takes the lowest free slot, and keeps it.
LEMMA RootFirst ==
  ASSUME NEW p \in Sound, CanAlloc(p), NEW script \in Seq(Steps),
         1 <= Len(script), script[1] = Node("root")
  PROVE  FirstFree(p) \in Run(NewBuild(p), script).root
<1> DEFINE n == Len(script)
           r == FirstFree(p)
<1>1. NewBuild(p) \in Builds /\ Building(p, NewBuild(p))
  BY NewBuilding DEF Building
<1>2. PICK g : Trace(g, NewBuild(p), script) /\ Run(NewBuild(p), script) = g[n]
  BY <1>1, RunSteps
<1>3. n \in Nat /\ 1 <= n /\ \A i \in 1 .. n : script[i] \in Steps
  OBVIOUS
<1>4. /\ g \in [0 .. n -> Builds]
      /\ g[0] = NewBuild(p)
      /\ \A i \in 1 .. n : g[i] = BuildStep(g[i - 1], script[i])
  BY <1>2 DEF Trace
<1> HIDE DEF n
<1> DEFINE J == {i \in Nat : i + 1 <= n => Building(p, g[i + 1]) /\ r \in g[i + 1].root}
<1>5. 0 \in J
  <2>1. 1 \in 1 .. n /\ 1 - 1 = 0
    BY <1>3
  <2>2. g[1] = BuildStep(NewBuild(p), script[1])
    BY <1>4, <2>1
  <2>3. /\ NewBuild(p).ok /\ NewBuild(p).pool = p /\ NewBuild(p).root = {}
    BY DEF NewBuild
  <2>4. script[1] \in Steps /\ script[1].kind # "drop" /\ script[1].part = "root"
    <3>1. Node("root").kind # "drop" /\ Node("root").part = "root"
      BY DEF Node
    <3> QED
      BY <1>3, <2>1, <3>1
  <2>5. g[1].root = NewBuild(p).root \cup {r}
    <3> DEFINE nb == NewBuild(p)
    <3>1. nb \in Builds /\ nb.ok /\ nb.pool = p /\ CanAlloc(nb.pool)
      BY <1>1, <2>3
    <3> DEFINE st == script[1]
    <3>2. st \in Steps /\ st.kind # "drop" /\ st.part = "root"
      BY <2>4
    <3> HIDE DEF nb, st
    <3>3. BuildStep(nb, st).root = nb.root \cup {FirstFree(nb.pool)}
      BY <3>1, <3>2, StepTaken
    <3> QED
      BY <2>2, <3>1, <3>3 DEF nb, st
  <2>6. Building(p, g[1])
    BY <1>1, <2>2, <2>4, BuildingStep
  <2> QED
    BY <2>5, <2>6
<1>6. ASSUME NEW i \in Nat, i \in J PROVE i + 1 \in J
  <2> SUFFICES ASSUME (i + 1) + 1 <= n
               PROVE  Building(p, g[(i + 1) + 1]) /\ r \in g[(i + 1) + 1].root
    OBVIOUS
  <2>1. (i + 1) + 1 \in 1 .. n /\ ((i + 1) + 1) - 1 = i + 1
        /\ Building(p, g[i + 1]) /\ r \in g[i + 1].root
    BY <1>3, <1>6
  <2>2. g[(i + 1) + 1] = BuildStep(g[i + 1], script[(i + 1) + 1])
    BY <1>4, <2>1
  <2>3. script[(i + 1) + 1] \in Steps
    BY <1>3, <2>1
  <2> HIDE DEF r
  <2> QED
    BY <2>1, <2>2, <2>3, BuildingStep
<1>7. Nat \subseteq J
  <2> HIDE DEF J
  <2> QED
    BY <1>5, <1>6, SetInduction
<1>8. n - 1 \in Nat /\ (n - 1) + 1 = n
  BY <1>3
<1>9. r \in g[n].root
  BY <1>7, <1>8
<1> QED
  BY <1>2, <1>9

Trees == [root : SUBSET Slots, nodes : SUBSET Slots, live : BOOLEAN]

\* _build_pdu_envelope() takes nothing that was there: the new tree lies in
\* slots that were free, below its root.
LEMMA BuildTakesFreeSlots ==
  ASSUME NEW p \in Sound, NEW n \in Notifications
  PROVE  LET b == Build(p, n)
         IN  /\ b.pool \in Sound /\ b.tree \in Trees
             /\ b.ok \in BOOLEAN /\ b.whole \in BOOLEAN
             /\ Quiet(p, b.pool)
             /\ p.occupied \subseteq b.pool.occupied
             /\ b.tree.root \subseteq b.tree.nodes
             /\ b.tree.nodes \subseteq b.pool.occupied \ p.occupied
             /\ \A r \in b.tree.root, x \in b.tree.nodes : r <= x
<1> DEFINE f == Run(NewBuild(p), Script(n))
           e == AddVarBinds(f, n.varbinds)
           b == Build(p, n)
<1>1. Building(p, f)
  BY NewBuilding, ScriptSteps, BuildingRun
<1>2. Building(p, e) /\ f.root \subseteq e.root
  <2>1. n.varbinds \in Nat
    BY DEF Notifications
  <2> HIDE DEF f
  <2> QED
    BY <1>1, <2>1, BuildingVarBinds
<1>3. CanAlloc(p) => FirstFree(p) \in e.root
  BY <1>2, ScriptSteps, RootFirst
<1>4. b = Built(p, e)
  BY DEF Build
<1> HIDE DEF e, f
<1>5. /\ b.pool = e.pool /\ b.ok = e.ok /\ b.whole = e.whole
      /\ b.tree = PacketOf(p, e)
  BY <1>4 DEF Built
<1> HIDE DEF b
<1>6. /\ e.pool \in Sound /\ e.ok \in BOOLEAN /\ e.whole \in BOOLEAN
      /\ e.root \in SUBSET Slots /\ e.pdu \in SUBSET Slots /\ e.list \in SUBSET Slots
  BY <1>2 DEF Building, Builds
<1>7. CASE ~CanAlloc(p)
  <2>1. b.tree = NoTree
    BY <1>5, <1>7 DEF PacketOf
  <2> QED
    BY <1>2, <1>5, <1>6, <2>1 DEF NoTree, Trees, Building, b
<1>8. CASE CanAlloc(p)
  <2> DEFINE N == IF e.ok THEN e.root \cup e.pdu \cup e.list ELSE e.root
  <2>1. b.tree = [root |-> {FirstFree(p)}, live |-> TRUE, nodes |-> N]
    BY <1>5, <1>8 DEF PacketOf
  <2>2. N \in SUBSET Slots /\ N \subseteq e.pool.occupied \ p.occupied /\ FirstFree(p) \in N
    BY <1>2, <1>3, <1>6, <1>8 DEF Building
  <2>3. \A x \in Slots \ p.occupied : FirstFree(p) <= x
    BY <1>8, AllocTakes
  <2> HIDE DEF N
  <2>4. b.tree \in Trees /\ b.tree.root = {FirstFree(p)} /\ b.tree.nodes = N
    BY <2>1, <2>2 DEF Trees
  <2> QED
    BY <1>2, <1>5, <1>6, <2>2, <2>3, <2>4 DEF Building, b
<1> QED
  BY <1>7, <1>8

-----------------------------------------------------------------------------
(* Destroying a tree, and sending.                                          *)

\* asn_delete() of a packet frees no slot but the tree's, and is silent while
\* they are the tree's own or were freed by a reset.
LEMMA DestroyReleases ==
  ASSUME NEW p \in Sound, NEW t \in Trees
  PROVE  LET q == Destroy(p, t)
         IN  /\ q \in Sound
             /\ q.perm = p.perm /\ q.frozen = p.frozen
             /\ q.peak = p.peak /\ q.failed = p.failed
             /\ q.bulkFreed = p.bulkFreed
             /\ q.occupied \subseteq p.occupied
             /\ p.occupied \ (t.root \cup t.nodes) \subseteq q.occupied
             /\ t.root \cup t.nodes \subseteq p.occupied \cup p.bulkFreed => Quiet(p, q)
             /\ t.root \subseteq p.occupied => q.occupied = p.occupied \ t.nodes
             /\ ~(t.root \subseteq p.occupied) => q.occupied = p.occupied \ t.root
             /\ q.used <= p.used
             /\ t.root \subseteq p.occupied /\ t.nodes \subseteq p.occupied
                  => q.used = p.used - Cardinality(t.nodes)
<1>1. t.root \in SUBSET Slots /\ t.nodes \in SUBSET Slots
  BY DEF Trees
<1>2. CASE t.root \subseteq p.occupied
  <2>1. Destroy(p, t) = ReleaseAll(p, t.nodes)
    BY <1>2 DEF Destroy
  <2>2. Released(p, t.nodes, Destroy(p, t))
    BY <1>1, <2>1, ReleaseAllReleases
  <2> QED
    BY <1>2, <2>2 DEF Released
<1>3. CASE ~(t.root \subseteq p.occupied)
  <2>1. Destroy(p, t) = ReleaseAll(p, t.root)
    BY <1>3 DEF Destroy
  <2>2. Released(p, t.root, Destroy(p, t))
    BY <1>1, <2>1, ReleaseAllReleases
  <2> QED
    BY <1>3, <2>2 DEF Released
<1> QED
  BY <1>2, <1>3

\* resetAll(), for sound pools.
LEMMA ResetSound ==
  ASSUME NEW p \in Sound
  PROVE  LET q == ResetAll(p)
         IN  /\ q \in Sound /\ q.frozen
             /\ p.frozen => q.perm = p.perm
             /\ ~p.frozen => q.perm = HighWater(p) /\ \A s \in p.occupied : s < q.perm
             /\ q.used = q.perm /\ q.peak = p.peak /\ q.failed = p.failed
             /\ q.occupied = {s \in p.occupied : s < q.perm}
             /\ q.occupied \subseteq p.occupied
             /\ p.occupied \subseteq q.occupied \cup q.bulkFreed
             /\ q.warned = p.warned /\ q.alarms = p.alarms
<1> DEFINE q == ResetAll(p)
<1>1. p \in Pools /\ Cardinality(p.occupied) <= p.used /\ p.occupied \in SUBSET Slots
  BY SoundPools
<1>2. /\ q \in Pools /\ q.frozen
      /\ p.frozen => q.perm = p.perm
      /\ ~p.frozen => q.perm = HighWater(p) /\ \A s \in p.occupied : s < q.perm
      /\ q.used = q.perm /\ q.peak = p.peak /\ q.failed = p.failed
      /\ q.occupied = {s \in p.occupied : s < q.perm}
      /\ q.bulkFreed = p.bulkFreed \cup {s \in p.occupied : s >= q.perm}
      /\ q.warned = p.warned /\ q.alarms = p.alarms
      /\ Cardinality(q.occupied) <= q.used
  BY <1>1, ResetKeeps
<1> HIDE DEF q
<1>3. q \in Sound
  BY <1>2, SoundPools DEF Sound
<1>4. p.occupied \subseteq q.occupied \cup q.bulkFreed
  <2>1. q.perm \in Int /\ \A s \in p.occupied : s \in Int
    BY <1>1, <1>2 DEF Pools, Slots
  <2> QED
    BY <1>2, <2>1
<1> QED
  BY <1>2, <1>3, <1>4 DEF q

\* sendTo(), from whatever the trap points to: the pool stays sound, nothing is
\* left in the trap, and of what the reset leaves, only the old tree goes.
LEMMA SendLeavesNothing ==
  ASSUME NEW p \in Sound, NEW t \in Trees, NEW n \in Notifications
  PROVE  LET s == SendTo(p, t, n)
             q == ResetAll(p)
         IN  /\ s.pool \in Sound /\ s.tree = NoTree /\ s.partial \in BOOLEAN
             /\ s.pool.frozen /\ s.pool.perm = q.perm
             /\ q.occupied \ (t.root \cup t.nodes) \subseteq s.pool.occupied
             /\ t.root \cup t.nodes \subseteq p.occupied
                  => s.pool.warned = p.warned /\ s.pool.alarms = p.alarms
<1> DEFINE q == ResetAll(p)
           u == AfterReset(p, t)
           d == Destroy(q, u)
           b == Build(d, n)
           e == Destroy(b.pool, b.tree)
<1>1. /\ q \in Sound /\ q.frozen
      /\ q.warned = p.warned /\ q.alarms = p.alarms
      /\ p.occupied \subseteq q.occupied \cup q.bulkFreed
  BY ResetSound
<1>2. u \in Trees /\ u.root = t.root /\ u.nodes = t.nodes
  BY DEF AfterReset, Trees
<1>3. SendTo(p, t, n) = Sent(b)
  BY DEF SendTo, BuildForSending
<1> HIDE DEF q, u
<1>4. /\ d \in Sound /\ d.perm = q.perm /\ d.frozen = q.frozen
      /\ q.occupied \ (t.root \cup t.nodes) \subseteq d.occupied
      /\ t.root \cup t.nodes \subseteq q.occupied \cup q.bulkFreed => Quiet(q, d)
  BY <1>1, <1>2, DestroyReleases
<1> HIDE DEF d
<1>5. /\ b.pool \in Sound /\ b.tree \in Trees
      /\ b.ok \in BOOLEAN /\ b.whole \in BOOLEAN
      /\ Quiet(d, b.pool)
      /\ d.occupied \subseteq b.pool.occupied
      /\ b.tree.root \subseteq b.tree.nodes
      /\ b.tree.nodes \subseteq b.pool.occupied \ d.occupied
  BY <1>4, BuildTakesFreeSlots
<1> HIDE DEF b
<1>6. /\ e \in Sound
      /\ b.pool.occupied \ (b.tree.root \cup b.tree.nodes) \subseteq e.occupied
      /\ Quiet(b.pool, e)
  BY <1>5, DestroyReleases
<1> HIDE DEF e
<1>7. /\ Sent(b).pool = e /\ Sent(b).tree = NoTree /\ Sent(b).partial \in BOOLEAN
  BY <1>5 DEF Sent, ReleasePoolState, e
<1>8. q.occupied \ (t.root \cup t.nodes) \subseteq e.occupied
  BY <1>4, <1>5, <1>6
<1>9. e.frozen /\ e.perm = q.perm
  BY <1>1, <1>4, <1>5, <1>6 DEF Quiet
<1>10. t.root \cup t.nodes \subseteq p.occupied => e.warned = p.warned /\ e.alarms = p.alarms
  BY <1>1, <1>4, <1>5, <1>6 DEF Quiet
<1> QED
  BY <1>3, <1>6, <1>7, <1>8, <1>9, <1>10 DEF q

-----------------------------------------------------------------------------
(* The parts of a tick.                                                     *)

\* Values are decoded into free slots, and what is there stays.
LEMMA AllocManyTakesFreeSlots ==
  ASSUME NEW p \in Sound, NEW n \in Nat
  PROVE  LET a == AllocMany(p, n)
         IN  /\ a.pool \in Sound /\ Quiet(p, a.pool)
             /\ p.occupied \subseteq a.pool.occupied
             /\ a.list \in SUBSET Slots
             /\ a.list \subseteq a.pool.occupied \ p.occupied
<1> DEFINE script == [i \in 1 .. n |-> Leaf("list")]
           V == {c \in Builds : Building(p, c) /\ c.ok}
           nb == NewBuild(p)
<1>1. Leaf("list") \in Steps /\ Leaf("list").kind = "leaf"
  BY DEF Steps, Leaf, Parts
<1>2. script \in Seq(Steps) /\ Len(script) = n /\ \A i \in 1 .. n : script[i] = Leaf("list")
  BY <1>1
<1> HIDE DEF script
<1>3. nb \in V /\ nb \in Builds
  BY NewBuilding DEF NewBuild, Building
<1>4. ASSUME NEW c \in V \cap Builds, NEW i \in 1 .. Len(script)
      PROVE  BuildStep(c, script[i]) \in V
  <2>1. c \in Builds /\ c.ok /\ Building(p, c) /\ script[i] = Leaf("list")
    BY <1>2, <1>4
  <2>2. BuildStep(c, Leaf("list")).ok /\ BuildStep(c, Leaf("list")) \in Builds
    BY <1>1, <2>1, StepTaken, StepMissing
  <2>3. Building(p, BuildStep(c, Leaf("list")))
    BY <1>1, <2>1, BuildingStep
  <2> QED
    BY <2>1, <2>2, <2>3
<1>5. Run(nb, script) \in V \cap Builds
  <2> HIDE DEF V, nb
  <2> QED
    BY <1>2, <1>3, <1>4, RunKeeps
<1>6. AllocMany(p, n) = Run(nb, script)
  BY DEF AllocMany, script
<1> HIDE DEF nb
<1> QED
  BY <1>5, <1>6 DEF Building, Builds

\* What is true at the start of the pass over the queue and kept by each retry
\* is true at its end.
LEMMA RetryFold ==
  ASSUME NEW p, NEW trees, NEW due \in SUBSET Traps, NEW V,
         [pool |-> p, tree |-> trees, partial |-> partial] \in V,
         \A a \in V : \A t \in Traps : Retry(a, t) \in V
  PROVE  RetryAll(p, trees, due) \in V
<1> DEFINE base == [pool |-> p, tree |-> trees, partial |-> partial]
           pick == [T \in SUBSET due |-> CHOOSE t \in T : TRUE]
           step == [t \in due |-> [a \in V |-> Retry(a, t)]]
           Body(iter) == [T \in SUBSET due |->
                            IF T = {} THEN base
                            ELSE Retry(iter[T \ {CHOOSE t \in T : TRUE}],
                                       CHOOSE t \in T : TRUE)]
           it == CHOOSE iter : iter = Body(iter)
<1>1. IsFiniteSet(due) /\ Picks(due, pick)
  BY TickAssumption, FS_Subset DEF Picks
<1>2. step \in [due -> [V -> V]]
  OBVIOUS
<1>3. base \in V
  OBVIOUS
<1>4. PICK f : IsFold(f, due, V, pick, base, step)
  <2> HIDE DEF pick, step, base
  <2> QED
    BY <1>1, <1>2, <1>3, SubsetIteration
<1>5. f = Body(f)
  <2>1. ASSUME NEW T \in SUBSET due, T # {}
        PROVE  step[pick[T]][f[T \ {pick[T]}]] = Retry(f[T \ {pick[T]}], pick[T])
    <3>1. pick[T] \in due /\ f[T \ {pick[T]}] \in V
      BY <1>1, <1>4, <2>1 DEF Picks, IsFold
    <3> HIDE DEF pick
    <3> QED
      BY <3>1
  <2>2. f = [T \in SUBSET due |->
               IF T = {} THEN base ELSE Retry(f[T \ {pick[T]}], pick[T])]
    <3> HIDE DEF pick, step, base
    <3> QED
      BY <1>4, <2>1 DEF IsFold
  <2> QED
    BY <2>2
<1>6. it = Body(it)
  <2> HIDE DEF Body
  <2> QED
    BY <1>5
<1>7. RetryAll(p, trees, due) = it[due]
  BY DEF RetryAll, FoldSet, MapThenFoldSet
<1>8. /\ it[{}] = base
      /\ \A T \in SUBSET due : T # {} => it[T] = Retry(it[T \ {pick[T]}], pick[T])
  BY <1>6
<1> HIDE DEF it, pick, base
<1> DEFINE G == {T \in SUBSET due : it[T] \in V}
<1>9. {} \in G
  BY <1>3, <1>8
<1>10. ASSUME NEW T \in SUBSET due, T # {}, T \ {pick[T]} \in G
       PROVE  T \in G
  <2>1. pick[T] \in Traps /\ it[T \ {pick[T]}] \in V
    BY <1>1, <1>10 DEF Picks
  <2> QED
    BY <1>8, <1>10, <2>1
<1>11. SUBSET due \subseteq G
  <2>1. \A T \in SUBSET due : T # {} /\ T \ {pick[T]} \in G => T \in G
    BY <1>10
  <2> HIDE DEF G
  <2> QED
    BY <1>1, <1>9, <2>1, SubsetInduction, SMTT(30)
<1>12. due \in SUBSET due
  OBVIOUS
<1> QED
  BY <1>7, <1>11, <1>12

\* Pools, pointers and the ghost during a pass over the queue.
Passes == [pool : Sound, tree : [Traps -> Trees], partial : BOOLEAN]

LEMMA RetryTypes ==
  ASSUME kind \in Fleets, NEW a \in Passes, NEW t \in Traps
  PROVE  /\ Retry(a, t) \in Passes
         /\ Retry(a, t).tree[t] = NoTree
         /\ \A u \in Traps \ {t} : Retry(a, t).tree[u] = AfterReset(a.pool, a.tree[u])
         /\ Retry(a, t).pool = SendTo(a.pool, a.tree[t], kind[t]).pool
<1> DEFINE s == SendTo(a.pool, a.tree[t], kind[t])
<1>1. a.pool \in Sound /\ a.tree \in [Traps -> Trees] /\ a.partial \in BOOLEAN
  BY DEF Passes
<1>2. kind[t] \in Notifications
  BY TickAssumption
<1>3. s.pool \in Sound /\ s.tree = NoTree /\ s.partial \in BOOLEAN
  BY <1>1, <1>2, SendLeavesNothing
<1>4. \A u \in Traps : AfterReset(a.pool, a.tree[u]) \in Trees
  BY <1>1 DEF AfterReset, Trees
<1>5. NoTree \in Trees
  BY DEF NoTree, Trees
<1>6. Retry(a, t) = Retried(a, t, s)
  BY DEF Retry
<1> HIDE DEF s
<1>7. [u \in Traps |-> IF u = t THEN s.tree ELSE AfterReset(a.pool, a.tree[u])]
        \in [Traps -> Trees]
  BY <1>3, <1>4, <1>5
<1>8. /\ Retried(a, t, s).pool = s.pool
      /\ Retried(a, t, s).tree
           = [u \in Traps |-> IF u = t THEN s.tree ELSE AfterReset(a.pool, a.tree[u])]
      /\ Retried(a, t, s) \in Passes
  BY <1>1, <1>3, <1>7 DEF Retried, Passes
<1> QED
  BY <1>3, <1>6, <1>8 DEF s

LEMMA PassTypes ==
  ASSUME kind \in Fleets, partial \in BOOLEAN,
         NEW p \in Sound, NEW trees \in [Traps -> Trees], NEW due \in SUBSET Traps
  PROVE  RetryAll(p, trees, due) \in Passes
<1>1. [pool |-> p, tree |-> trees, partial |-> partial] \in Passes
  BY DEF Passes
<1> QED
  BY <1>1, RetryFold, RetryTypes

-----------------------------------------------------------------------------
(* Types: they hold whatever the sketch does.                               *)

TickTypes == TypeOK /\ pool \in Sound

LEMMA TypedTrees ==
  /\ TypeOK <=> /\ kind \in Fleets /\ pool \in Pools /\ handlers \subseteq Slots
                /\ tree \in [Traps -> Trees] /\ pending \subseteq Traps
                /\ decoded \subseteq Slots /\ acking \in SUBSET Traps
                /\ partial \in BOOLEAN
  /\ NoTree \in Trees
  /\ \A p, t : t \in Trees => AfterReset(p, t) \in Trees
  /\ \A p : tree \in [Traps -> Trees] => TreesAfterReset(p) \in [Traps -> Trees]
  /\ kind \in Fleets => \A t \in Traps : kind[t] \in Notifications
BY TickAssumption DEF TypeOK, NoTree, Trees, AfterReset, TreesAfterReset

\* The pool after setup(): the handlers' slots, whose number is the baseline.
LEMMA AfterSetupSound ==
  /\ AfterSetup \in Sound /\ AfterSetup.occupied = 0 .. Handlers - 1
  /\ AfterSetup.warned = {} /\ ~AfterSetup.frozen
  /\ \A p \in Sound : p.occupied = 0 .. Handlers - 1 => HighWater(p) = Handlers
<1>1. Handlers \in Nat /\ Handlers >= 1 /\ Handlers <= NSlots /\ NSlots \in Nat
  BY TickAssumption, NSlotsAssumption
<1>2. 0 .. Handlers - 1 \in SUBSET Slots /\ Handlers \in 0 .. NSlots
  BY <1>1 DEF Slots
<1>3. Cardinality(0 .. Handlers - 1) = Handlers /\ Cardinality({}) = 0
  BY <1>1, FS_Interval, FS_EmptySet
<1>4. EmptyPool \in Pools
  BY NSlotsAssumption DEF EmptyPool, Pools
<1>5. /\ AfterSetup \in Pools /\ AfterSetup.occupied = 0 .. Handlers - 1
      /\ AfterSetup.warned = {} /\ AfterSetup.alarms = 0 /\ ~AfterSetup.frozen
      /\ AfterSetup.used = Handlers
  <2>1. EmptyPool.warned = {} /\ EmptyPool.alarms = 0 /\ ~EmptyPool.frozen
    BY DEF EmptyPool
  <2> QED
    BY <1>1, <1>2, <1>4, <2>1 DEF AfterSetup, Pools
<1>6. AfterSetup \in Sound
  <2>1. /\ Cardinality(AfterSetup.occupied) = AfterSetup.used
        /\ AfterSetup.alarms = Cardinality(AfterSetup.warned)
    BY <1>3, <1>5
  <2>2. AfterSetup.used <= AfterSetup.used
    BY <1>1, <1>5
  <2>3. AfterSetup \in Pools /\ Cardinality(AfterSetup.occupied) <= AfterSetup.used
    BY <1>5, <2>1, <2>2
  <2> QED
    BY <2>1, <2>3 DEF Sound
<1>7. ASSUME NEW p \in Sound, p.occupied = 0 .. Handlers - 1
      PROVE  HighWater(p) = Handlers
  <2>1. /\ HighWater(p) \in 0 .. NSlots
        /\ \A s \in p.occupied : s < HighWater(p)
        /\ HighWater(p) > 0 => HighWater(p) - 1 \in p.occupied
    BY SoundPools, HighWaterBounds
  <2>2. Handlers - 1 \in p.occupied
    BY <1>1, <1>7
  <2> QED
    BY <1>1, <1>7, <2>1, <2>2
<1> QED
  BY <1>5, <1>6, <1>7

LEMMA InitPools ==
  ASSUME Init
  PROVE  /\ pool \in Sound /\ pool.occupied = 0 .. Handlers - 1
         /\ pool.warned = {}
         /\ pool.frozen => pool.perm = Handlers
         /\ ~pool.frozen => pool.perm = 0
<1>1. CASE pool = AfterSetup
  <2>1. AfterSetup.perm = 0
    BY DEF AfterSetup, EmptyPool
  <2> QED
    BY <1>1, <2>1, AfterSetupSound
<1>2. CASE pool = FreezePermCount(AfterSetup)
  <2> DEFINE a == AfterSetup
  <2>1. a \in Sound /\ a \in Pools /\ Cardinality(a.occupied) <= a.used
        /\ a.alarms = Cardinality(a.warned)
        /\ a.occupied = 0 .. Handlers - 1 /\ a.warned = {} /\ HighWater(a) = Handlers
    BY AfterSetupSound, SoundPools
  <2> HIDE DEF a
  <2>2. LET q == FreezePermCount(a)
        IN  /\ q \in Pools /\ q.frozen /\ q.occupied = a.occupied
            /\ q.warned = a.warned /\ q.alarms = a.alarms /\ q.perm = HighWater(a)
            /\ Cardinality(q.occupied) <= q.used
    BY <2>1, FreezeKeeps
  <2> QED
    BY <1>2, <2>1, <2>2 DEF Sound, a
<1> QED
  BY <1>1, <1>2 DEF Init

LEMMA InitTypes == Init => TickTypes
<1> SUFFICES ASSUME Init PROVE TickTypes
  OBVIOUS
<1>1. pool \in Sound /\ pool \in Pools
  BY InitPools, SoundPools
<1>2. handlers \subseteq Slots
  BY TickAssumption, NSlotsAssumption DEF Init, Slots
<1>3. tree \in [Traps -> Trees]
  BY TypedTrees DEF Init
<1> QED
  BY <1>1, <1>2, <1>3, TypedTrees DEF Init, TickTypes

\* A send that has built its tree: every exit leaves types behind.
LEMMA SendTypes ==
  ASSUME TickTypes, NEW t \in Traps, QueueAndSendTrap(t)
  PROVE  TickTypes'
<1> DEFINE d == Destroy(pool, tree[t])
           b == BuildForSending(pool, tree[t], kind[t])
           sent == SendTo(b.pool, b.tree, kind[t])
<1>1. /\ pool \in Sound /\ tree \in [Traps -> Trees] /\ pending \subseteq Traps
      /\ partial \in BOOLEAN /\ kind[t] \in Notifications
  BY TypedTrees DEF TickTypes
<1>2. d \in Sound
  BY <1>1, DestroyReleases
<1>3. b.pool \in Sound /\ b.tree \in Trees
  <2>1. b = Build(d, kind[t])
    BY DEF BuildForSending
  <2> HIDE DEF b, d
  <2> QED
    BY <1>1, <1>2, <2>1, BuildTakesFreeSlots
<1>4. /\ SendBuildFails(t, b) \/ SendFindsQueueFull(t, b) \/ SendGoesOut(t, b, sent)
      /\ UNCHANGED <<kind, handlers, decoded, acking>>
  BY DEF QueueAndSendTrap
<1> HIDE DEF b, d
<1>5. sent.pool \in Sound /\ sent.tree = NoTree /\ sent.partial \in BOOLEAN
  BY <1>1, <1>3, SendLeavesNothing
<1>6. Destroy(b.pool, b.tree) \in Sound
  BY <1>3, DestroyReleases
<1> HIDE DEF sent
<1>7. CASE SendBuildFails(t, b)
  <2>1. pool' \in Sound /\ tree' \in [Traps -> Trees] /\ UNCHANGED <<pending, partial>>
    BY <1>1, <1>6, <1>7, TypedTrees DEF SendBuildFails, ReleasePoolState
  <2> QED
    BY <1>4, <2>1, SoundPools DEF TickTypes, TypeOK, Trees
<1>8. CASE SendFindsQueueFull(t, b)
  <2>1. /\ pool' \in Sound /\ tree' \in [Traps -> Trees] /\ pending' \subseteq Traps
        /\ UNCHANGED partial
    BY <1>1, <1>3, <1>8 DEF SendFindsQueueFull
  <2> QED
    BY <1>4, <2>1, SoundPools DEF TickTypes, TypeOK, Trees
<1>9. CASE SendGoesOut(t, b, sent)
  <2>1. TreesAfterReset(b.pool) \in [Traps -> Trees] /\ NoTree \in Trees
    BY <1>1, TypedTrees
  <2>2. /\ pool' \in Sound /\ tree' \in [Traps -> Trees] /\ pending' \subseteq Traps
        /\ partial' \in BOOLEAN
    BY <1>1, <1>5, <1>9, <2>1 DEF SendGoesOut
  <2> QED
    BY <1>4, <2>2, SoundPools DEF TickTypes, TypeOK, Trees
<1> QED
  BY <1>4, <1>7, <1>8, <1>9

\* The pass over the queue, whatever it starts from.
LEMMA QueueTypes ==
  ASSUME kind \in Fleets, partial \in BOOLEAN,
         NEW p \in Sound, NEW trees \in [Traps -> Trees], NEW waiting \in SUBSET Traps,
         HandleInformQueue(p, trees, waiting)
  PROVE  /\ pool' \in Sound /\ tree' \in [Traps -> Trees]
         /\ pending' \subseteq Traps /\ partial' \in BOOLEAN
<1>1. PICK due \in SUBSET waiting : \E over \in SUBSET (waiting \ due) :
        /\ pool' = RetryAll(p, trees, due).pool
        /\ tree' = RetryAll(p, trees, due).tree
        /\ partial' = RetryAll(p, trees, due).partial
        /\ pending' = waiting \ over
  BY DEF HandleInformQueue
<1>2. RetryAll(p, trees, due) \in Passes
  BY PassTypes
<1> QED
  BY <1>1, <1>2 DEF Passes

LEMMA StepTypes == TickTypes /\ [Next]_vars => TickTypes'
<1> SUFFICES ASSUME TickTypes, [Next]_vars PROVE TickTypes'
  OBVIOUS
<1>1. /\ pool \in Sound /\ tree \in [Traps -> Trees] /\ pending \subseteq Traps
      /\ partial \in BOOLEAN /\ kind \in Fleets /\ handlers \subseteq Slots
      /\ decoded \subseteq Slots /\ acking \in SUBSET Traps
  BY TypedTrees DEF TickTypes
<1>2. ASSUME NEW t \in Traps, QueueAndSendTrap(t) PROVE TickTypes'
  BY <1>2, SendTypes
<1>3. ASSUME NEW t \in Traps, DestroyTrap(t) PROVE TickTypes'
  <2>1. pool' \in Sound
    BY <1>1, <1>3, DestroyReleases DEF DestroyTrap, ReleasePoolState
  <2>2. tree' \in [Traps -> Trees] /\ pending' \subseteq Traps
    BY <1>1, <1>3, TypedTrees DEF DestroyTrap
  <2> QED
    BY <1>1, <1>3, <2>1, <2>2, SoundPools DEF DestroyTrap, TickTypes, TypeOK, Trees
<1>4. ASSUME NEW s \in handlers, DestroyHandler(s) PROVE TickTypes'
  <2>1. pool' \in Sound /\ handlers' \subseteq Slots
    BY <1>1, <1>4, ReleaseOne DEF DestroyHandler
  <2> QED
    BY <1>1, <1>4, <2>1, SoundPools DEF DestroyHandler, TickTypes, TypeOK, Trees
<1>5. ASSUME NEW n \in 0 .. 2 * MaxVarBinds + 1, LoopRequest(n) PROVE TickTypes'
  <2> DEFINE a == AllocMany(ResetAll(pool), n)
             p == ReleaseAll(a.pool, a.list)
  <2>1. HandleInformQueue(p, TreesAfterReset(pool), pending)
        /\ UNCHANGED <<kind, handlers, decoded, acking>>
    BY <1>5 DEF LoopRequest
  <2>2. a.pool \in Sound /\ a.list \in SUBSET Slots
    BY <1>1, ResetSound, AllocManyTakesFreeSlots, TickAssumption
  <2> HIDE DEF a
  <2>3. p \in Sound
    BY <2>2, ReleaseAllReleases DEF Released
  <2> HIDE DEF p
  <2>4. TreesAfterReset(pool) \in [Traps -> Trees]
    BY <1>1, TypedTrees
  <2>5. /\ pool' \in Sound /\ tree' \in [Traps -> Trees]
        /\ pending' \subseteq Traps /\ partial' \in BOOLEAN
    BY <1>1, <2>1, <2>3, <2>4, QueueTypes
  <2> QED
    BY <1>1, <2>1, <2>5, SoundPools DEF TickTypes, TypeOK, Trees
<1>6. ASSUME NEW t \in Traps, NEW n \in 1 .. MaxVarBinds, LoopResponse(t, n)
      PROVE  TickTypes'
  <2> DEFINE a == AllocMany(ResetAll(pool), n)
  <2>1. /\ pool' = a.pool /\ decoded' = a.list /\ tree' = TreesAfterReset(pool)
        /\ acking' = {t} /\ UNCHANGED <<kind, handlers, pending, partial>>
    BY <1>6 DEF LoopResponse
  <2>2. a.pool \in Sound /\ a.list \in SUBSET Slots
    BY <1>1, ResetSound, AllocManyTakesFreeSlots, TickAssumption
  <2> HIDE DEF a
  <2>3. tree' \in [Traps -> Trees]
    BY <1>1, <2>1, TypedTrees
  <2> QED
    BY <1>1, <2>1, <2>2, <2>3, SoundPools DEF TickTypes, TypeOK, Trees
<1>7. ASSUME LoopAcknowledge PROVE TickTypes'
  <2> DEFINE p == ReleaseAll(pool, decoded)
  <2>1. /\ HandleInformQueue(p, tree, pending \ acking)
        /\ decoded' = {} /\ acking' = {} /\ UNCHANGED <<kind, handlers>>
    BY <1>7 DEF LoopAcknowledge
  <2>2. p \in Sound
    BY <1>1, ReleaseAllReleases DEF Released
  <2> HIDE DEF p
  <2>3. /\ pool' \in Sound /\ tree' \in [Traps -> Trees]
        /\ pending' \subseteq Traps /\ partial' \in BOOLEAN
    BY <1>1, <2>1, <2>2, QueueTypes
  <2> QED
    BY <1>1, <2>1, <2>3, SoundPools DEF TickTypes, TypeOK, Trees
<1>8. CASE UNCHANGED vars
  BY <1>8 DEF vars, TickTypes, TypeOK
<1> QED
  BY <1>2, <1>3, <1>4, <1>5, <1>6, <1>7, <1>8 DEF Next

\* TypeOK is an invariant of every agent, also of one that sends from setup()
\* or from the ack callback: usedCount never leaves 0..NSlots nor the alarm
\* counter the number of slots.
THEOREM TickTypeCorrect == Spec => []TypeOK
<1>1. TickTypes => TypeOK
  BY DEF TickTypes
<1> QED
  BY <1>1, InitTypes, StepTypes, PTL DEF Spec

-----------------------------------------------------------------------------
(* Between sends, while no inform finds the queue full.                     *)

Informs == {t \in Traps : kind[t].inform}

\* SNMP_MAX_TRAPS_INFLIGHT covers the informs of the sketch.
InformsFit == \A f \in Fleets : Cardinality({t \in Traps : f[t].inform}) <= MaxInflight

Stateless ==
  /\ TickTypes
  /\ \A t \in Traps : tree[t] = NoTree
  /\ pending \subseteq Informs

LEMMA NeverFull ==
  ASSUME InformsFit, TickTypes, pending \subseteq Informs, NEW t \in Traps
  PROVE  ~QueueFull(t)
<1> SUFFICES ASSUME kind[t].inform PROVE Cardinality(pending \ {t}) < MaxInflight
  <2>1. Cardinality(pending \ {t}) \in Nat /\ MaxInflight \in Nat
    <3>1. IsFiniteSet(pending \ {t})
      BY TickAssumption, FS_Subset DEF TickTypes, TypeOK
    <3> QED
      BY <3>1, FS_CardinalityType, TickAssumption
  <2> QED
    BY <2>1 DEF QueueFull
<1>1. IsFiniteSet(Informs) /\ t \in Informs
  BY TickAssumption, FS_Subset DEF Informs
<1>2. /\ Cardinality(Informs \ {t}) = Cardinality(Informs) - 1
      /\ Cardinality(Informs) \in Nat /\ IsFiniteSet(Informs \ {t})
  BY <1>1, FS_RemoveElement, FS_CardinalityType
<1>3. Cardinality(Informs) <= MaxInflight
  BY DEF InformsFit, Informs, TickTypes, TypeOK
<1>4. Cardinality(pending \ {t}) <= Cardinality(Informs \ {t})
      /\ Cardinality(pending \ {t}) \in Nat
  <2>1. pending \ {t} \subseteq Informs \ {t}
    OBVIOUS
  <2> QED
    BY <1>2, <2>1, FS_Subset, FS_CardinalityType
<1>5. MaxInflight \in Nat
  BY TickAssumption
<1> QED
  BY <1>2, <1>3, <1>4, <1>5

\* A pointer that is null stays null through a reset.
LEMMA NullStaysNull ==
  /\ \A p : AfterReset(p, NoTree) = NoTree
  /\ \A p : (\A t \in Traps : tree[t] = NoTree)
              => \A t \in Traps : TreesAfterReset(p)[t] = NoTree
<1>1. ASSUME NEW p PROVE AfterReset(p, NoTree) = NoTree
  <2>1. NoTree.live = FALSE /\ NoTree = [NoTree EXCEPT !.live = FALSE]
    <3> DEFINE Nulls == [root : {{}}, nodes : {{}}, live : {FALSE}]
    <3>1. NoTree \in Nulls
      BY DEF NoTree
    <3> HIDE DEF Nulls
    <3>2. \A u \in Nulls : u.live = FALSE /\ u = [u EXCEPT !.live = FALSE]
      BY DEF Nulls
    <3> QED
      BY <3>1, <3>2
  <2>2. (NoTree.live /\ NoTree.root \subseteq ResetAll(p).occupied) = FALSE
    BY <2>1
  <2> QED
    BY <2>1, <2>2 DEF AfterReset
<1> QED
  BY <1>1 DEF TreesAfterReset

\* A pass over the queue from a frozen pool, with N the slots still needed.
LEMMA PassKeeps ==
  ASSUME kind \in Fleets, partial \in BOOLEAN,
         NEW p \in Sound, NEW trees \in [Traps -> Trees],
         \A t \in Traps : trees[t] = NoTree, NEW waiting \in SUBSET Traps,
         HandleInformQueue(p, trees, waiting)
  PROVE  /\ \A t \in Traps : tree'[t] = NoTree
         /\ pending' \subseteq waiting
         /\ \A N \in SUBSET p.occupied :
              p.frozen /\ (\A s \in N : s < p.perm)
                => Quiet(p, pool') /\ N \subseteq pool'.occupied
<1>1. PICK due \in SUBSET waiting : \E over \in SUBSET (waiting \ due) :
        /\ pool' = RetryAll(p, trees, due).pool
        /\ tree' = RetryAll(p, trees, due).tree
        /\ pending' = waiting \ over
  BY DEF HandleInformQueue
<1> DEFINE V == {a \in Passes : \A t \in Traps : a.tree[t] = NoTree}
           start == [pool |-> p, tree |-> trees, partial |-> partial]
<1>2. start \in V
  BY DEF Passes
<1>3. ASSUME NEW a \in V, NEW t \in Traps PROVE Retry(a, t) \in V
  <2>1. /\ Retry(a, t) \in Passes
        /\ Retry(a, t).tree[t] = NoTree
        /\ \A u \in Traps \ {t} : Retry(a, t).tree[u] = AfterReset(a.pool, a.tree[u])
    BY <1>3, RetryTypes
  <2>2. \A u \in Traps \ {t} : Retry(a, t).tree[u] = NoTree
    BY <1>3, <2>1, NullStaysNull
  <2> QED
    BY <2>1, <2>2
<1>4. RetryAll(p, trees, due) \in V
  <2>1. due \in SUBSET Traps
    OBVIOUS
  <2> HIDE DEF V
  <2> QED
    BY <1>2, <1>3, <2>1, RetryFold
<1>5. ASSUME NEW N \in SUBSET p.occupied, p.frozen, \A s \in N : s < p.perm
      PROVE  Quiet(p, pool') /\ N \subseteq pool'.occupied
  <2> DEFINE W == {a \in V : Quiet(p, a.pool) /\ N \subseteq a.pool.occupied}
  <2>1. start \in W
    BY <1>2 DEF Quiet
  <2>2. ASSUME NEW a \in W, NEW t \in Traps PROVE Retry(a, t) \in W
    <3> DEFINE q == ResetAll(a.pool)
               s == SendTo(a.pool, NoTree, kind[t])
    <3>1. /\ a \in Passes /\ a.pool \in Sound /\ a.tree[t] = NoTree
          /\ Quiet(p, a.pool) /\ N \subseteq a.pool.occupied
      BY <2>2 DEF Passes
    <3>2. Retry(a, t) \in V /\ Retry(a, t).pool = s.pool
      BY <1>3, <2>2, <3>1, RetryTypes
    <3>3. q.perm = a.pool.perm /\ q.occupied = {x \in a.pool.occupied : x < q.perm}
      BY <1>5, <3>1, ResetSound DEF Quiet
    <3>4. N \subseteq q.occupied
      BY <1>5, <3>1, <3>3 DEF Quiet
    <3>5. kind[t] \in Notifications /\ NoTree \in Trees
          /\ NoTree.root = {} /\ NoTree.nodes = {}
      BY TypedTrees DEF NoTree
    <3>6. /\ s.pool.frozen /\ s.pool.perm = q.perm
          /\ q.occupied \ (NoTree.root \cup NoTree.nodes) \subseteq s.pool.occupied
          /\ NoTree.root \cup NoTree.nodes \subseteq a.pool.occupied
                  => s.pool.warned = a.pool.warned /\ s.pool.alarms = a.pool.alarms
          /\ s.pool \in Sound
      BY <3>1, <3>5, SendLeavesNothing
    <3> HIDE DEF s, q
    <3>7. N \subseteq s.pool.occupied /\ Quiet(a.pool, s.pool)
      BY <1>5, <3>1, <3>3, <3>4, <3>5, <3>6, SoundPools DEF Quiet
    <3> QED
      BY <3>1, <3>2, <3>7 DEF Quiet
  <2>3. RetryAll(p, trees, due) \in W
    <3>1. due \in SUBSET Traps
      OBVIOUS
    <3> HIDE DEF W
    <3> QED
      BY <2>1, <2>2, <3>1, RetryFold
  <2> QED
    BY <1>1, <2>3
<1> QED
  BY <1>1, <1>4, <1>5

LEMMA InitStateless == Init => Stateless
BY InitTypes DEF Init, Stateless

LEMMA StepStateless == InformsFit /\ Stateless /\ [Next]_vars => Stateless'
<1> SUFFICES ASSUME InformsFit, Stateless, [Next]_vars PROVE Stateless'
  OBVIOUS
<1>1. TickTypes' /\ TickTypes
  BY StepTypes DEF Stateless
<1>2. /\ pool \in Sound /\ tree \in [Traps -> Trees] /\ pending \subseteq Traps
      /\ partial \in BOOLEAN /\ kind \in Fleets /\ decoded \subseteq Slots
  BY <1>1, TypedTrees DEF TickTypes
<1> SUFFICES (\A t \in Traps : tree'[t] = NoTree) /\ pending' \subseteq Informs'
  BY <1>1 DEF Stateless
<1>3. ASSUME NEW t \in Traps, QueueAndSendTrap(t)
      PROVE  (\A u \in Traps : tree'[u] = NoTree) /\ pending' \subseteq Informs'
  <2> DEFINE b == BuildForSending(pool, tree[t], kind[t])
             sent == SendTo(b.pool, b.tree, kind[t])
  <2>1. /\ SendBuildFails(t, b) \/ SendGoesOut(t, b, sent)
        /\ UNCHANGED kind
    BY <1>1, <1>3, NeverFull DEF QueueAndSendTrap, SendFindsQueueFull, Stateless
  <2>2. sent.tree = NoTree
    BY DEF SendTo, Sent, ReleasePoolState
  <2> HIDE DEF b, sent
  <2>3. \A u \in Traps : TreesAfterReset(b.pool)[u] = NoTree
    BY NullStaysNull DEF Stateless
  <2>4. CASE SendBuildFails(t, b)
    BY <1>2, <2>1, <2>4 DEF SendBuildFails, ReleasePoolState, Stateless, Informs
  <2>5. CASE SendGoesOut(t, b, sent)
    <3>1. TreesAfterReset(b.pool) \in [Traps -> Trees]
      BY <1>2, TypedTrees
    <3>2. \A u \in Traps : tree'[u] = NoTree
      BY <2>2, <2>3, <2>5, <3>1 DEF SendGoesOut
    <3>3. pending' \subseteq Informs'
      BY <2>1, <2>5 DEF SendGoesOut, Stateless, Informs
    <3> QED
      BY <3>2, <3>3
  <2> QED
    BY <2>1, <2>4, <2>5
<1>4. ASSUME NEW t \in Traps, DestroyTrap(t)
      PROVE  (\A u \in Traps : tree'[u] = NoTree) /\ pending' \subseteq Informs'
  BY <1>2, <1>4 DEF DestroyTrap, Stateless, Informs
<1>5. ASSUME NEW s \in handlers, DestroyHandler(s)
      PROVE  (\A u \in Traps : tree'[u] = NoTree) /\ pending' \subseteq Informs'
  BY <1>5 DEF DestroyHandler, Stateless, Informs
<1>6. ASSUME NEW n \in 0 .. 2 * MaxVarBinds + 1, LoopRequest(n)
      PROVE  (\A u \in Traps : tree'[u] = NoTree) /\ pending' \subseteq Informs'
  <2> DEFINE a == AllocMany(ResetAll(pool), n)
             p == ReleaseAll(a.pool, a.list)
  <2>1. HandleInformQueue(p, TreesAfterReset(pool), pending) /\ UNCHANGED kind
    BY <1>6 DEF LoopRequest
  <2>2. a.pool \in Sound /\ a.list \in SUBSET Slots
    BY <1>2, ResetSound, AllocManyTakesFreeSlots, TickAssumption
  <2> HIDE DEF a
  <2>3. p \in Sound
    BY <2>2, ReleaseAllReleases DEF Released
  <2> HIDE DEF p
  <2>4. /\ TreesAfterReset(pool) \in [Traps -> Trees]
        /\ \A u \in Traps : TreesAfterReset(pool)[u] = NoTree
    BY <1>2, TypedTrees, NullStaysNull DEF Stateless
  <2>5. (\A u \in Traps : tree'[u] = NoTree) /\ pending' \subseteq pending
    BY <1>2, <2>1, <2>3, <2>4, PassKeeps
  <2> QED
    BY <2>1, <2>5 DEF Stateless, Informs
<1>7. ASSUME NEW t \in Traps, NEW n \in 1 .. MaxVarBinds, LoopResponse(t, n)
      PROVE  (\A u \in Traps : tree'[u] = NoTree) /\ pending' \subseteq Informs'
  BY <1>7, NullStaysNull DEF LoopResponse, Stateless, Informs
<1>8. ASSUME LoopAcknowledge
      PROVE  (\A u \in Traps : tree'[u] = NoTree) /\ pending' \subseteq Informs'
  <2> DEFINE p == ReleaseAll(pool, decoded)
  <2>1. HandleInformQueue(p, tree, pending \ acking) /\ UNCHANGED kind
    BY <1>8 DEF LoopAcknowledge
  <2>2. p \in Sound
    BY <1>2, ReleaseAllReleases DEF Released
  <2> HIDE DEF p
  <2>3. (\A u \in Traps : tree'[u] = NoTree) /\ pending' \subseteq pending \ acking
    BY <1>2, <2>1, <2>2, PassKeeps DEF Stateless
  <2> QED
    BY <2>1, <2>3 DEF Stateless, Informs
<1>9. CASE UNCHANGED vars
  BY <1>9 DEF vars, Stateless, Informs
<1> QED
  BY <1>3, <1>4, <1>5, <1>6, <1>7, <1>8, <1>9 DEF Next

\* While the informs of the sketch fit the list, a trap object holds nothing of
\* the pool between sends: also when a build failed half way, and when the
\* sketch sends from setup() or from the ack callback (SNMPTrap.h 89-91).
THEOREM TrapsAreStateless == InformsFit /\ Spec => []StatelessBetweenSends
<1>1. Stateless => StatelessBetweenSends
  BY DEF Stateless, StatelessBetweenSends
<1>2. InformsFit => []InformsFit
  BY DEF InformsFit
<1> QED
  BY <1>1, <1>2, InitStateless, StepStateless, PTL DEF Spec

-----------------------------------------------------------------------------
(* The pool from tick to tick.                                              *)

\* The sketch does not send from the ack callback, and its informs fit the list.
Disciplined == ~AckSends /\ InformsFit

\* No slot in use is at risk: handlers lie below the baseline, the values of
\* the packet being handled are still there, and the latch of the alarm is unset.
PoolInv ==
  /\ pool.warned = {}
  /\ handlers \subseteq 0 .. Handlers - 1
  /\ handlers \cup decoded \subseteq pool.occupied
  /\ handlers \cap decoded = {}
  /\ acking = {} => decoded = {}
  /\ acking # {} => pool.frozen
  /\ pool.frozen => \A s \in handlers : s < pool.perm
  /\ ~pool.frozen => pool.perm = 0

TickInv == Stateless /\ PoolInv

\* loop() and sendTo() reset the pool to the baseline and keep every handler.
LEMMA ResetKeepsHandlers ==
  ASSUME Stateless, PoolInv
  PROVE  LET q == ResetAll(pool)
         IN  /\ q \in Sound /\ q.frozen
             /\ pool.frozen => q.perm = pool.perm
             /\ handlers \subseteq q.occupied
             /\ \A s \in handlers : s < q.perm
             /\ q.warned = {}
<1> DEFINE q == ResetAll(pool)
<1>1. pool \in Sound
  BY DEF Stateless, TickTypes
<1>2. /\ q \in Sound /\ q.frozen
      /\ pool.frozen => q.perm = pool.perm
      /\ ~pool.frozen => \A s \in pool.occupied : s < q.perm
      /\ q.occupied = {s \in pool.occupied : s < q.perm}
      /\ q.warned = pool.warned
  BY <1>1, ResetSound
<1> HIDE DEF q
<1>3. \A s \in handlers : s < q.perm
  BY <1>2 DEF PoolInv
<1> QED
  BY <1>2, <1>3 DEF PoolInv, q

LEMMA InitPool == Init => PoolInv
<1> SUFFICES ASSUME Init PROVE PoolInv
  OBVIOUS
<1>1. /\ handlers = 0 .. Handlers - 1 /\ decoded = {} /\ acking = {}
  BY DEF Init
<1>2. \A s \in 0 .. Handlers - 1 : s < Handlers
  BY TickAssumption
<1> QED
  BY <1>1, <1>2, InitPools DEF PoolInv

\* The steps of a tick that end in the pass over the queue, from pool p.
LEMMA PassPool ==
  ASSUME Stateless, PoolInv, NEW p \in Sound, NEW trees \in [Traps -> Trees],
         \A t \in Traps : trees[t] = NoTree, NEW waiting \in SUBSET Traps,
         HandleInformQueue(p, trees, waiting), UNCHANGED handlers,
         p.frozen, \A s \in handlers : s < p.perm, p.warned = {},
         handlers \subseteq p.occupied,
         decoded' = {}, acking' = {}
  PROVE  PoolInv' /\ pool'.perm = p.perm
<1>1. kind \in Fleets /\ partial \in BOOLEAN
  BY TypedTrees DEF Stateless, TickTypes
<1>2. \A N \in SUBSET p.occupied :
        p.frozen /\ (\A s \in N : s < p.perm)
          => Quiet(p, pool') /\ N \subseteq pool'.occupied
  BY <1>1, PassKeeps
<1>3. Quiet(p, pool') /\ handlers \subseteq pool'.occupied
  BY <1>2
<1> QED
  BY <1>3 DEF Quiet, PoolInv

\* Without a packet there is nothing to destroy.
LEMMA DestroyNothing ==
  ASSUME NEW p \in Sound
  PROVE  LET q == Destroy(p, NoTree)
         IN  /\ q \in Sound /\ Quiet(p, q) /\ q.occupied = p.occupied
             /\ q.used = p.used /\ q.peak = p.peak /\ q.failed = p.failed
<1> DEFINE q == Destroy(p, NoTree)
<1>1. NoTree \in Trees /\ NoTree.root = {} /\ NoTree.nodes = {}
  BY TypedTrees DEF NoTree
<1>2. /\ q \in Sound
      /\ NoTree.root \cup NoTree.nodes \subseteq p.occupied \cup p.bulkFreed => Quiet(p, q)
      /\ NoTree.root \subseteq p.occupied => q.occupied = p.occupied \ NoTree.nodes
      /\ q.peak = p.peak /\ q.failed = p.failed
      /\ NoTree.root \subseteq p.occupied /\ NoTree.nodes \subseteq p.occupied
           => q.used = p.used - Cardinality(NoTree.nodes)
  BY <1>1, DestroyReleases
<1> HIDE DEF q
<1>3. Cardinality(NoTree.nodes) = 0
  BY <1>1, FS_EmptySet
<1>4. q.used = p.used
  <2>1. q.used = p.used - 0 /\ p.used \in Int
    BY <1>1, <1>2, <1>3, SoundPools
  <2> QED
    BY <2>1
<1>5. q \in Sound /\ Quiet(p, q) /\ q.occupied = p.occupied
  BY <1>1, <1>2
<1> QED
  BY <1>2, <1>4, <1>5 DEF q

LEMMA StepPool == Disciplined /\ TickInv /\ [Next]_vars => PoolInv'
<1> SUFFICES ASSUME Disciplined, Stateless, PoolInv, [Next]_vars PROVE PoolInv'
  BY DEF TickInv
<1>1. /\ pool \in Sound /\ tree \in [Traps -> Trees] /\ pending \subseteq Traps
      /\ partial \in BOOLEAN /\ kind \in Fleets /\ decoded \in SUBSET Slots
      /\ handlers \subseteq Slots /\ \A t \in Traps : tree[t] = NoTree
  BY TypedTrees DEF Stateless, TickTypes
<1>2. ASSUME NEW t \in Traps, QueueAndSendTrap(t) PROVE PoolInv'
  <2> DEFINE d == Destroy(pool, tree[t])
             b == BuildForSending(pool, tree[t], kind[t])
             e == Destroy(b.pool, b.tree)
             q == ResetAll(b.pool)
             sent == SendTo(b.pool, b.tree, kind[t])
  <2>1. /\ SendBuildFails(t, b) \/ SendGoesOut(t, b, sent)
        /\ UNCHANGED <<kind, handlers, decoded, acking>>
        /\ acking = {}
    BY <1>2, NeverFull
    DEF QueueAndSendTrap, SendFindsQueueFull, Stateless, MaySend, Disciplined
  <2>2. decoded = {} /\ (pool.frozen => \A s \in handlers : s < pool.perm)
    BY <2>1 DEF PoolInv
  <2>3. d \in Sound /\ Quiet(pool, d) /\ d.occupied = pool.occupied
    BY <1>1, DestroyNothing
  <2>4. kind[t] \in Notifications
    BY <1>1, TypedTrees
  <2>5. b = Build(d, kind[t])
    BY DEF BuildForSending
  <2> HIDE DEF b, d
  <2>6. /\ b.pool \in Sound /\ b.tree \in Trees /\ Quiet(d, b.pool)
        /\ d.occupied \subseteq b.pool.occupied
        /\ b.tree.root \subseteq b.tree.nodes
        /\ b.tree.nodes \subseteq b.pool.occupied \ d.occupied
    BY <2>3, <2>4, <2>5, BuildTakesFreeSlots
  <2>7. handlers \subseteq b.pool.occupied \ (b.tree.root \cup b.tree.nodes)
    BY <2>3, <2>6 DEF PoolInv
  <2>8. CASE SendBuildFails(t, b)
    <3>1. /\ e \in Sound /\ Quiet(b.pool, e)
          /\ b.pool.occupied \ (b.tree.root \cup b.tree.nodes) \subseteq e.occupied
      BY <2>6, DestroyReleases
    <3>2. pool' = e
      BY <2>8 DEF SendBuildFails, ReleasePoolState
    <3> HIDE DEF e
    <3> QED
      BY <2>1, <2>2, <2>3, <2>6, <2>7, <3>1, <3>2 DEF Quiet, PoolInv
  <2>9. CASE SendGoesOut(t, b, sent)
    <3>1. /\ b.pool.frozen => q.perm = b.pool.perm
          /\ ~b.pool.frozen => \A s \in b.pool.occupied : s < q.perm
          /\ q.occupied = {s \in b.pool.occupied : s < q.perm}
      BY <2>6, ResetSound
    <3>2. /\ \A s \in handlers : s < q.perm
          /\ handlers \subseteq q.occupied \ (b.tree.root \cup b.tree.nodes)
      BY <2>3, <2>6, <2>7, <3>1 DEF Quiet, PoolInv
    <3>3. /\ sent.pool.frozen /\ sent.pool.perm = q.perm
          /\ q.occupied \ (b.tree.root \cup b.tree.nodes) \subseteq sent.pool.occupied
          /\ b.tree.root \cup b.tree.nodes \subseteq b.pool.occupied
                  => sent.pool.warned = b.pool.warned
      BY <2>4, <2>6, SendLeavesNothing
    <3>4. pool' = sent.pool
      BY <2>9 DEF SendGoesOut
    <3> HIDE DEF sent, q
    <3>5. sent.pool.warned = {}
      BY <2>3, <2>6, <3>3 DEF Quiet, PoolInv
    <3> QED
      BY <2>1, <2>2, <3>2, <3>3, <3>4, <3>5 DEF PoolInv
  <2> QED
    BY <2>1, <2>8, <2>9
<1>3. ASSUME NEW t \in Traps, DestroyTrap(t) PROVE PoolInv'
  <2> DEFINE d == Destroy(pool, tree[t])
  <2>1. pool' = d /\ UNCHANGED <<handlers, decoded, acking>>
    BY <1>3 DEF DestroyTrap, ReleasePoolState
  <2>2. Quiet(pool, d) /\ d.occupied = pool.occupied
    BY <1>1, DestroyNothing
  <2> HIDE DEF d
  <2> QED
    BY <2>1, <2>2 DEF Quiet, PoolInv
<1>4. ASSUME NEW s \in handlers, DestroyHandler(s) PROVE PoolInv'
  <2>1. /\ pool' = Release(pool, s) /\ handlers' = handlers \ {s}
        /\ UNCHANGED <<decoded, acking>>
    BY <1>4 DEF DestroyHandler
  <2>2. /\ Quiet(pool, Release(pool, s))
        /\ Release(pool, s).occupied = pool.occupied \ {s}
    BY <1>1, ReleaseOne DEF PoolInv
  <2> QED
    BY <2>1, <2>2 DEF Quiet, PoolInv
<1>5. ASSUME NEW n \in 0 .. 2 * MaxVarBinds + 1, LoopRequest(n) PROVE PoolInv'
  <2> DEFINE r == ResetAll(pool)
             a == AllocMany(r, n)
             p == ReleaseAll(a.pool, a.list)
  <2>1. /\ HandleInformQueue(p, TreesAfterReset(pool), pending)
        /\ acking = {} /\ UNCHANGED <<kind, handlers, decoded, acking>>
    BY <1>5 DEF LoopRequest
  <2>2. /\ r \in Sound /\ r.frozen /\ \A s \in handlers : s < r.perm
        /\ handlers \subseteq r.occupied /\ r.warned = {}
    BY ResetKeepsHandlers
  <2> HIDE DEF r
  <2>3. /\ a.pool \in Sound /\ Quiet(r, a.pool)
        /\ r.occupied \subseteq a.pool.occupied
        /\ a.list \in SUBSET Slots /\ a.list \subseteq a.pool.occupied \ r.occupied
    BY <2>2, AllocManyTakesFreeSlots, TickAssumption
  <2> HIDE DEF a
  <2>4. p \in Sound /\ Quiet(a.pool, p) /\ p.occupied = a.pool.occupied \ a.list
    BY <2>3, ReleaseAllReleases DEF Released
  <2> HIDE DEF p
  <2>5. /\ p.frozen /\ \A s \in handlers : s < p.perm
        /\ p.warned = {} /\ handlers \subseteq p.occupied
    BY <2>2, <2>3, <2>4 DEF Quiet
  <2>6. /\ TreesAfterReset(pool) \in [Traps -> Trees]
        /\ \A u \in Traps : TreesAfterReset(pool)[u] = NoTree
    BY <1>1, TypedTrees, NullStaysNull
  <2>7. decoded' = {} /\ acking' = {}
    BY <2>1 DEF PoolInv
  <2> QED
    BY <1>1, <2>1, <2>4, <2>5, <2>6, <2>7, PassPool
<1>6. ASSUME NEW t \in Traps, NEW n \in 1 .. MaxVarBinds, LoopResponse(t, n)
      PROVE  PoolInv'
  <2> DEFINE r == ResetAll(pool)
             a == AllocMany(r, n)
  <2>1. /\ pool' = a.pool /\ decoded' = a.list /\ acking' = {t} /\ UNCHANGED handlers
    BY <1>6 DEF LoopResponse
  <2>2. /\ r \in Sound /\ r.frozen /\ \A s \in handlers : s < r.perm
        /\ handlers \subseteq r.occupied /\ r.warned = {}
    BY ResetKeepsHandlers
  <2> HIDE DEF r
  <2>3. /\ Quiet(r, a.pool)
        /\ r.occupied \subseteq a.pool.occupied
        /\ a.list \subseteq a.pool.occupied \ r.occupied
    BY <2>2, AllocManyTakesFreeSlots, TickAssumption
  <2> HIDE DEF a
  <2> QED
    BY <2>1, <2>2, <2>3 DEF Quiet, PoolInv
<1>7. ASSUME LoopAcknowledge PROVE PoolInv'
  <2> DEFINE p == ReleaseAll(pool, decoded)
  <2>1. /\ HandleInformQueue(p, tree, pending \ acking) /\ acking # {}
        /\ decoded' = {} /\ acking' = {} /\ UNCHANGED <<kind, handlers>>
    BY <1>7 DEF LoopAcknowledge
  <2>2. p \in Sound /\ Quiet(pool, p) /\ p.occupied = pool.occupied \ decoded
    BY <1>1, ReleaseAllReleases DEF Released, PoolInv
  <2> HIDE DEF p
  <2>3. /\ p.frozen /\ \A s \in handlers : s < p.perm
        /\ p.warned = {} /\ handlers \subseteq p.occupied
    BY <2>1, <2>2 DEF Quiet, PoolInv
  <2>4. pending \ acking \in SUBSET Traps
    BY <1>1
  <2> QED
    BY <1>1, <2>1, <2>2, <2>3, <2>4, PassPool
<1>8. CASE UNCHANGED vars
  BY <1>8 DEF vars, PoolInv
<1> QED
  BY <1>2, <1>3, <1>4, <1>5, <1>6, <1>7, <1>8 DEF Next

\* The inductive invariant of a disciplined agent.
THEOREM TickInvHolds == Disciplined /\ Spec => []TickInv
<1>1. Init => TickInv
  BY InitStateless, InitPool DEF TickInv
<1>2. Disciplined /\ TickInv /\ [Next]_vars => TickInv'
  BY StepStateless, StepPool DEF TickInv, Disciplined
<1>3. Disciplined => []Disciplined
  BY DEF Disciplined, InformsFit
<1> QED
  BY <1>1, <1>2, <1>3, PTL DEF Spec

\* The alarm stays at 0: no slot is destroyed twice, however sends, failed
\* builds, retries, responses, resets and destructors follow each other, and
\* however many varbinds a notification has, also when a send comes before the
\* first tick (BERDecode.cpp 87-88).
THEOREM AlarmStaysZero == Disciplined /\ Spec => []NoDoubleReleases
<1>1. TickInv => NoDoubleReleases
  <2> SUFFICES ASSUME TickInv PROVE pool.alarms = 0
    BY DEF NoDoubleReleases
  <2>1. pool.alarms = Cardinality(pool.warned) /\ pool.warned = {}
    BY SoundPools DEF TickInv, Stateless, TickTypes, PoolInv
  <2> QED
    BY <2>1, FS_EmptySet
<1> QED
  BY <1>1, TickInvHolds, PTL

-----------------------------------------------------------------------------
(* What a build costs.                                                      *)

\* A script is run piece by piece.
LEMMA RunIsTrace ==
  ASSUME NEW b \in Builds, NEW script \in Seq(Steps), NEW h, Trace(h, b, script)
  PROVE  Run(b, script) = h[Len(script)]
<1> DEFINE n == Len(script)
<1>1. PICK g : Trace(g, b, script) /\ Run(b, script) = g[n]
  BY RunSteps
<1>2. n \in Nat
  OBVIOUS
<1>3. /\ g[0] = b /\ h[0] = b
      /\ \A i \in 1 .. n : g[i] = BuildStep(g[i - 1], script[i])
      /\ \A i \in 1 .. n : h[i] = BuildStep(h[i - 1], script[i])
  BY <1>1 DEF Trace
<1> HIDE DEF n
<1> DEFINE J == {i \in Nat : i <= n => g[i] = h[i]}
<1>4. 0 \in J
  BY <1>3
<1>5. ASSUME NEW i \in Nat, i \in J PROVE i + 1 \in J
  <2> SUFFICES ASSUME i + 1 <= n PROVE g[i + 1] = h[i + 1]
    OBVIOUS
  <2>1. i + 1 \in 1 .. n /\ (i + 1) - 1 = i /\ g[i] = h[i]
    BY <1>2, <1>5
  <2> QED
    BY <1>3, <2>1
<1>6. Nat \subseteq J
  <2> HIDE DEF J
  <2> QED
    BY <1>4, <1>5, SetInduction
<1>7. g[n] = h[n]
  BY <1>2, <1>6
<1> QED
  BY <1>1, <1>7 DEF n

LEMMA RunConcat ==
  ASSUME NEW b \in Builds, NEW s \in Seq(Steps), NEW t \in Seq(Steps)
  PROVE  /\ Run(b, s) \in Builds
         /\ Run(b, s \o t) = Run(Run(b, s), t)
<1> DEFINE m == Len(s)
           n == Len(t)
           c == Run(b, s)
<1>1. PICK g : Trace(g, b, s) /\ c = g[m]
  BY RunSteps
<1>2. /\ m \in Nat /\ n \in Nat /\ s \o t \in Seq(Steps) /\ Len(s \o t) = m + n
      /\ \A i \in 1 .. m : (s \o t)[i] = s[i]
      /\ \A i \in m + 1 .. m + n : (s \o t)[i] = t[i - m]
  OBVIOUS
<1>3. /\ g \in [0 .. m -> Builds] /\ g[0] = b
      /\ \A i \in 1 .. m : g[i] = BuildStep(g[i - 1], s[i])
  BY <1>1 DEF Trace
<1>4. c \in Builds
  BY <1>1, <1>2, <1>3
<1> HIDE DEF c
<1>5. PICK h : Trace(h, c, t) /\ Run(c, t) = h[n]
  BY <1>4, RunSteps
<1>6. /\ h \in [0 .. n -> Builds] /\ h[0] = c
      /\ \A i \in 1 .. n : h[i] = BuildStep(h[i - 1], t[i])
  BY <1>5 DEF Trace
<1> DEFINE st == s \o t
           k == [i \in 0 .. m + n |-> IF i <= m THEN g[i] ELSE h[i - m]]
<1> HIDE DEF m, n, st
<1>7. k \in [0 .. m + n -> Builds]
  <2> SUFFICES ASSUME NEW i \in 0 .. m + n
               PROVE  (IF i <= m THEN g[i] ELSE h[i - m]) \in Builds
    OBVIOUS
  <2>1. i <= m => i \in 0 .. m
    BY <1>2
  <2>2. ~(i <= m) => i - m \in 0 .. n
    BY <1>2
  <2> QED
    BY <1>3, <1>6, <2>1, <2>2
<1>8. k[0] = b /\ k[m + n] = h[n]
  <2>1. 0 \in 0 .. m + n /\ 0 <= m /\ m + n \in 0 .. m + n
    BY <1>2
  <2>2. CASE n = 0
    BY <1>1, <1>2, <1>3, <1>6, <2>1, <2>2
  <2>3. CASE n # 0
    <3>1. ~(m + n <= m) /\ (m + n) - m = n
      BY <1>2, <2>3
    <3> QED
      BY <1>3, <2>1, <3>1
  <2> QED
    BY <2>2, <2>3
<1>9. ASSUME NEW i \in 1 .. m + n PROVE k[i] = BuildStep(k[i - 1], st[i])
  <2>1. i \in 0 .. m + n /\ i - 1 \in 0 .. m + n
    BY <1>2
  <2>2. CASE i <= m
    <3>1. i \in 1 .. m /\ i - 1 <= m
      BY <1>2, <2>2
    <3>2. k[i] = g[i] /\ k[i - 1] = g[i - 1]
      BY <2>1, <2>2, <3>1
    <3>3. st[i] = s[i]
      BY <1>2, <3>1 DEF st
    <3> HIDE DEF k
    <3> QED
      BY <1>3, <3>1, <3>2, <3>3
  <2>3. CASE ~(i <= m)
    <3>1. i \in m + 1 .. m + n /\ i - m \in 1 .. n /\ (i - 1) - m = (i - m) - 1
      BY <1>2, <2>3
    <3>2. k[i] = h[i - m]
      BY <2>1, <2>3
    <3>3. k[i - 1] = h[(i - m) - 1]
      <4>1. CASE i - 1 <= m
        <5>1. i - 1 = m /\ (i - m) - 1 = 0
          BY <1>2, <2>3, <4>1
        <5>2. k[i - 1] = g[m]
          BY <2>1, <4>1, <5>1
        <5> HIDE DEF k
        <5> QED
          BY <1>1, <1>6, <5>1, <5>2
      <4>2. CASE ~(i - 1 <= m)
        BY <2>1, <3>1, <4>2
      <4> QED
        BY <4>1, <4>2
    <3>4. st[i] = t[i - m]
      BY <1>2, <3>1 DEF st
    <3> HIDE DEF k
    <3> QED
      BY <1>6, <3>1, <3>2, <3>3, <3>4
  <2> QED
    BY <2>2, <2>3
<1> HIDE DEF k
<1>10. st \in Seq(Steps) /\ Len(st) = m + n
  BY <1>2 DEF st
<1>11. Trace(k, b, st)
  BY <1>7, <1>8, <1>9, <1>10 DEF Trace
<1>12. Run(b, st) = k[m + n]
  BY <1>10, <1>11, RunIsTrace
<1>13. Run(b, st) = Run(c, t)
  BY <1>5, <1>8, <1>12
<1> QED
  BY <1>4, <1>13 DEF st, c

\* The slots of a build in progress.
Held(b) == b.root \cup b.pdu \cup b.list \cup b.temp

\* b has been built from p without a failed allocation; it holds u slots, and
\* never held more than k.
Fits(p, k, b, u) ==
  /\ Building(p, b)
  /\ b.ok /\ b.whole
  /\ b.pool.occupied = p.occupied \cup Held(b)
  /\ Cardinality(Held(b)) = u
  /\ b.pool.used = p.used + u
  /\ b.pool.failed = p.failed
  /\ b.pool.peak <= p.peak \/ b.pool.peak <= p.used + k

LEMMA NewFits ==
  ASSUME NEW p \in Sound, NEW k \in Nat
  PROVE  Fits(p, k, NewBuild(p), 0) /\ NewBuild(p).temp = {}
<1> DEFINE b == NewBuild(p)
<1>1. Building(p, b)
  BY NewBuilding
<1>2. /\ b.pool = p /\ b.ok /\ b.whole
      /\ b.root = {} /\ b.pdu = {} /\ b.list = {} /\ b.temp = {}
  BY DEF NewBuild
<1> HIDE DEF b
<1>3. Held(b) = {} /\ Cardinality(Held(b)) = 0
  BY <1>2, FS_EmptySet DEF Held
<1>4. p.used \in Int /\ p.peak \in Int
  BY SoundPools
<1> QED
  BY <1>1, <1>2, <1>3, <1>4 DEF Fits, b

\* While it is within its bill, every allocation of a build succeeds.
LEMMA FitsTakes ==
  ASSUME NEW p \in Sound, NEW k \in Nat, p.used + k <= NSlots,
         NEW b, NEW u \in Nat, u < k, Fits(p, k, b, u),
         NEW step \in Steps, step.kind # "drop"
  PROVE  LET c == BuildStep(b, step)
         IN  /\ Fits(p, k, c, u + 1)
             /\ step.part # "temp" => c.temp = b.temp
             /\ step.part = "temp" /\ b.temp = {} => Cardinality(c.temp) = 1
<1> DEFINE c == BuildStep(b, step)
           s == FirstFree(b.pool)
<1>1. /\ b \in Builds /\ b.pool \in Sound /\ b.ok /\ b.whole
      /\ Building(p, c)
  BY BuildingStep DEF Fits, Building, Builds
<1>2. /\ p.used \in Nat /\ p.peak \in Nat /\ b.pool.used \in Nat /\ b.pool.peak \in Nat
      /\ NSlots \in Nat
  BY <1>1, SoundPools, NSlotsAssumption
<1>3. CanAlloc(b.pool)
  <2>1. b.pool.used < NSlots
    BY <1>2 DEF Fits
  <2> QED
    BY <1>1, <2>1, RoomToAlloc
<1>4. /\ c \in Builds
      /\ c.pool = Alloc(b.pool)
      /\ c.root = IF step.part = "root" THEN b.root \cup {s} ELSE b.root
      /\ c.pdu  = IF step.part = "pdu"  THEN b.pdu  \cup {s} ELSE b.pdu
      /\ c.list = IF step.part = "list" THEN b.list \cup {s} ELSE b.list
      /\ c.temp = IF step.part = "temp" THEN b.temp \cup {s} ELSE b.temp
      /\ c.ok /\ c.whole = b.whole
  BY <1>1, <1>3, StepTaken
<1>5. /\ s \in Slots /\ s \notin b.pool.occupied
      /\ c.pool.occupied = b.pool.occupied \cup {s}
      /\ c.pool.used = b.pool.used + 1
      /\ c.pool.peak = (IF b.pool.used + 1 > b.pool.peak
                          THEN b.pool.used + 1 ELSE b.pool.peak)
      /\ c.pool.failed = b.pool.failed
  BY <1>1, <1>3, <1>4, AllocTakes
<1> HIDE DEF c, s
<1>6. step.part \in Parts
  BY DEF Steps, Node, Leaf, Parts
<1>7. Held(c) = Held(b) \cup {s}
  BY <1>4, <1>6 DEF Held, Parts
<1>8. Held(b) \in SUBSET Slots /\ s \notin Held(b)
  BY <1>1, <1>5 DEF Held, Fits, Builds
<1>9. Cardinality(Held(c)) = u + 1
  BY <1>5, <1>7, <1>8, AddRemoveSlot DEF Fits
<1>10. c.pool.occupied = p.occupied \cup Held(c)
  BY <1>5, <1>7 DEF Fits
<1>11. c.pool.used = p.used + (u + 1) /\ c.pool.failed = p.failed
  BY <1>2, <1>5 DEF Fits
<1>12. c.pool.peak <= p.peak \/ c.pool.peak <= p.used + k
  BY <1>2, <1>5 DEF Fits
<1>13. Fits(p, k, c, u + 1)
  BY <1>1, <1>4, <1>9, <1>10, <1>11, <1>12 DEF Fits, c
<1>14. step.part = "temp" /\ b.temp = {} => Cardinality(c.temp) = 1
  <2>1. step.part = "temp" /\ b.temp = {} => c.temp = {s}
    BY <1>4
  <2> QED
    BY <2>1, FS_Singleton
<1> QED
  BY <1>4, <1>13, <1>14 DEF c

\* Destroying the temporary gives its slot back.
LEMMA FitsDrops ==
  ASSUME NEW p \in Sound, NEW k \in Nat,
         NEW b, NEW u \in Nat, Fits(p, k, b, u), Cardinality(b.temp) = 1,
         NEW step \in Steps, step.kind = "drop"
  PROVE  LET c == BuildStep(b, step)
         IN  Fits(p, k, c, u - 1) /\ c.temp = {}
<1> DEFINE c == BuildStep(b, step)
<1>1. /\ b \in Builds /\ b.pool \in Sound /\ b.ok /\ b.whole
      /\ Building(p, c)
      /\ b.temp \in SUBSET Slots /\ Held(b) \in SUBSET Slots
  BY BuildingStep DEF Fits, Building, Builds, Held
<1>2. /\ c.pool = ReleaseAll(b.pool, b.temp)
      /\ c.root = b.root /\ c.pdu = b.pdu /\ c.list = b.list /\ c.temp = {}
      /\ c.ok /\ c.whole = b.whole
  BY <1>1, StepDrops
<1>3. Released(b.pool, b.temp, c.pool)
  BY <1>1, <1>2, ReleaseAllReleases
<1> HIDE DEF c
<1>4. /\ c.pool.occupied = b.pool.occupied \ b.temp
      /\ c.pool.used = b.pool.used - 1
      /\ c.pool.peak = b.pool.peak /\ c.pool.failed = b.pool.failed
  BY <1>3 DEF Released, Fits, Building
<1>5. Held(c) = Held(b) \ b.temp /\ c.pool.occupied = p.occupied \cup Held(c)
  BY <1>2, <1>4 DEF Fits, Building, Held
<1>6. PICK s : b.temp = {s}
  <2>1. IsFiniteSet(b.temp)
    BY <1>1, SlotSets
  <2> QED
    BY <2>1, FS_Singleton
<1>7. Cardinality(Held(c)) = u - 1
  <2>1. s \in Slots /\ s \in Held(b) /\ Held(c) = Held(b) \ {s}
    BY <1>1, <1>5, <1>6 DEF Held
  <2> QED
    BY <1>1, <2>1, AddRemoveSlot DEF Fits
<1>8. c.pool.used = p.used + (u - 1)
  <2>1. p.used \in Nat /\ b.pool.used = p.used + u
    BY SoundPools DEF Fits
  <2> QED
    BY <1>4, <2>1
<1>9. /\ c.pool.peak <= p.peak \/ c.pool.peak <= p.used + k
      /\ c.pool.failed = p.failed
  BY <1>4 DEF Fits
<1> QED
  BY <1>1, <1>2, <1>5, <1>7, <1>8, <1>9 DEF Fits, c

\* The steps that allocate a part of the tree.
Plain == {step \in Steps : step.kind # "drop" /\ step.part # "temp"}

\* A piece of a script that only allocates parts of the tree.
LEMMA FitsRun ==
  ASSUME NEW p \in Sound, NEW k \in Nat, p.used + k <= NSlots,
         NEW b, NEW u \in Nat, Fits(p, k, b, u), b.temp = {},
         NEW script \in Seq(Plain), u + Len(script) <= k
  PROVE  Fits(p, k, Run(b, script), u + Len(script)) /\ Run(b, script).temp = {}
<1> DEFINE n == Len(script)
<1>1. b \in Builds
  BY DEF Fits, Building
<1>2. PICK g : Trace(g, b, script) /\ Run(b, script) = g[n]
  <2>1. Plain \subseteq Steps
    BY DEF Plain
  <2>2. script \in Seq(Steps)
    BY <2>1
  <2> QED
    BY <1>1, <2>2, RunSteps
<1>3. n \in Nat /\ \A i \in 1 .. n : script[i] \in Plain
  OBVIOUS
<1>4. /\ g[0] = b
      /\ \A i \in 1 .. n : g[i] = BuildStep(g[i - 1], script[i])
  BY <1>2 DEF Trace
<1> HIDE DEF n
<1> DEFINE J == {i \in Nat : i <= n => Fits(p, k, g[i], u + i) /\ g[i].temp = {}}
<1>5. 0 \in J
  BY <1>4
<1>6. ASSUME NEW i \in Nat, i \in J PROVE i + 1 \in J
  <2> SUFFICES ASSUME i + 1 <= n
               PROVE  Fits(p, k, g[i + 1], u + (i + 1)) /\ g[i + 1].temp = {}
    OBVIOUS
  <2>1. i + 1 \in 1 .. n /\ (i + 1) - 1 = i /\ Fits(p, k, g[i], u + i) /\ g[i].temp = {}
    BY <1>3, <1>6
  <2>2. /\ u + i \in Nat /\ u + i < k /\ (u + i) + 1 = u + (i + 1)
        /\ script[i + 1] \in Steps
        /\ script[i + 1].kind # "drop" /\ script[i + 1].part # "temp"
    BY <1>3, <2>1 DEF n, Plain
  <2>3. g[i + 1] = BuildStep(g[i], script[i + 1])
    BY <1>4, <2>1
  <2>4. /\ Fits(p, k, BuildStep(g[i], script[i + 1]), (u + i) + 1)
        /\ BuildStep(g[i], script[i + 1]).temp = g[i].temp
    <3> DEFINE v == u + i
               st == script[i + 1]
               c == g[i]
    <3>1. /\ v \in Nat /\ v < k /\ Fits(p, k, c, v)
          /\ st \in Steps /\ st.kind # "drop" /\ st.part # "temp"
      BY <2>1, <2>2
    <3> HIDE DEF v, st, c
    <3>2. Fits(p, k, BuildStep(c, st), v + 1) /\ BuildStep(c, st).temp = c.temp
      BY <3>1, FitsTakes
    <3> QED
      BY <3>2 DEF v, st, c
  <2> QED
    BY <2>1, <2>2, <2>3, <2>4
<1>7. Nat \subseteq J
  <2> HIDE DEF J
  <2> QED
    BY <1>5, <1>6, SetInduction
<1>8. Fits(p, k, g[n], u + n) /\ g[n].temp = {}
  BY <1>3, <1>7
<1> QED
  BY <1>2, <1>8 DEF n

\* A value from getValueForCallback() needs two slots for a moment, and keeps one.
LEMMA FitsClone ==
  ASSUME NEW p \in Sound, NEW k \in Nat, p.used + k <= NSlots,
         NEW b, NEW u \in Nat, Fits(p, k, b, u), b.temp = {}, u + 2 <= k,
         NEW part \in {"pdu", "list"}
  PROVE  Fits(p, k, Run(b, ClonedValue(part)), u + 1)
         /\ Run(b, ClonedValue(part)).temp = {}
<1> DEFINE script == ClonedValue(part)
           drop == [kind |-> "drop", part |-> "temp"]
<1>1. /\ Leaf("temp") \in Steps /\ Leaf("temp").kind # "drop" /\ Leaf("temp").part = "temp"
      /\ Leaf(part) \in Steps /\ Leaf(part).kind # "drop" /\ Leaf(part).part # "temp"
      /\ drop \in Steps /\ drop.kind = "drop"
  BY DEF Steps, Parts, Leaf
<1>2. /\ script \in Seq(Steps) /\ Len(script) = 3
      /\ script[1] = Leaf("temp") /\ script[2] = Leaf(part) /\ script[3] = drop
  BY <1>1 DEF ClonedValue
<1> HIDE DEF script, drop
<1>3. b \in Builds
  BY DEF Fits, Building
<1>4. PICK g : Trace(g, b, script) /\ Run(b, script) = g[3]
  BY <1>2, <1>3, RunSteps
<1>5. /\ g[0] = b /\ g[1] = BuildStep(g[0], script[1])
      /\ g[2] = BuildStep(g[1], script[2]) /\ g[3] = BuildStep(g[2], script[3])
  <2>1. g[0] = b /\ \A i \in 1 .. 3 : g[i] = BuildStep(g[i - 1], script[i])
    BY <1>2, <1>4 DEF Trace
  <2>2. 1 - 1 = 0 /\ 2 - 1 = 1 /\ 3 - 1 = 2
    OBVIOUS
  <2> QED
    BY <2>1, <2>2
<1>6. u < k /\ u + 1 < k /\ u + 1 \in Nat /\ u + 2 \in Nat
      /\ (u + 1) + 1 = u + 2 /\ (u + 2) - 1 = u + 1
  OBVIOUS
<1>7. Fits(p, k, g[1], u + 1) /\ Cardinality(g[1].temp) = 1
  BY <1>1, <1>2, <1>5, <1>6, FitsTakes
<1>8. Fits(p, k, g[2], u + 2) /\ g[2].temp = g[1].temp
  BY <1>1, <1>2, <1>5, <1>6, <1>7, FitsTakes
<1>9. Fits(p, k, g[3], u + 1) /\ g[3].temp = {}
  BY <1>1, <1>2, <1>5, <1>6, <1>7, <1>8, FitsDrops
<1> QED
  BY <1>4, <1>9 DEF script

\* The bill of a piece of a script: it keeps c slots, and m suffice on the way.
Bill(script, c, m) ==
  \A p \in Sound, k \in Nat, u \in Nat : \A b :
    /\ p.used + k <= NSlots
    /\ Fits(p, k, b, u) /\ b.temp = {}
    /\ u + m <= k
    => Fits(p, k, Run(b, script), u + c) /\ Run(b, script).temp = {}

LEMMA BillPlain ==
  ASSUME NEW script \in Seq(Plain)
  PROVE  Bill(script, Len(script), Len(script))
BY FitsRun DEF Bill

LEMMA BillClone ==
  ASSUME NEW part \in {"pdu", "list"}
  PROVE  Bill(ClonedValue(part), 1, 2)
BY FitsClone DEF Bill

LEMMA BillConcat ==
  ASSUME NEW s \in Seq(Steps), NEW t \in Seq(Steps),
         NEW c \in Nat, NEW d \in Nat, NEW m \in Nat, NEW n \in Nat, NEW o \in Nat,
         Bill(s, c, m), Bill(t, d, n), m <= o, c + n <= o
  PROVE  Bill(s \o t, c + d, o)
<1> SUFFICES ASSUME NEW p \in Sound, NEW k \in Nat, NEW u \in Nat, NEW b,
                    p.used + k <= NSlots, Fits(p, k, b, u), b.temp = {}, u + o <= k
             PROVE  /\ Fits(p, k, Run(b, s \o t), u + (c + d))
                    /\ Run(b, s \o t).temp = {}
  BY DEF Bill
<1> DEFINE e == Run(b, s)
           v == u + c
<1>1. b \in Builds
  BY DEF Fits, Building
<1>2. Fits(p, k, e, v) /\ e.temp = {}
  BY DEF Bill
<1>3. Run(b, s \o t) = Run(e, t)
  BY <1>1, RunConcat
<1>4. v \in Nat /\ v + n <= k /\ v + d = u + (c + d)
  OBVIOUS
<1> HIDE DEF e, v
<1>5. Fits(p, k, Run(e, t), v + d) /\ Run(e, t).temp = {}
  BY <1>2, <1>4 DEF Bill
<1> QED
  BY <1>3, <1>4, <1>5

LEMMA PlainPieces ==
  /\ \A part \in {"root", "pdu", "list"} : Node(part) \in Plain /\ Leaf(part) \in Plain
  /\ Plain \subseteq Steps
  /\ ClonedValue("pdu") \in Seq(Steps) /\ ClonedValue("list") \in Seq(Steps)
<1>1. \A part \in Parts : Node(part) \in Steps /\ Leaf(part) \in Steps
  BY DEF Steps
<1>2. [kind |-> "drop", part |-> "temp"] \in Steps
  BY DEF Steps
<1>3. \A part \in {"root", "pdu", "list"} : Node(part) \in Plain /\ Leaf(part) \in Plain
  BY <1>1 DEF Parts, Plain, Node, Leaf
<1>4. ASSUME NEW part \in Parts PROVE ClonedValue(part) \in Seq(Steps)
  <2>1. "temp" \in Parts
    BY DEF Parts
  <2> QED
    BY <1>1, <1>2, <2>1 DEF ClonedValue
<1> QED
  BY <1>3, <1>4 DEF Plain, Parts

\* The varbind of a callback: three slots, four on the way.
LEMMA VarBindBill ==
  CallbackVarBind \in Seq(Steps) /\ Bill(CallbackVarBind, 3, 4)
<1> DEFINE A == <<Node("list"), Leaf("list")>>
           B == ClonedValue("list")
<1>1. A \in Seq(Plain) /\ A \in Seq(Steps) /\ Len(A) = 2 /\ B \in Seq(Steps)
  BY PlainPieces
<1>2. CallbackVarBind = A \o B
  BY DEF CallbackVarBind
<1> HIDE DEF A, B
<1>3. Bill(A, 2, 2)
  BY <1>1, BillPlain
<1>4. Bill(B, 1, 2)
  BY BillClone DEF B
<1>5. Bill(A \o B, 2 + 1, 4)
  BY <1>1, <1>3, <1>4, BillConcat
<1>6. 2 + 1 = 3
  OBVIOUS
<1> QED
  BY <1>1, <1>2, <1>5, <1>6

\* Everything before the sketch's own varbinds.
ScriptCost(n) == IF n.version = 1 THEN 10 ELSE 14

LEMMA FillBills ==
  /\ Envelope \in Seq(Steps) /\ Bill(Envelope, 4, 4)
  /\ FillPdu \in Seq(Steps) /\ Bill(FillPdu, 3, 3)
  /\ FillTrapPdu \in Seq(Steps) /\ Bill(FillTrapPdu, 5, 6)
  /\ <<Node("list")>> \in Seq(Steps) /\ Bill(<<Node("list")>>, 1, 1)
  /\ << >> \in Seq(Steps) /\ Bill(<< >>, 0, 0)
  /\ MandatoryVarBinds \in Seq(Steps) /\ Bill(MandatoryVarBinds, 6, 6)
<1> DEFINE A == <<Leaf("pdu"), Leaf("pdu"), Leaf("pdu"), Leaf("pdu")>>
           B == ClonedValue("pdu")
           C == <<Node("list"), Leaf("list")>>
           D == ClonedValue("list")
           E == <<Node("list"), Leaf("list"), Leaf("list")>>
           F == <<Node("list")>>
           G == << >>
<1>1. /\ Envelope \in Seq(Plain) /\ Len(Envelope) = 4
      /\ FillPdu \in Seq(Plain) /\ Len(FillPdu) = 3
      /\ F \in Seq(Plain) /\ Len(F) = 1 /\ G \in Seq(Plain) /\ Len(G) = 0
  BY PlainPieces DEF Envelope, FillPdu
<1>2. /\ A \in Seq(Plain) /\ Len(A) = 4
      /\ C \in Seq(Plain) /\ Len(C) = 2
      /\ E \in Seq(Plain) /\ Len(E) = 3
  BY PlainPieces
<1>3. B \in Seq(Steps) /\ D \in Seq(Steps)
  BY PlainPieces
<1>4. FillTrapPdu = A \o B /\ MandatoryVarBinds = (C \o D) \o E
  BY DEF FillTrapPdu, MandatoryVarBinds
<1>5. Bill(B, 1, 2) /\ Bill(D, 1, 2)
  BY BillClone
<1> HIDE DEF A, B, C, D, E, F, G
<1>6. \A s \in Seq(Plain) : s \in Seq(Steps)
  BY PlainPieces
<1>7. /\ Bill(Envelope, 4, 4) /\ Bill(FillPdu, 3, 3) /\ Bill(F, 1, 1) /\ Bill(G, 0, 0)
      /\ Bill(A, 4, 4) /\ Bill(C, 2, 2) /\ Bill(E, 3, 3)
  BY <1>1, <1>2, BillPlain
<1>8. A \o B \in Seq(Steps) /\ Bill(A \o B, 5, 6)
  <2>1. A \in Seq(Steps) /\ 4 \in Nat /\ 1 \in Nat /\ 2 \in Nat /\ 6 \in Nat
        /\ 4 <= 6 /\ 4 + 2 <= 6 /\ 4 + 1 = 5
    BY <1>2, <1>6
  <2>2. Bill(A \o B, 4 + 1, 6)
    BY <1>3, <1>5, <1>7, <2>1, BillConcat
  <2> QED
    BY <1>3, <2>1, <2>2
<1>9. C \o D \in Seq(Steps) /\ Bill(C \o D, 3, 4)
  <2>1. C \in Seq(Steps) /\ 2 \in Nat /\ 1 \in Nat /\ 4 \in Nat
        /\ 2 <= 4 /\ 2 + 2 <= 4 /\ 2 + 1 = 3
    BY <1>2, <1>6
  <2>2. Bill(C \o D, 2 + 1, 4)
    BY <1>3, <1>5, <1>7, <2>1, BillConcat
  <2> QED
    BY <1>3, <2>1, <2>2
<1>10. (C \o D) \o E \in Seq(Steps) /\ Bill((C \o D) \o E, 6, 6)
  <2> DEFINE H == C \o D
  <2>1. E \in Seq(Steps) /\ H \in Seq(Steps) /\ Bill(H, 3, 4)
    BY <1>2, <1>6, <1>9
  <2> HIDE DEF H
  <2>2. 3 \in Nat /\ 4 \in Nat /\ 6 \in Nat /\ 4 <= 6 /\ 3 + 3 <= 6 /\ 3 + 3 = 6
    OBVIOUS
  <2>3. Bill(H \o E, 3 + 3, 6)
    BY <1>7, <2>1, <2>2, BillConcat
  <2>4. H \o E \in Seq(Steps) /\ Bill(H \o E, 6, 6)
    BY <2>1, <2>2, <2>3
  <2> QED
    BY <2>4 DEF H
<1> QED
  BY <1>1, <1>4, <1>6, <1>7, <1>8, <1>10 DEF F, G

LEMMA ScriptBill ==
  ASSUME NEW n \in Notifications
  PROVE  Bill(Script(n), ScriptCost(n), ScriptCost(n))
<1> DEFINE fill == IF n.version = 1 THEN FillTrapPdu ELSE FillPdu
           mandatory == IF n.version = 1 THEN << >> ELSE MandatoryVarBinds
           list == <<Node("list")>>
           f == IF n.version = 1 THEN 5 ELSE 3
           m == IF n.version = 1 THEN 0 ELSE 6
           S == Envelope \o fill
           T == (Envelope \o fill) \o list
<1>1. /\ fill \in Seq(Steps) /\ f \in Nat /\ f + 1 \in Nat
      /\ Bill(fill, f, f + 1)
  <2>1. CASE n.version = 1
    BY <2>1, FillBills
  <2>2. CASE n.version # 1
    <3>1. Bill(FillPdu, 3, 4)
      <4>1. Bill(FillPdu, 3, 3)
        BY FillBills
      <4> QED
        BY <4>1 DEF Bill
    <3> QED
      BY <2>2, <3>1, FillBills
  <2> QED
    BY <2>1, <2>2
<1>2. mandatory \in Seq(Steps) /\ m \in Nat /\ Bill(mandatory, m, m)
  BY FillBills
<1>3. /\ Envelope \in Seq(Steps) /\ list \in Seq(Steps)
      /\ Bill(Envelope, 4, 4) /\ Bill(list, 1, 1)
  BY FillBills
<1>4. Script(n) = T \o mandatory
  BY DEF Script
<1>5. ScriptCost(n) = ((4 + f) + 1) + m /\ ScriptCost(n) \in Nat
      /\ (4 + f) + 1 <= ScriptCost(n)
  BY DEF ScriptCost
<1> HIDE DEF fill, mandatory, list, f, m, ScriptCost
<1>6. S \in Seq(Steps) /\ Bill(S, 4 + f, 5 + f)
  <2>1. 4 \in Nat /\ 5 + f \in Nat /\ 4 <= 5 + f /\ 4 + (f + 1) <= 5 + f
    BY <1>1
  <2>2. Bill(Envelope \o fill, 4 + f, 5 + f)
    BY <1>1, <1>3, <2>1, BillConcat
  <2> QED
    BY <1>1, <1>3, <2>2
<1> DEFINE c == 4 + f
           o == 5 + f
<1>7. c \in Nat /\ o \in Nat /\ c + 1 = o /\ Bill(S, c, o)
  BY <1>1, <1>6
<1>8. ScriptCost(n) = (c + 1) + m /\ c + 1 <= ScriptCost(n)
  BY <1>5
<1> HIDE DEF S, c, o
<1>9. T \in Seq(Steps) /\ Bill(T, c + 1, o)
  <2>1. o <= o /\ c + 1 <= o /\ 1 \in Nat
    BY <1>7
  <2>2. Bill(S \o list, c + 1, o)
    BY <1>3, <1>6, <1>7, <2>1, BillConcat
  <2> QED
    BY <1>3, <1>6, <2>2 DEF S
<1> HIDE DEF T
<1>10. Bill(T \o mandatory, o + m, ScriptCost(n))
  <2>1. o <= ScriptCost(n) /\ o + m <= ScriptCost(n)
    BY <1>2, <1>7, <1>8
  <2> QED
    BY <1>2, <1>5, <1>7, <1>9, <2>1, BillConcat
<1>11. o + m = ScriptCost(n)
  BY <1>7, <1>8
<1> QED
  BY <1>4, <1>10, <1>11

LEMMA VarBindsFit ==
  ASSUME NEW p \in Sound, NEW k \in Nat, p.used + k <= NSlots,
         NEW b, NEW u \in Nat, Fits(p, k, b, u), b.temp = {},
         NEW v \in Nat, u + 3 * v + 1 <= k
  PROVE  Fits(p, k, AddVarBinds(b, v), u + 3 * v) /\ AddVarBinds(b, v).temp = {}
<1>1. PICK g \in [0 .. v -> Builds] :
           /\ g[0] = b
           /\ \A i \in 1 .. v : g[i] = Run(g[i - 1], CallbackVarBind)
           /\ AddVarBinds(b, v) = g[v]
  BY VarBindSteps DEF Fits, Building
<1> DEFINE J == {i \in Nat : i <= v => Fits(p, k, g[i], u + 3 * i) /\ g[i].temp = {}}
<1>2. 0 \in J
  BY <1>1
<1>3. ASSUME NEW i \in Nat, i \in J PROVE i + 1 \in J
  <2> SUFFICES ASSUME i + 1 <= v
               PROVE  Fits(p, k, g[i + 1], u + 3 * (i + 1)) /\ g[i + 1].temp = {}
    OBVIOUS
  <2> DEFINE w == u + 3 * i
             c == g[i]
  <2>1. i + 1 \in 1 .. v /\ (i + 1) - 1 = i /\ Fits(p, k, c, w) /\ c.temp = {}
    BY <1>3
  <2>2. w \in Nat /\ w + 4 <= k /\ w + 3 = u + 3 * (i + 1)
    OBVIOUS
  <2>3. g[i + 1] = Run(c, CallbackVarBind)
    BY <1>1, <2>1
  <2> HIDE DEF w, c
  <2>4. Fits(p, k, Run(c, CallbackVarBind), w + 3) /\ Run(c, CallbackVarBind).temp = {}
    BY <2>1, <2>2, VarBindBill DEF Bill
  <2> QED
    BY <2>2, <2>3, <2>4
<1>4. Nat \subseteq J
  <2> HIDE DEF J
  <2> QED
    BY <1>2, <1>3, SetInduction
<1> QED
  BY <1>1, <1>4

\* A notification of v varbinds needs no more than 15 + 3 v slots, one less than
\* defs.h reserves for it: with so many free, its build misses nothing.
THEOREM NotificationCost ==
  ASSUME NEW p \in Sound, NEW n \in Notifications,
         p.used + 15 + 3 * n.varbinds <= NSlots
  PROVE  LET b == Build(p, n)
         IN  /\ b.ok /\ b.whole
             /\ b.pool.failed = p.failed
             /\ b.pool.occupied = p.occupied \cup b.tree.nodes
             /\ b.pool.used = p.used + Cardinality(b.tree.nodes)
             /\ \/ b.pool.peak <= p.peak
                \/ b.pool.peak <= p.used + (15 + 3 * n.varbinds)
<1> DEFINE v == n.varbinds
           k == 15 + 3 * v
           u == ScriptCost(n)
           f == Run(NewBuild(p), Script(n))
           e == AddVarBinds(f, v)
           b == Build(p, n)
<1>1. v \in Nat /\ k \in Nat /\ u \in Nat /\ u + 3 * v + 1 <= k /\ u <= k
  BY DEF Notifications, ScriptCost
<1>2. p.used \in Nat /\ p.used + k <= NSlots
  BY <1>1, SoundPools
<1> HIDE DEF v, k, u
<1>3. Fits(p, k, f, u) /\ f.temp = {}
  <2> DEFINE nb == NewBuild(p)
  <2>1. Fits(p, k, nb, 0) /\ nb.temp = {}
    BY <1>1, NewFits
  <2>2. Bill(Script(n), u, u)
    BY ScriptBill DEF u
  <2> HIDE DEF nb
  <2>3. 0 + u <= k /\ 0 + u = u
    BY <1>1
  <2>4. Fits(p, k, Run(nb, Script(n)), 0 + u) /\ Run(nb, Script(n)).temp = {}
    BY <1>1, <1>2, <2>1, <2>2, <2>3 DEF Bill
  <2> QED
    BY <2>3, <2>4 DEF nb
<1> HIDE DEF f
<1>4. Fits(p, k, e, u + 3 * v) /\ e.temp = {}
  BY <1>1, <1>2, <1>3, VarBindsFit
<1>5. b = Built(p, e)
  BY DEF Build, v, f
<1> HIDE DEF e
<1>6. /\ b.pool = e.pool /\ b.ok = e.ok /\ b.whole = e.whole
      /\ b.tree = PacketOf(p, e)
  BY <1>5 DEF Built
<1> HIDE DEF b
<1>7. CanAlloc(p)
  <2>1. p.used < NSlots
    BY <1>1, <1>2, NSlotsAssumption DEF k
  <2> QED
    BY <2>1, RoomToAlloc
<1>8. b.tree.nodes = Held(e)
  BY <1>4, <1>6, <1>7 DEF PacketOf, Held, Fits
<1>9. /\ e.ok /\ e.whole /\ e.pool.failed = p.failed
      /\ e.pool.occupied = p.occupied \cup Held(e)
      /\ e.pool.used = p.used + Cardinality(Held(e))
      /\ e.pool.peak <= p.peak \/ e.pool.peak <= p.used + k
  BY <1>4 DEF Fits
<1>10. /\ b.ok /\ b.whole
       /\ b.pool.failed = p.failed
       /\ b.pool.occupied = p.occupied \cup b.tree.nodes
       /\ b.pool.used = p.used + Cardinality(b.tree.nodes)
       /\ b.pool.peak <= p.peak \/ b.pool.peak <= p.used + k
  BY <1>6, <1>8, <1>9
<1> QED
  BY <1>10 DEF b, k, v

-----------------------------------------------------------------------------
(* A sketch within its reserve.                                             *)

\* The most slots that are taken at once in pools p and then q, if h is the
\* limit.
Within(p, q, h) == q.peak <= p.peak \/ q.peak <= h

\* sendTo() with room for the notification: nothing fails or is missing, and
\* what the reset leaves is all that is left, except the old tree.
LEMMA SendFits ==
  ASSUME NEW p \in Sound, NEW t \in Trees, NEW n \in Notifications,
         t.root \subseteq p.occupied, t.root \subseteq t.nodes,
         \A r \in t.root, x \in t.nodes : r <= x,
         ResetAll(p).used + 15 + 3 * n.varbinds <= NSlots
  PROVE  LET s == SendTo(p, t, n)
             q == ResetAll(p)
         IN  /\ ~s.partial
             /\ s.pool.failed = p.failed
             /\ s.pool.occupied = q.occupied \ t.nodes
             /\ s.pool.used <= q.used
             /\ Within(p, s.pool, q.used + (15 + 3 * n.varbinds))
<1> DEFINE q == ResetAll(p)
           u == AfterReset(p, t)
           d == Destroy(q, u)
           b == Build(d, n)
           e == Destroy(b.pool, b.tree)
           k == 15 + 3 * n.varbinds
<1>1. /\ q \in Sound /\ q.peak = p.peak /\ q.failed = p.failed
      /\ q.occupied = {s \in p.occupied : s < q.perm}
  BY ResetSound
<1>2. u \in Trees /\ u.root = t.root /\ u.nodes = t.nodes
  BY DEF AfterReset, Trees
<1>3. SendTo(p, t, n) = Sent(b)
  BY DEF SendTo, BuildForSending
<1>4. q.used \in Nat /\ p.peak \in Nat /\ k \in Nat /\ q.used + k <= NSlots
      /\ NSlots \in Nat /\ q.perm \in Nat
  BY <1>1, SoundPools, NSlotsAssumption DEF Notifications
<1> HIDE DEF q, u
<1>5. /\ d \in Sound /\ d.peak = q.peak /\ d.failed = q.failed
      /\ d.used <= q.used
      /\ u.root \subseteq q.occupied => d.occupied = q.occupied \ u.nodes
      /\ ~(u.root \subseteq q.occupied) => d.occupied = q.occupied \ u.root
  BY <1>1, <1>2, DestroyReleases
<1> HIDE DEF d
<1>6. d.occupied = q.occupied \ t.nodes
  <2>1. CASE u.root \subseteq q.occupied
    BY <1>2, <1>5, <2>1
  <2>2. CASE ~(u.root \subseteq q.occupied)
    <3>1. PICK r \in t.root : r \notin q.occupied
      BY <1>2, <2>2
    <3>2. p.occupied \subseteq Int /\ t.root \subseteq Int /\ t.nodes \subseteq Int
      BY SoundPools DEF Trees, Slots
    <3>3. ~(r < q.perm)
      BY <1>1, <3>1
    <3>4. ASSUME NEW x \in t.nodes PROVE x \notin q.occupied
      BY <1>1, <1>4, <3>1, <3>2, <3>3
    <3> QED
      BY <1>2, <1>5, <2>2, <3>4
  <2> QED
    BY <2>1, <2>2
<1>7. d.used \in Nat /\ d.used + k <= NSlots
  BY <1>4, <1>5, SoundPools
<1>8. /\ b.ok /\ b.whole
      /\ b.pool.failed = d.failed
      /\ b.pool.occupied = d.occupied \cup b.tree.nodes
      /\ b.pool.used = d.used + Cardinality(b.tree.nodes)
      /\ b.pool.peak <= d.peak \/ b.pool.peak <= d.used + k
  <2>1. d.used + 15 + 3 * n.varbinds <= NSlots
    BY <1>7 DEF Notifications
  <2> QED
    BY <1>5, <2>1, NotificationCost
<1>9. /\ b.pool \in Sound /\ b.tree \in Trees
      /\ b.tree.root \subseteq b.tree.nodes
      /\ b.tree.nodes \subseteq b.pool.occupied \ d.occupied
  BY <1>5, BuildTakesFreeSlots
<1> HIDE DEF b, k
<1>10. /\ e \in Sound /\ e.peak = b.pool.peak /\ e.failed = b.pool.failed
       /\ e.occupied = b.pool.occupied \ b.tree.nodes
       /\ e.used = b.pool.used - Cardinality(b.tree.nodes)
  <2> DEFINE bp == b.pool
             bt == b.tree
  <2>1. /\ bp \in Sound /\ bt \in Trees
        /\ bt.root \subseteq bp.occupied /\ bt.nodes \subseteq bp.occupied
    BY <1>9
  <2>2. e = Destroy(bp, bt)
    OBVIOUS
  <2> HIDE DEF bp, bt, e
  <2>3. /\ e \in Sound /\ e.peak = bp.peak /\ e.failed = bp.failed
        /\ e.occupied = bp.occupied \ bt.nodes
        /\ e.used = bp.used - Cardinality(bt.nodes)
    <3>1. /\ e \in Sound /\ e.peak = bp.peak /\ e.failed = bp.failed
          /\ bt.root \subseteq bp.occupied => e.occupied = bp.occupied \ bt.nodes
      BY <2>1, <2>2, DestroyReleases, ZenonT(30)
    <3>2. bt.nodes \subseteq bp.occupied /\ bt.root \subseteq bp.occupied
            => e.used = bp.used - Cardinality(bt.nodes)
      BY <2>1, <2>2, DestroyReleases, ZenonT(30)
    <3> QED
      BY <2>1, <3>1, <3>2
  <2> QED
    BY <2>3 DEF bp, bt
<1> HIDE DEF e
<1>11. Cardinality(b.tree.nodes) \in Nat
  BY <1>9, SlotSets DEF Trees
<1>12. e.used <= q.used /\ e.occupied = q.occupied \ t.nodes
  <2>1. e.used = d.used
    BY <1>7, <1>8, <1>10, <1>11
  <2> QED
    BY <1>5, <1>6, <1>8, <1>9, <1>10, <2>1
<1>13. Within(p, e, q.used + k)
  <2>1. e.peak \in Nat /\ d.used <= q.used
    BY <1>5, <1>10, SoundPools
  <2>2. e.peak <= p.peak \/ e.peak <= d.used + k
    BY <1>1, <1>5, <1>8, <1>10
  <2> QED
    BY <1>4, <1>7, <2>1, <2>2 DEF Within
<1>14. Sent(b).pool = e /\ ~Sent(b).partial
  BY <1>8 DEF Sent, ReleasePoolState, e
<1>15. e.failed = p.failed
  BY <1>1, <1>5, <1>8, <1>10
<1> QED
  BY <1>3, <1>12, <1>13, <1>14, <1>15 DEF q, k

\* Decoding n values with n slots free.
LEMMA AllocManyFits ==
  ASSUME NEW p \in Sound, NEW n \in Nat, p.used + n <= NSlots
  PROVE  LET a == AllocMany(p, n)
         IN  /\ a.pool.failed = p.failed
             /\ a.pool.occupied = p.occupied \cup a.list
             /\ Cardinality(a.list) = n
             /\ a.pool.used = p.used + n
             /\ Within(p, a.pool, p.used + n)
<1> DEFINE script == [i \in 1 .. n |-> Leaf("list")]
           V == {c \in Builds : c.ok /\ c.root = {} /\ c.pdu = {}}
           nb == NewBuild(p)
           a == AllocMany(p, n)
<1>1. Leaf("list") \in Plain /\ Leaf("list") \in Steps
      /\ Leaf("list").kind = "leaf" /\ Leaf("list").part = "list"
  BY PlainPieces DEF Leaf
<1>2. /\ script \in Seq(Plain) /\ script \in Seq(Steps) /\ Len(script) = n
      /\ \A i \in 1 .. n : script[i] = Leaf("list")
  BY <1>1
<1>3. nb \in V /\ nb \in Builds /\ nb.temp = {} /\ Fits(p, n, nb, 0)
  BY NewBuilding, NewFits DEF NewBuild, Building
<1>4. a = Run(nb, script)
  BY DEF AllocMany
<1> HIDE DEF script, nb, a
<1>5. Fits(p, n, a, n) /\ a.temp = {}
  <2>1. 0 + Len(script) <= n /\ 0 + Len(script) = n
    BY <1>2
  <2> QED
    BY <1>2, <1>3, <1>4, <2>1, FitsRun
<1>6. ASSUME NEW c \in V \cap Builds, NEW i \in 1 .. Len(script)
      PROVE  BuildStep(c, script[i]) \in V
  <2>1. c \in Builds /\ c.ok /\ c.root = {} /\ c.pdu = {} /\ script[i] = Leaf("list")
    BY <1>2, <1>6
  <2>2. CASE CanAlloc(c.pool)
    <3> DEFINE l == Leaf("list")
    <3>1. l \in Steps /\ l.kind # "drop" /\ l.part # "root" /\ l.part # "pdu"
      BY <1>1
    <3> HIDE DEF l
    <3>2. /\ BuildStep(c, l) \in Builds /\ BuildStep(c, l).ok
          /\ BuildStep(c, l).root = c.root /\ BuildStep(c, l).pdu = c.pdu
      BY <2>1, <2>2, <3>1, StepTaken
    <3> QED
      BY <2>1, <3>2 DEF l
  <2>3. CASE ~CanAlloc(c.pool)
    BY <1>1, <2>1, <2>3, StepMissing
  <2> QED
    BY <2>2, <2>3
<1>7. a \in V
  <2> HIDE DEF V
  <2> QED
    BY <1>2, <1>3, <1>4, <1>6, RunKeeps
<1>8. Held(a) = a.list
  BY <1>5, <1>7 DEF Held
<1>9. /\ a.pool.failed = p.failed
      /\ a.pool.occupied = p.occupied \cup a.list
      /\ Cardinality(a.list) = n
      /\ a.pool.used = p.used + n
      /\ Within(p, a.pool, p.used + n)
  BY <1>5, <1>8 DEF Fits, Within
<1> QED
  BY <1>9 DEF a

\* The pool is as large as defs.h derives it: the handlers, the larger of a
\* notification within the reserve and the values of a request, and four idle
\* slots.  (GETBULK stages one value more than the two per varbind defs.h counts.)
PoolFits ==
  /\ Handlers + (16 + 3 * Reserve) + 4 <= NSlots
  /\ Handlers + (2 * MaxVarBinds + 1) + 4 <= NSlots

\* Only the handlers and the packet being handled hold slots, and nothing has
\* ever been missing.
Served ==
  /\ pool.occupied = handlers \cup decoded
  /\ pool.used <= Handlers + Cardinality(decoded)
  /\ ~pool.failed /\ ~partial
  /\ pool.peak <= NSlots - 4

ReserveInv == WithinReserve /\ BaselineIsHandlers => Served

LEMMA ReserveFits ==
  ASSUME PoolFits, WithinReserve, TickTypes, NEW t \in Traps
  PROVE  /\ kind[t] \in Notifications /\ kind[t].varbinds \in Nat
         /\ Handlers + 15 + 3 * kind[t].varbinds <= NSlots
         /\ Handlers + (15 + 3 * kind[t].varbinds) <= NSlots - 4
         /\ NSlots \in Nat /\ Handlers \in Nat
<1>1. kind[t] \in Notifications
  BY TypedTrees DEF TickTypes
<1>2. kind[t].varbinds \in Nat /\ kind[t].varbinds <= Reserve
  BY <1>1 DEF WithinReserve, Notifications
<1> DEFINE v == kind[t].varbinds
<1>3. v \in Nat /\ v <= Reserve
  BY <1>2
<1> HIDE DEF v
<1>4. Handlers + 15 + 3 * v <= NSlots /\ Handlers + (15 + 3 * v) <= NSlots - 4
      /\ NSlots \in Nat /\ Handlers \in Nat
  BY <1>3, TickAssumption, NSlotsAssumption DEF PoolFits
<1> QED
  BY <1>1, <1>2, <1>4 DEF v

\* A reset between ticks leaves exactly the handlers.
LEMMA ResetServes ==
  ASSUME Stateless, PoolInv, Served, decoded = {}
  PROVE  LET q == ResetAll(pool)
         IN  /\ q \in Sound /\ q.frozen /\ q.used = q.perm
             /\ q.occupied = handlers
             /\ ~q.failed /\ q.peak <= NSlots - 4
<1> DEFINE q == ResetAll(pool)
<1>1. /\ q \in Sound /\ q.frozen
      /\ \A s \in handlers : s < q.perm
  BY ResetKeepsHandlers
<1>2. /\ q.used = q.perm /\ q.peak = pool.peak /\ q.failed = pool.failed
      /\ q.occupied = {s \in pool.occupied : s < q.perm}
  BY ResetSound DEF Stateless, TickTypes
<1> HIDE DEF q
<1>3. q.occupied = handlers
  BY <1>1, <1>2 DEF Served
<1> QED
  BY <1>1, <1>2, <1>3 DEF Served, q

\* Each retry of a pass rebuilds its notification and gives every slot back.
LEMMA PassServes ==
  ASSUME PoolFits, WithinReserve, TickTypes, ~partial,
         NEW p \in Sound, p.frozen, p.perm <= Handlers, p.used <= Handlers,
         ~p.failed, p.peak <= NSlots - 4, \A s \in p.occupied : s < p.perm,
         NEW trees \in [Traps -> Trees], \A t \in Traps : trees[t] = NoTree,
         NEW waiting \in SUBSET Traps,
         HandleInformQueue(p, trees, waiting)
  PROVE  /\ pool'.occupied = p.occupied /\ pool'.used <= Handlers
         /\ ~pool'.failed /\ ~partial' /\ pool'.peak <= NSlots - 4
<1> DEFINE start == [pool |-> p, tree |-> trees, partial |-> partial]
           W == {a \in Passes :
                   /\ \A t \in Traps : a.tree[t] = NoTree
                   /\ a.pool.frozen /\ a.pool.perm = p.perm
                   /\ a.pool.occupied = p.occupied /\ a.pool.used <= Handlers
                   /\ ~a.pool.failed /\ ~a.partial
                   /\ a.pool.peak <= NSlots - 4}
<1>1. PICK due \in SUBSET waiting :
        /\ pool' = RetryAll(p, trees, due).pool
        /\ partial' = RetryAll(p, trees, due).partial
  BY DEF HandleInformQueue
<1>2. kind \in Fleets /\ partial \in BOOLEAN
  BY DEF TickTypes, TypeOK
<1>3. start \in W
  <2>1. start \in Passes
    BY <1>2 DEF Passes
  <2> QED
    BY <2>1
<1>4. ASSUME NEW a \in W, NEW t \in Traps PROVE Retry(a, t) \in W
  <2> DEFINE s == SendTo(a.pool, NoTree, kind[t])
             q == ResetAll(a.pool)
             k == 15 + 3 * kind[t].varbinds
  <2>1. /\ a \in Passes /\ a.pool \in Sound
        /\ \A u \in Traps : a.tree[u] = NoTree
        /\ a.pool.frozen /\ a.pool.perm = p.perm
        /\ a.pool.occupied = p.occupied /\ a.pool.used <= Handlers
        /\ ~a.pool.failed /\ ~a.partial
        /\ a.pool.peak <= NSlots - 4
    BY <1>4 DEF Passes
  <2>2. /\ Retry(a, t) \in Passes
        /\ Retry(a, t).tree[t] = NoTree
        /\ \A u \in Traps \ {t} : Retry(a, t).tree[u] = AfterReset(a.pool, a.tree[u])
        /\ Retry(a, t).pool = s.pool
    <3>1. /\ Retry(a, t) \in Passes
          /\ Retry(a, t).tree[t] = NoTree
          /\ \A u \in Traps \ {t} : Retry(a, t).tree[u] = AfterReset(a.pool, a.tree[u])
          /\ Retry(a, t).pool = SendTo(a.pool, a.tree[t], kind[t]).pool
      BY <1>2, <2>1, RetryTypes
    <3>2. a.tree[t] = NoTree
      BY <2>1
    <3> QED
      BY <3>1, <3>2
  <2>3. Retry(a, t).partial = (a.partial \/ s.partial)
    <3>1. a.tree[t] = NoTree
      BY <2>1
    <3> QED
      BY <3>1 DEF Retry, Retried
  <2>4. \A u \in Traps : Retry(a, t).tree[u] = NoTree
    BY <2>1, <2>2, NullStaysNull
  <2>5. /\ q \in Sound /\ q.perm = p.perm /\ q.used = p.perm
        /\ q.occupied = {x \in a.pool.occupied : x < q.perm}
    BY <2>1, ResetSound
  <2>6. q.occupied = p.occupied
    BY <2>1, <2>5
  <2>7. /\ kind[t] \in Notifications
        /\ Handlers + 15 + 3 * kind[t].varbinds <= NSlots
        /\ Handlers + k <= NSlots - 4
    BY ReserveFits
  <2>8. NoTree \in Trees /\ NoTree.root = {} /\ NoTree.nodes = {}
    BY TypedTrees DEF NoTree
  <2>9. s.pool.frozen /\ s.pool.perm = q.perm
    BY <2>1, <2>7, <2>8, SendLeavesNothing
  <2>10. /\ ~s.partial
         /\ s.pool.failed = a.pool.failed
         /\ s.pool.occupied = q.occupied \ NoTree.nodes
         /\ s.pool.used <= q.used
         /\ Within(a.pool, s.pool, q.used + k)
    <3>1. q.used + 15 + 3 * kind[t].varbinds <= NSlots
      <4>1. q.used \in Nat /\ q.used <= Handlers
        BY <2>5, SoundPools
      <4>2. kind[t].varbinds \in Nat /\ Handlers \in Nat /\ NSlots \in Nat
        BY ReserveFits
      <4> HIDE DEF q
      <4> QED
        BY <2>7, <4>1, <4>2
    <3> QED
      BY <2>1, <2>7, <2>8, <3>1, SendFits
  <2> HIDE DEF s, q, k
  <2>11. s.pool.peak <= NSlots - 4
    <3>1. s.pool.peak \in Nat /\ a.pool.peak \in Nat
      BY <2>1, <2>2, SoundPools DEF Passes
    <3>2. s.pool.peak <= a.pool.peak \/ s.pool.peak <= q.used + k
      BY <2>10 DEF Within
    <3>5. q.used \in Nat /\ q.used <= Handlers
      BY <2>5, SoundPools
    <3>3. k \in Nat /\ Handlers \in Nat /\ NSlots \in Nat
      BY ReserveFits DEF k
    <3>4. a.pool.peak <= NSlots - 4 /\ Handlers + k <= NSlots - 4
      BY <2>1, <2>7
    <3> QED
      BY <3>1, <3>2, <3>3, <3>4, <3>5
  <2>12. s.pool.occupied = p.occupied /\ s.pool.used <= Handlers
    <3>1. s.pool.used <= q.used /\ q.used <= Handlers
      BY <2>5, <2>10
    <3>2. s.pool.used \in Nat /\ q.used \in Nat /\ Handlers \in Nat
      BY <2>2, <2>5, ReserveFits, SoundPools DEF Passes
    <3>3. s.pool.occupied = p.occupied
      BY <2>6, <2>8, <2>10
    <3> QED
      BY <3>1, <3>2, <3>3
  <2> QED
    BY <2>1, <2>2, <2>3, <2>4, <2>5, <2>9, <2>10, <2>11, <2>12
<1>5. RetryAll(p, trees, due) \in W
  <2>1. due \in SUBSET Traps
    OBVIOUS
  <2> HIDE DEF W
  <2> QED
    BY <1>3, <1>4, <2>1, RetryFold
<1> QED
  BY <1>1, <1>5

LEMMA InitReserve == PoolFits /\ Init => ReserveInv
<1> SUFFICES ASSUME PoolFits, Init PROVE Served
  BY DEF ReserveInv
<1>1. Handlers \in Nat /\ NSlots \in Nat /\ Reserve \in Nat
  BY TickAssumption, NSlotsAssumption
<1>2. /\ pool.occupied = 0 .. Handlers - 1 /\ pool.used = Handlers
      /\ ~pool.failed /\ pool.peak = Handlers
  <2>1. /\ AfterSetup.occupied = 0 .. Handlers - 1 /\ AfterSetup.used = Handlers
        /\ ~AfterSetup.failed /\ AfterSetup.peak = Handlers
    BY DEF AfterSetup, EmptyPool
  <2>2. CASE pool = AfterSetup
    BY <2>1, <2>2
  <2>3. CASE pool = FreezePermCount(AfterSetup)
    <3>1. HighWater(AfterSetup) = Handlers
      BY AfterSetupSound
    <3>2. /\ pool.occupied = AfterSetup.occupied /\ pool.peak = AfterSetup.peak
          /\ pool.failed = AfterSetup.failed
          /\ pool.used = IF HighWater(AfterSetup) < AfterSetup.used
                         THEN HighWater(AfterSetup) ELSE AfterSetup.used
      BY <2>3 DEF FreezePermCount, AfterSetup, EmptyPool
    <3> QED
      BY <1>1, <2>1, <3>1, <3>2
  <2> QED
    BY <2>2, <2>3 DEF Init
<1>3. handlers = 0 .. Handlers - 1 /\ decoded = {} /\ ~partial
  BY DEF Init
<1>4. Cardinality(decoded) = 0
  BY <1>3, FS_EmptySet
<1> QED
  BY <1>1, <1>2, <1>3, <1>4 DEF Served, PoolFits

LEMMA StepReserve ==
  Disciplined /\ PoolFits /\ TickInv /\ ReserveInv /\ [Next]_vars => ReserveInv'
<1> SUFFICES ASSUME Disciplined, PoolFits, Stateless, PoolInv, ReserveInv, [Next]_vars,
                    WithinReserve', BaselineIsHandlers'
             PROVE  Served'
  BY DEF TickInv, ReserveInv
<1>1. kind' = kind
  BY DEF Next, vars, QueueAndSendTrap, DestroyTrap, DestroyHandler, LoopRequest,
         LoopResponse, LoopAcknowledge
<1>2. WithinReserve /\ (BaselineIsHandlers => Served) /\ pool'.perm <= Handlers
  BY <1>1 DEF WithinReserve, ReserveInv, BaselineIsHandlers
<1>3. /\ TickTypes /\ pool \in Sound /\ tree \in [Traps -> Trees] /\ pending \subseteq Traps
      /\ decoded \in SUBSET Slots /\ handlers \in SUBSET Slots
      /\ \A t \in Traps : tree[t] = NoTree
      /\ handlers \subseteq 0 .. Handlers - 1 /\ handlers \cap decoded = {}
  BY TypedTrees DEF Stateless, TickTypes, PoolInv
<1>4. /\ Handlers \in Nat /\ NSlots \in Nat /\ MaxVarBinds \in Nat
      /\ pool.used \in Nat /\ pool.peak \in Nat
      /\ Cardinality(decoded) \in Nat /\ Cardinality({}) = 0
  BY <1>3, TickAssumption, NSlotsAssumption, SoundPools, SlotSets, FS_EmptySet
\* no step lowers the baseline, so it was the handlers' before this one
<1>5. ASSUME pool.frozen => pool'.perm = pool.perm PROVE Served
  <2>1. pool.perm <= Handlers
    BY <1>2, <1>4, <1>5 DEF PoolInv
  <2> QED
    BY <1>2, <2>1 DEF BaselineIsHandlers
<1>6. ASSUME NEW t \in Traps, QueueAndSendTrap(t) PROVE Served'
  <2> DEFINE d == Destroy(pool, tree[t])
             b == BuildForSending(pool, tree[t], kind[t])
             e == Destroy(b.pool, b.tree)
             q == ResetAll(b.pool)
             sent == SendTo(b.pool, b.tree, kind[t])
             k == 15 + 3 * kind[t].varbinds
  <2>1. /\ \/ ~b.ok /\ pool' = e
           \/ SendGoesOut(t, b, sent)
        /\ UNCHANGED <<handlers, decoded>>
        /\ acking = {}
    <3>1. /\ SendBuildFails(t, b) \/ SendGoesOut(t, b, sent)
          /\ UNCHANGED <<handlers, decoded>>
          /\ acking = {}
      BY <1>6, NeverFull
      DEF QueueAndSendTrap, SendFindsQueueFull, Stateless, MaySend, Disciplined
    <3> QED
      BY <3>1 DEF SendBuildFails, ReleasePoolState
  <2>2. decoded = {}
    BY <2>1 DEF PoolInv
  <2>3. kind[t] \in Notifications
    BY <1>3, TypedTrees DEF TickTypes
  <2>4. /\ d \in Sound /\ Quiet(pool, d) /\ d.occupied = pool.occupied
        /\ d.used = pool.used /\ d.peak = pool.peak /\ d.failed = pool.failed
    BY <1>3, DestroyNothing
  <2>5. b = Build(d, kind[t])
    BY DEF BuildForSending
  <2> HIDE DEF b, d
  <2>6. /\ b.pool \in Sound /\ b.tree \in Trees /\ Quiet(d, b.pool)
        /\ b.tree.root \subseteq b.tree.nodes
        /\ b.tree.nodes \subseteq b.pool.occupied \ d.occupied
        /\ \A r \in b.tree.root, x \in b.tree.nodes : r <= x
    BY <2>3, <2>4, <2>5, BuildTakesFreeSlots
  <2>7. Quiet(b.pool, e)
    BY <2>6, DestroyReleases
  <2>8. /\ q \in Sound /\ q.used = q.perm
        /\ q.occupied = {s \in b.pool.occupied : s < q.perm}
        /\ b.pool.frozen => q.perm = b.pool.perm
        /\ ~b.pool.frozen => \A s \in b.pool.occupied : s < q.perm
    BY <2>6, ResetSound
  <2>9. sent.pool \in Sound /\ sent.pool.perm = q.perm
    BY <2>3, <2>6, SendLeavesNothing
  <2> HIDE DEF sent, q, e
  <2>10. Served
    <3>1. b.pool.frozen = pool.frozen /\ b.pool.perm = pool.perm /\ e.perm = pool.perm
      BY <2>4, <2>6, <2>7 DEF Quiet
    <3>2. CASE pool' = e
      BY <1>5, <3>1, <3>2
    <3>3. CASE SendGoesOut(t, b, sent)
      BY <1>5, <2>8, <2>9, <3>1, <3>3 DEF SendGoesOut
    <3> QED
      BY <2>1, <3>2, <3>3
  <2>11. /\ pool.occupied = handlers /\ pool.used <= Handlers
         /\ ~pool.failed /\ ~partial /\ pool.peak <= NSlots - 4
    BY <1>4, <2>2, <2>10 DEF Served
  <2>12. /\ k \in Nat /\ kind[t].varbinds \in Nat
         /\ Handlers + 15 + 3 * kind[t].varbinds <= NSlots
         /\ Handlers + k <= NSlots - 4
    BY <1>2, <1>3, ReserveFits
  <2>13. d.used + 15 + 3 * kind[t].varbinds <= NSlots
    BY <1>4, <2>4, <2>11, <2>12 DEF k
  <2>14. /\ b.ok /\ b.pool.failed = d.failed
         /\ b.pool.occupied = d.occupied \cup b.tree.nodes
         /\ b.pool.peak <= d.peak \/ b.pool.peak <= d.used + k
    BY <2>3, <2>4, <2>5, <2>13, NotificationCost
  <2>15. pool' = sent.pool /\ partial' = (partial \/ sent.partial)
    BY <2>1, <2>14 DEF SendGoesOut
  <2>16. q.used \in Nat /\ q.used <= Handlers
    BY <1>2, <2>8, <2>9, <2>15, SoundPools
  <2>17. \A s \in handlers : s < q.perm
    <3>1. CASE pool.frozen
      BY <2>4, <2>6, <2>8, <3>1 DEF PoolInv, Quiet
    <3>2. CASE ~pool.frozen
      BY <2>4, <2>6, <2>8, <2>11, <2>14, <3>2 DEF Quiet
    <3> QED
      BY <3>1, <3>2
  <2>18. q.occupied \ b.tree.nodes = handlers
    BY <2>4, <2>6, <2>8, <2>11, <2>14, <2>17
  <2> HIDE DEF k
  <2>19. b.pool.peak <= NSlots - 4 /\ b.pool.peak \in Nat
    <3>1. b.pool.peak \in Nat
      BY <2>6, SoundPools
    <3> QED
      BY <1>4, <2>4, <2>11, <2>12, <2>14, <3>1
  <2>20. /\ ~sent.partial
         /\ sent.pool.failed = b.pool.failed
         /\ sent.pool.occupied = q.occupied \ b.tree.nodes
         /\ sent.pool.used <= q.used
         /\ Within(b.pool, sent.pool, q.used + k)
    <3>1. b.tree.root \subseteq b.pool.occupied
      BY <2>6
    <3>2. q.used + 15 + 3 * kind[t].varbinds <= NSlots
      BY <1>4, <2>12, <2>16
    <3> QED
      BY <2>3, <2>6, <3>1, <3>2, SendFits DEF k, q, sent
  <2>21. sent.pool.peak <= NSlots - 4 /\ sent.pool.used <= Handlers
    <3>1. sent.pool.peak \in Nat /\ sent.pool.used \in Nat
      BY <2>9, SoundPools
    <3>2. sent.pool.peak <= b.pool.peak \/ sent.pool.peak <= q.used + k
      BY <2>20 DEF Within
    <3> QED
      BY <1>4, <2>12, <2>16, <2>19, <2>20, <3>1, <3>2
  <2>22. /\ pool'.occupied = handlers /\ pool'.used <= Handlers
         /\ ~pool'.failed /\ ~partial' /\ pool'.peak <= NSlots - 4
    BY <2>4, <2>11, <2>14, <2>15, <2>18, <2>20, <2>21
  <2> QED
    BY <1>4, <2>1, <2>2, <2>22 DEF Served
<1>7. ASSUME NEW t \in Traps, DestroyTrap(t) PROVE Served'
  <2> DEFINE d == Destroy(pool, tree[t])
  <2>1. pool' = d /\ UNCHANGED <<handlers, decoded, partial>>
    BY <1>7 DEF DestroyTrap, ReleasePoolState
  <2>2. /\ d.occupied = pool.occupied
        /\ d.used = pool.used /\ d.peak = pool.peak /\ d.failed = pool.failed
    BY <1>3, DestroyNothing
  <2>3. d.perm = pool.perm
    BY <1>3, DestroyNothing DEF Quiet
  <2> HIDE DEF d
  <2>4. Served
    BY <1>5, <2>1, <2>3
  <2> QED
    BY <2>1, <2>2, <2>4 DEF Served
<1>8. ASSUME NEW s \in handlers, DestroyHandler(s) PROVE Served'
  <2>1. /\ pool' = Release(pool, s) /\ handlers' = handlers \ {s}
        /\ UNCHANGED <<decoded, partial>>
    BY <1>8 DEF DestroyHandler
  <2> DEFINE d == Release(pool, s)
  <2>2. /\ d \in Sound /\ d.occupied = pool.occupied \ {s} /\ d.perm = pool.perm
        /\ d.used <= pool.used /\ d.peak = pool.peak /\ d.failed = pool.failed
    BY <1>3, ReleaseOne
  <2>3. d.used \in Nat
    BY <2>2, SoundPools
  <2> HIDE DEF d
  <2>6. Served
    BY <1>5, <2>1, <2>2 DEF d
  <2>4. d.occupied = (handlers \ {s}) \cup decoded
    BY <1>3, <2>2, <2>6 DEF Served
  <2>5. d.used <= Handlers + Cardinality(decoded)
    BY <1>4, <2>2, <2>3, <2>6 DEF Served
  <2> QED
    BY <2>1, <2>2, <2>4, <2>5, <2>6 DEF Served, d
<1>9. ASSUME NEW n \in 0 .. 2 * MaxVarBinds + 1, LoopRequest(n) PROVE Served'
  <2> DEFINE r == ResetAll(pool)
             a == AllocMany(r, n)
             p == ReleaseAll(a.pool, a.list)
  <2>1. /\ HandleInformQueue(p, TreesAfterReset(pool), pending)
        /\ acking = {} /\ UNCHANGED <<handlers, decoded>>
    BY <1>9 DEF LoopRequest
  <2>2. decoded = {}
    BY <2>1 DEF PoolInv
  <2>3. /\ r \in Sound /\ r.frozen
        /\ pool.frozen => r.perm = pool.perm
        /\ \A s \in handlers : s < r.perm
        /\ handlers \subseteq r.occupied /\ r.warned = {}
    BY <1>3, ResetKeepsHandlers
  <2>4. n \in Nat /\ Handlers + n <= NSlots - 4 /\ Handlers + n <= NSlots
    BY <1>4 DEF PoolFits
  <2> HIDE DEF r
  <2>5. /\ a.pool \in Sound /\ Quiet(r, a.pool)
        /\ r.occupied \subseteq a.pool.occupied
        /\ a.list \in SUBSET Slots /\ a.list \subseteq a.pool.occupied \ r.occupied
    BY <2>3, <2>4, AllocManyTakesFreeSlots
  <2> HIDE DEF a
  <2>6. /\ p \in Sound /\ Quiet(a.pool, p) /\ p.occupied = a.pool.occupied \ a.list
        /\ p.peak = a.pool.peak /\ p.failed = a.pool.failed
        /\ p.used = a.pool.used - Cardinality(a.list)
    BY <2>5, ReleaseAllReleases DEF Released
  <2> HIDE DEF p
  <2>7. /\ TreesAfterReset(pool) \in [Traps -> Trees]
        /\ \A u \in Traps : TreesAfterReset(pool)[u] = NoTree
    BY <1>3, TypedTrees, NullStaysNull
  <2>8. /\ p.frozen /\ p.perm = r.perm /\ p.warned = {}
        /\ \A s \in handlers : s < p.perm
        /\ handlers \subseteq p.occupied
    BY <2>3, <2>5, <2>6 DEF Quiet
  <2>9. pool'.perm = r.perm
    <3>1. decoded' = {} /\ acking' = {}
      BY <1>9, <2>2 DEF LoopRequest
    <3> QED
      BY <1>3, <2>1, <2>6, <2>7, <2>8, <3>1, PassPool
  <2>10. Served /\ r.perm <= Handlers
    BY <1>2, <1>5, <2>3, <2>9
  <2>11. /\ r.used \in Nat /\ r.used <= Handlers
         /\ r.occupied = handlers /\ ~r.failed /\ r.peak <= NSlots - 4
    BY <2>2, <2>3, <2>10, ResetServes, SoundPools DEF r
  <2>12. r.used + n <= NSlots
    BY <1>4, <2>4, <2>11
  <2>13. /\ a.pool.failed = r.failed
         /\ a.pool.occupied = r.occupied \cup a.list
         /\ Cardinality(a.list) = n
         /\ a.pool.used = r.used + n
         /\ Within(r, a.pool, r.used + n)
    BY <2>3, <2>4, <2>12, AllocManyFits DEF a
  <2>14. p.occupied = handlers /\ \A s \in p.occupied : s < p.perm
    BY <2>5, <2>6, <2>8, <2>11, <2>13
  <2>15. p.used <= Handlers /\ p.peak <= NSlots - 4 /\ ~p.failed
    <3>1. a.pool.peak \in Nat /\ r.peak \in Nat
      BY <2>3, <2>5, SoundPools
    <3>2. p.peak <= NSlots - 4
      BY <1>4, <2>4, <2>6, <2>11, <2>13, <3>1 DEF Within
    <3> QED
      BY <1>4, <2>4, <2>6, <2>11, <2>13, <3>2
  <2>16. ~partial
    BY <2>10 DEF Served
  <2>17. /\ pool'.occupied = p.occupied /\ pool'.used <= Handlers
         /\ ~pool'.failed /\ ~partial' /\ pool'.peak <= NSlots - 4
    BY <1>2, <1>3, <2>1, <2>6, <2>7, <2>8, <2>10, <2>14, <2>15, <2>16, PassServes
  <2> QED
    BY <1>4, <2>1, <2>2, <2>14, <2>17 DEF Served
<1>10. ASSUME NEW t \in Traps, NEW n \in 1 .. MaxVarBinds, LoopResponse(t, n)
       PROVE  Served'
  <2> DEFINE r == ResetAll(pool)
             a == AllocMany(r, n)
  <2>1. /\ pool' = a.pool /\ decoded' = a.list /\ UNCHANGED <<handlers, partial>>
        /\ acking = {}
    BY <1>10 DEF LoopResponse
  <2>2. decoded = {}
    BY <2>1 DEF PoolInv
  <2>3. r \in Sound /\ (pool.frozen => r.perm = pool.perm)
    BY <1>3, ResetKeepsHandlers
  <2>4. n \in Nat /\ Handlers + n <= NSlots - 4 /\ Handlers + n <= NSlots
    BY <1>4 DEF PoolFits
  <2>5. a.pool \in Sound /\ a.pool.perm = r.perm
    BY <2>3, <2>4, AllocManyTakesFreeSlots DEF Quiet
  <2>9. Served /\ r.perm <= Handlers
    BY <1>2, <1>5, <2>1, <2>3, <2>5
  <2>10. /\ r.used \in Nat /\ r.used <= Handlers
         /\ r.occupied = handlers /\ ~r.failed /\ r.peak <= NSlots - 4
    BY <2>2, <2>3, <2>9, ResetServes, SoundPools
  <2> HIDE DEF r
  <2>11. r.used + n <= NSlots
    BY <1>4, <2>4, <2>10
  <2>6. /\ a.pool.failed = r.failed
        /\ a.pool.occupied = r.occupied \cup a.list
        /\ Cardinality(a.list) = n
        /\ a.pool.used = r.used + n
        /\ Within(r, a.pool, r.used + n)
    BY <2>3, <2>4, <2>11, AllocManyFits
  <2> HIDE DEF a
  <2>7. a.pool.peak <= NSlots - 4
    <3>1. a.pool.peak \in Nat /\ r.peak \in Nat
      BY <2>3, <2>5, SoundPools
    <3> QED
      BY <1>4, <2>4, <2>6, <2>10, <3>1 DEF Within
  <2>8. a.pool.used <= Handlers + Cardinality(a.list)
    BY <1>4, <2>4, <2>6, <2>10
  <2> QED
    BY <2>1, <2>6, <2>7, <2>8, <2>9, <2>10 DEF Served
<1>11. ASSUME LoopAcknowledge PROVE Served'
  <2> DEFINE p == ReleaseAll(pool, decoded)
  <2>1. /\ HandleInformQueue(p, tree, pending \ acking) /\ acking # {}
        /\ decoded' = {} /\ UNCHANGED handlers
    BY <1>11 DEF LoopAcknowledge
  <2>2. /\ decoded \subseteq pool.occupied /\ handlers \subseteq pool.occupied
        /\ pool.frozen /\ \A s \in handlers : s < pool.perm
        /\ pool.warned = {}
    BY <2>1 DEF PoolInv
  <2>3. /\ p \in Sound /\ Quiet(pool, p) /\ p.occupied = pool.occupied \ decoded
        /\ p.peak = pool.peak /\ p.failed = pool.failed
        /\ p.used = pool.used - Cardinality(decoded)
    BY <1>3, <2>2, ReleaseAllReleases DEF Released
  <2> HIDE DEF p
  <2>4. /\ p.frozen /\ p.perm = pool.perm /\ p.warned = {}
        /\ \A s \in handlers : s < p.perm
        /\ handlers \subseteq p.occupied
    BY <1>3, <2>2, <2>3 DEF Quiet
  <2>7. pending \ acking \in SUBSET Traps
    BY <1>3
  <2>9. pool'.perm = p.perm
    <3>1. decoded' = {} /\ acking' = {}
      BY <1>11 DEF LoopAcknowledge
    <3> QED
      BY <1>3, <2>1, <2>3, <2>4, <2>7, <3>1, PassPool
  <2>10. Served /\ p.perm <= Handlers
    BY <1>2, <1>5, <2>4, <2>9
  <2>5. p.occupied = handlers /\ p.peak <= NSlots - 4 /\ ~p.failed /\ ~partial
    BY <1>3, <2>3, <2>10 DEF Served
  <2>6. p.used <= Handlers
    BY <1>4, <2>3, <2>10 DEF Served
  <2>8. /\ pool'.occupied = p.occupied /\ pool'.used <= Handlers
        /\ ~pool'.failed /\ ~partial' /\ pool'.peak <= NSlots - 4
    BY <1>2, <1>3, <2>1, <2>3, <2>4, <2>5, <2>6, <2>7, <2>10, PassServes
  <2> QED
    BY <1>4, <2>1, <2>5, <2>8 DEF Served
<1>12. CASE UNCHANGED vars
  BY <1>5, <1>12 DEF vars, Served
<1> QED
  BY <1>6, <1>7, <1>8, <1>9, <1>10, <1>11, <1>12 DEF Next

LEMMA ReserveHolds == Disciplined /\ PoolFits /\ Spec => [](TickInv /\ ReserveInv)
<1>1. PoolFits /\ Init => TickInv /\ ReserveInv
  BY InitStateless, InitPool, InitReserve DEF TickInv
<1>2. /\ Disciplined /\ PoolFits /\ (TickInv /\ ReserveInv) /\ [Next]_vars
      => (TickInv /\ ReserveInv)'
  BY StepStateless, StepPool, StepReserve DEF TickInv, Disciplined
<1>3. Disciplined /\ PoolFits => [](Disciplined /\ PoolFits)
  BY DEF Disciplined, InformsFit, PoolFits
<1> QED
  BY <1>1, <1>2, <1>3, PTL DEF Spec

\* Between any two steps of a tick the handlers and the packet being handled hold
\* their slots: no reset, send or retry takes one of those.  And nothing else holds
\* one, as long as the sketch keeps to its reserve and no notification was taken
\* into the baseline (SNMPPacket.cpp 193-231, SNMPTrap.h 89-91).
THEOREM TransientsComeBack ==
  Disciplined /\ PoolFits /\ Spec => []TransientsReturned
<1>1. TickInv /\ ReserveInv => TransientsReturned
  BY DEF TickInv, PoolInv, ReserveInv, Served, TransientsReturned
<1> QED
  BY <1>1, ReserveHolds, PTL

\* The pool of defs.h 329-341 serves every tick of a sketch within its reserve
\* whose baseline has not taken in a notification: no allocation ever fails, no notification goes out with a leaf missing, and four
\* slots are never used.
THEOREM DerivedPoolServes == Disciplined /\ PoolFits /\ Spec => []IdleMargin
<1>1. ReserveInv => IdleMargin
  BY DEF ReserveInv, Served, IdleMargin
<1> QED
  BY <1>1, ReserveHolds, PTL

=============================================================================
