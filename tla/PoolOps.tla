------------------------------- MODULE PoolOps -------------------------------
(***************************************************************************)
(* The fixed-slot object pool of src/src/include/BER.h (struct ASNPool) as *)
(* pure operators on a record, so that one step of a client can contain    *)
(* several pool calls.  A pool is                                          *)
(*                                                                         *)
(*   occupied   slots[i].occupied                                          *)
(*   bulkFreed  slots[i].bulkFreed: freed by resetAll() under a pointer    *)
(*   warned     slots[i].doubleReleaseWarned, the one-shot alarm latch     *)
(*   used       usedCount                                                  *)
(*   peak       usedCountPeak                                              *)
(*   perm       permCount, the frozen startup baseline                     *)
(*   frozen     permFrozen                                                 *)
(*   alarms     doubleReleaseAlarms                                        *)
(*   failed     allocationFailures > 0                                     *)
(*                                                                         *)
(* The counter allocationFailures is kept as the Boolean "some allocation  *)
(* has failed since boot".  Slot contents are not modelled here: the       *)
(* modules that use the pool say which slots form one object tree.         *)
(***************************************************************************)
EXTENDS Integers, FiniteSets

CONSTANT NSlots      \* SNMP_POOL_ASN_OBJECTS

\* defs.h rejects pools below a floor at compile time; here any pool with a slot
ASSUME NSlotsAssumption == NSlots \in Nat \ {0}

Slots == 0 .. NSlots - 1

Pools ==
  [occupied : SUBSET Slots, bulkFreed : SUBSET Slots, warned : SUBSET Slots,
   used : 0 .. NSlots, peak : 0 .. NSlots, perm : 0 .. NSlots,
   frozen : BOOLEAN, alarms : 0 .. NSlots, failed : BOOLEAN]

EmptyPool ==
  [occupied |-> {}, bulkFreed |-> {}, warned |-> {},
   used |-> 0, peak |-> 0, perm |-> 0,
   frozen |-> FALSE, alarms |-> 0, failed |-> FALSE]

FreeSlots(p) == Slots \ p.occupied

-----------------------------------------------------------------------------
(* rawAlloc() and asn_new<>(): the counter check, then the lowest free slot. *)

\* Mutant: only the scan for a slot, no counter check.
CanAllocUncounted(p) == FreeSlots(p) # {}

\* the two exits of rawAlloc() that return nullptr are the negation of this
CanAlloc(p) == p.used < NSlots /\ FreeSlots(p) # {}

FirstFree(p) == CHOOSE s \in FreeSlots(p) : \A t \in FreeSlots(p) : s <= t

Occupy(p, s) ==
  [p EXCEPT !.occupied = @ \cup {s},
            !.bulkFreed = @ \ {s},
            !.used = @ + 1,
            !.peak = IF p.used + 1 > @ THEN p.used + 1 ELSE @]

Alloc(p) ==
  IF CanAlloc(p) THEN Occupy(p, FirstFree(p)) ELSE [p EXCEPT !.failed = TRUE]

-----------------------------------------------------------------------------
(* release(): an unoccupied slot is a stale delete (silent when resetAll()  *)
(* freed it) or a double destroy (one alarm per slot, ever).                *)

\* Mutant: the counter drops whatever state the slot is in.
ReleaseAlwaysCounts(p, s) ==
  [p EXCEPT !.occupied = @ \ {s}, !.used = @ - 1]

\* Mutant: slots freed by resetAll() are not told apart.
ReleaseWithoutBulkFreed(p, s) ==
  IF s \in p.occupied
  THEN [p EXCEPT !.occupied = @ \ {s}, !.used = @ - 1]
  ELSE IF s \in p.warned THEN p
  ELSE [p EXCEPT !.warned = @ \cup {s}, !.alarms = @ + 1]

\* Mutant: the counter is left to resetAll().
ReleaseUncounted(p, s) ==
  IF s \in p.occupied THEN [p EXCEPT !.occupied = @ \ {s}] ELSE p

Release(p, s) ==
  IF s \in p.occupied
  THEN [p EXCEPT !.occupied = @ \ {s}, !.used = @ - 1]
  ELSE IF s \in p.bulkFreed \/ s \in p.warned
  THEN p
  ELSE [p EXCEPT !.warned = @ \cup {s}, !.alarms = @ + 1]

-----------------------------------------------------------------------------
(* freezePermCount(), autoFreezePermCountOnce() and resetAll().             *)

\* Mutant: the baseline is the number of objects, not the highest slot.
HighWaterByCount(p) == p.used

\* the loop's "high": one past the highest occupied slot
HighWater(p) ==
  CHOOSE h \in 0 .. NSlots :
    /\ \A s \in p.occupied : s < h
    /\ h > 0 => h - 1 \in p.occupied

FreezePermCount(p) ==
  [p EXCEPT !.perm = HighWater(p),
            !.used = IF HighWater(p) < @ THEN HighWater(p) ELSE @,
            !.frozen = TRUE]

\* Mutant: every reset takes the baseline anew.
FreezeEveryTime(p) == FreezePermCount(p)

AutoFreezePermCountOnce(p) == IF p.frozen THEN p ELSE FreezePermCount(p)

DropAbove(p) ==
  [p EXCEPT !.bulkFreed = @ \cup {s \in p.occupied : s >= p.perm},
            !.occupied = {s \in @ : s < p.perm},
            !.used = p.perm]

ResetAll(p) == DropAbove(AutoFreezePermCountOnce(p))
=============================================================================
