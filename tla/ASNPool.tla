------------------------------- MODULE ASNPool -------------------------------
(***************************************************************************)
(* The pool of BER.h driven by clients that use it as the library does:    *)
(* handlers registered before or after the baseline is fixed, whose OID    *)
(* objects stay for as long as the handler, and transient objects created  *)
(* and destroyed between two calls of resetAll().  An object is known by   *)
(* the pointer its holder has; kind and at say what the pool cannot know:  *)
(*                                                                         *)
(*   at[o]      the slot the pointer leads to (0 if there is no object)    *)
(*   kind[o]    "startup", "late"  OID of a handler registered before, or  *)
(*                                 after, the baseline was fixed           *)
(*              "transient"        its holder will destroy it              *)
(*              "stale"            a transient whose slot resetAll() freed *)
(*              "none"             no such object                          *)
(*                                                                         *)
(* and three history variables record                                      *)
(*                                                                         *)
(*   dead       slots whose last tenant was destroyed by asn_delete()      *)
(*   doubled    slots destroyed a second time by their old holder (a bug   *)
(*              of the caller, which the pool promises to detect)          *)
(*   lost       slots that resetAll() ever freed under a late handler      *)
(*                                                                         *)
(* The handler of a lost slot stays in the table: from then on it shares   *)
(* the slot with whoever is given it next.                                 *)
(*                                                                         *)
(* The one rule of the clients, kept by SNMPTrap::sendTo() and loop(): a   *)
(* pointer to a transient made stale by resetAll() is destroyed or dropped *)
(* before anything else is allocated.                                      *)
(***************************************************************************)
EXTENDS PoolOps

CONSTANT Objects     \* the pointers of all holders

VARIABLES pool, kind, at, lost, dead, doubled

vars == <<pool, kind, at, lost, dead, doubled>>

HandlerKinds == {"startup", "late"}

\* the pointers to slot s whose holder believes the object is there
Holders(s) ==
  {o \in Objects : at[o] = s /\ kind[o] \in HandlerKinds \cup {"transient"}}

Init ==
  /\ pool = EmptyPool
  /\ kind = [o \in Objects |-> "none"]
  /\ at = [o \in Objects |-> 0]
  /\ lost = {}
  /\ dead = {}
  /\ doubled = {}

-----------------------------------------------------------------------------
NoStale == \A o \in Objects : kind[o] # "stale"

\* what a successful asn_new<>() leaves its caller with
Obtain(o, k) ==
  /\ kind[o] = "none"
  /\ NoStale
  /\ CanAlloc(pool)
  /\ pool' = Alloc(pool)
  /\ at' = [at EXCEPT ![o] = FirstFree(pool)]
  /\ kind' = [kind EXCEPT ![o] = k]
  /\ dead' = dead \ {FirstFree(pool)}
  /\ UNCHANGED <<lost, doubled>>

\* addHandler() at any time: buildOIDWithPrefix() takes a slot for the OID.
\* (On an exhausted pool it dereferences the null pointer it was given.)
Register(o) == Obtain(o, IF pool.frozen THEN "late" ELSE "startup")

\* asn_new<>() of a transient object
New(o) == Obtain(o, "transient")

\* asn_new<>() returns nullptr: the pool is exhausted
NewFails ==
  /\ NoStale
  /\ ~CanAlloc(pool)
  /\ pool' = Alloc(pool)
  /\ UNCHANGED <<kind, at, lost, dead, doubled>>

\* asn_delete() by the holder: of a transient, of the OID of a handler the
\* sketch destroys (~ValueCallback()), or of a pointer that has become stale
Destroy(o) ==
  /\ kind[o] # "none"
  /\ pool' = Release(pool, at[o])
  /\ dead' = IF at[o] \in pool.occupied THEN dead \cup {at[o]} ELSE dead
  /\ kind' = [kind EXCEPT ![o] = "none"]
  /\ at' = [at EXCEPT ![o] = 0]
  /\ UNCHANGED <<lost, doubled>>

\* a caller destroys the same object twice while its slot is still free
DoubleDelete(s) ==
  /\ s \in dead
  /\ pool' = Release(pool, s)
  /\ doubled' = doubled \cup {s}
  /\ UNCHANGED <<kind, at, lost, dead>>

\* freezePermCount() called explicitly from setup()
Freeze ==
  /\ ~pool.frozen
  /\ pool' = FreezePermCount(pool)
  /\ UNCHANGED <<kind, at, lost, dead, doubled>>

\* resetAll() from loop() or sendTo()
Reset ==
  /\ pool' = ResetAll(pool)
  /\ kind' = [o \in Objects |->
                IF kind[o] = "transient" /\ at[o] >= pool'.perm
                THEN "stale" ELSE kind[o]]
  /\ lost' = lost \cup {s \in Slots :
                /\ s >= pool'.perm
                /\ \E o \in Objects : at[o] = s /\ kind[o] = "late"}
  /\ UNCHANGED <<at, dead, doubled>>

Next ==
  \/ \E o \in Objects : Register(o) \/ New(o) \/ Destroy(o)
  \/ \E s \in Slots : DoubleDelete(s)
  \/ NewFails
  \/ Reset
  \/ Freeze

Spec == Init /\ [][Next]_vars

-----------------------------------------------------------------------------
\* Every field stays in its range; the counters never leave 0..NSlots.
TypeOK ==
  /\ pool \in Pools
  /\ kind \in [Objects -> HandlerKinds \cup {"transient", "stale", "none"}]
  /\ at \in [Objects -> Slots]
  /\ lost \subseteq Slots
  /\ dead \subseteq Slots
  /\ doubled \subseteq Slots

\* usedCount never under-reports the occupied slots, through any mix of
\* allocations, deletes, stale deletes, double deletes, freezes and resets, and
\* also after a reset has freed a handler's slot and it was given away again
\* (BERDecode.cpp 67-72 names the under-report as the cause of corruption).
NeverUnderReports == Cardinality(pool.occupied) <= pool.used

\* An allocation that passes the counter check of rawAlloc() finds a slot: the
\* second "EXHAUSTED" exit (BER.h 144-146) is dead code.
CounterCheckSuffices == pool.used < NSlots => FreeSlots(pool) # {}

\* A slot is occupied exactly when somebody holds the object in it, and then
\* one holder only, except in slots a reset has freed under a late handler; a
\* handler registered before the baseline was fixed is never in such a slot,
\* whatever late handlers come and go (the corruption BER.h 99-102 and 155-162
\* describe stays confined to them).
SlotsHaveOneOwner ==
  /\ \A s \in Slots \ lost :
       /\ s \in pool.occupied <=> Holders(s) # {}
       /\ \A o, q \in Holders(s) : o = q
  /\ \A o \in Objects : kind[o] = "startup" => at[o] \notin lost

\* The alarm is raised for every object destroyed twice, once per slot, and for
\* nothing else: a stale delete after resetAll() stays silent (BERDecode.cpp
\* 76-89).  Only in a slot lost under a late handler may it also go off for a
\* holder that destroys its object once.
AlarmsAreTrueDoubleDestroys ==
  /\ pool.warned \ lost = doubled \ lost
  /\ doubled \subseteq pool.warned
  /\ pool.alarms = Cardinality(pool.warned)

\* Whichever call fixes the baseline, explicit or a reset, puts it above every
\* handler registered so far; after that nothing ever moves it again.
BaselineIsFixed ==
  [][/\ pool.frozen => pool'.frozen /\ pool'.perm = pool.perm
     /\ pool'.frozen /\ ~pool.frozen
        => \A o \in Objects : kind[o] \in HandlerKinds => at[o] < pool'.perm]_vars

\* A registered handler keeps the slot of its OID until it is destroyed:
\* "Guaranteeing the startup baseline HERE (not in loop()) is what makes it
\* path-independent" (BER.h 157-158).  It does not hold of a handler registered
\* after the first reset, be it that of a trap sent earlier in setup().
HandlersKeepTheirSlots ==
  \A o \in Objects : kind[o] \in HandlerKinds => at[o] \in pool.occupied
=============================================================================
