------------------------------ MODULE AgentTick ------------------------------
(***************************************************************************)
(* The pool over whole ticks of an agent: loop() resets it, serves at most *)
(* one packet, and sends the inform retries that are due; between ticks    *)
(* the sketch sends traps and informs; and while a Response PDU is being   *)
(* handled, with the decoded values of the packet still in the pool, the   *)
(* ack callback of the sketch may run.  One pool serves all of them, and   *)
(* resetAll() frees slots whoever points to them.                          *)
(*                                                                         *)
(* The handlers are those registered by setup(): they hold the first slots *)
(* for good.  Retry timing is InformQueue's subject; here any queued       *)
(* inform may be due, and every send replaces the trap's queued request.   *)
(***************************************************************************)
EXTENDS TrapTree

CONSTANTS
  Traps,          \* the sketch's SNMPTrap objects
  Fleets,         \* what they may be: functions from Traps to Notifications
  Reserve,        \* SNMP_TRAP_VB_RESERVE
  Handlers,       \* registered handlers, SNMP_MAX_CALLBACKS_PER_AGENT at most
  MaxVarBinds,    \* SNMP_MAX_VARBINDS
  MaxInflight,    \* SNMP_MAX_TRAPS_INFLIGHT
  AckSends        \* may the ack callback send?

ASSUME TickAssumption ==
  /\ IsFiniteSet(Traps)
  /\ Fleets \subseteq [Traps -> Notifications]
  /\ Reserve \in Nat
  /\ Handlers \in 1 .. NSlots
  /\ MaxVarBinds \in Nat \ {0}
  /\ MaxInflight \in Nat \ {0}
  /\ AckSends \in BOOLEAN

VARIABLES
  kind,      \* kind[t]: the notification t is, chosen by the sketch
  pool,
  handlers,  \* slots of the OID objects of the handlers not yet destroyed
  tree,      \* tree[t]: trap->packet
  pending,   \* traps with an item in informList[]
  decoded,   \* slots of the AsnPtrs of the packet being handled
  acking,    \* {t} while the ack callback for t's inform runs, else {}
  partial    \* ghost: a notification with a missing leaf was transmitted

vars == <<kind, pool, handlers, tree, pending, decoded, acking, partial>>

AfterSetup ==
  [EmptyPool EXCEPT !.occupied = 0 .. Handlers - 1, !.used = Handlers, !.peak = Handlers]

\* freezePermCount() in setup() is optional
Init ==
  /\ kind \in Fleets
  /\ pool \in {AfterSetup, FreezePermCount(AfterSetup)}
  /\ handlers = 0 .. Handlers - 1
  /\ tree = [t \in Traps |-> NoTree]
  /\ pending = {}
  /\ decoded = {}
  /\ acking = {}
  /\ partial = FALSE

\* the traps' pointers after a resetAll() of pool p
TreesAfterReset(p) == [t \in Traps |-> AfterReset(p, tree[t])]

-----------------------------------------------------------------------------
(* The sketch, between ticks or in the ack callback.                        *)

MaySend == acking = {} \/ AckSends

\* the three exits of queue_and_send_trap() after a build that ended as b
SendBuildFails(t, b) ==
  /\ ~b.ok
  /\ pool' = ReleasePoolState(b.pool, b.tree).pool
  /\ tree' = [tree EXCEPT ![t] = ReleasePoolState(b.pool, b.tree).tree]
  /\ UNCHANGED <<pending, partial>>

QueueFull(t) == kind[t].inform /\ Cardinality(pending \ {t}) >= MaxInflight

\* a full queue returns with the tree just built
SendFindsQueueFull(t, b) ==
  /\ b.ok /\ QueueFull(t)
  /\ pool' = b.pool
  /\ tree' = [tree EXCEPT ![t] = b.tree]
  /\ pending' = pending \ {t}
  /\ UNCHANGED partial

SendGoesOut(t, b, sent) ==
  /\ b.ok /\ ~QueueFull(t)
  /\ pool' = sent.pool
  /\ tree' = [TreesAfterReset(b.pool) EXCEPT ![t] = sent.tree]
  /\ pending' = IF kind[t].inform THEN pending \cup {t} ELSE pending \ {t}
  /\ partial' = (partial \/ sent.partial)

QueueAndSendTrap(t) ==
  /\ MaySend
  /\ \E b \in {BuildForSending(pool, tree[t], kind[t])} :
       \/ SendBuildFails(t, b)
       \/ SendFindsQueueFull(t, b)
       \/ SendGoesOut(t, b, SendTo(b.pool, b.tree, kind[t]))
  /\ UNCHANGED <<kind, handlers, decoded, acking>>

\* markTrapDeleted(), then ~SNMPTrap()
DestroyTrap(t) ==
  /\ pool' = ReleasePoolState(pool, tree[t]).pool
  /\ tree' = [tree EXCEPT ![t] = NoTree]
  /\ pending' = pending \ {t}
  /\ UNCHANGED <<kind, handlers, decoded, acking, partial>>

\* removeHandler(), then ~ValueCallback(): once the baseline is fixed, a hole
\* below it
DestroyHandler(s) ==
  /\ pool' = Release(pool, s)
  /\ handlers' = handlers \ {s}
  /\ UNCHANGED <<kind, tree, pending, decoded, acking, partial>>

-----------------------------------------------------------------------------
(* loop().                                                                  *)

\* n consecutive asn_new<>() of values: the pool after them, and in "list" the
\* slots they returned
AllocMany(p, n) == Run(NewBuild(p), [i \in 1 .. n |-> Leaf("list")])

\* one retry of handle_inform_queue()
Retried(a, t, sent) ==
  [pool |-> sent.pool,
   tree |-> [u \in Traps |-> IF u = t THEN sent.tree ELSE AfterReset(a.pool, a.tree[u])],
   partial |-> a.partial \/ sent.partial]

Retry(a, t) == Retried(a, t, SendTo(a.pool, a.tree[t], kind[t]))

\* handle_inform_queue() with the items of "due" retried, one after the other
RetryAll(p, trees, due) ==
  FoldSet(LAMBDA t, a : Retry(a, t), [pool |-> p, tree |-> trees, partial |-> partial], due)

HandleInformQueue(p, trees, waiting) ==
  \E due \in SUBSET waiting : \E over \in SUBSET (waiting \ due) :
  \E a \in {RetryAll(p, trees, due)} :
    /\ pool' = a.pool
    /\ tree' = a.tree
    /\ partial' = a.partial
    /\ pending' = waiting \ over

\* A tick with no packet, or with a request whose values, decoded and staged,
\* take n slots until handlePacketInPlace() returns.  GETBULK stages one value
\* before it finds the plan full.
LoopRequest(n) ==
  /\ acking = {}
  /\ \E a \in {AllocMany(ResetAll(pool), n)} :
       HandleInformQueue(ReleaseAll(a.pool, a.list), TreesAfterReset(pool), pending)
  /\ UNCHANGED <<kind, handlers, decoded, acking>>

\* A Response PDU with n varbinds for the inform of t: decoded, then told to
\* the sketch.
LoopResponse(t, n) ==
  /\ acking = {}
  /\ t \in pending
  /\ \E a \in {AllocMany(ResetAll(pool), n)} :
       /\ Cardinality(a.list) = n
       /\ pool' = a.pool
       /\ decoded' = a.list
  /\ tree' = TreesAfterReset(pool)
  /\ acking' = {t}
  /\ UNCHANGED <<kind, handlers, pending, partial>>

\* Mutant: the branch for Response PDUs returns without destroying the values.
AcknowledgeWithoutRelease ==
  /\ acking # {}
  /\ HandleInformQueue(pool, tree, pending \ acking)
  /\ decoded' = {}
  /\ acking' = {}
  /\ UNCHANGED <<kind, handlers>>

\* The callback returns: the item is removed, the AsnPtrs are destroyed, and
\* the pass over the queue ends the tick.
LoopAcknowledge ==
  /\ acking # {}
  /\ HandleInformQueue(ReleaseAll(pool, decoded), tree, pending \ acking)
  /\ decoded' = {}
  /\ acking' = {}
  /\ UNCHANGED <<kind, handlers>>

Next ==
  \/ \E t \in Traps : QueueAndSendTrap(t) \/ DestroyTrap(t)
  \/ \E s \in handlers : DestroyHandler(s)
  \/ \E n \in 0 .. 2 * MaxVarBinds + 1 : LoopRequest(n)
  \/ \E t \in Traps, n \in 1 .. MaxVarBinds : LoopResponse(t, n)
  \/ LoopAcknowledge

Spec == Init /\ [][Next]_vars

-----------------------------------------------------------------------------
TypeOK ==
  /\ kind \in Fleets
  /\ pool \in Pools
  /\ handlers \subseteq Slots
  /\ tree \in [Traps -> [root : SUBSET Slots, nodes : SUBSET Slots, live : BOOLEAN]]
  /\ pending \subseteq Traps
  /\ decoded \subseteq Slots
  /\ acking \in SUBSET Traps
  /\ partial \in BOOLEAN

\* SNMPTrap.h 89-91: a persistent trap holds no pool-backed state between sends,
\* also when its build failed half way.
StatelessBetweenSends == \A t \in Traps : tree[t] = NoTree

\* BERDecode.cpp 87-88: the alarm counter stays 0, whatever is sent, retried,
\* answered or destroyed in between.
NoDoubleReleases == pool.alarms = 0

\* the sketch keeps to the varbinds it has reserved
WithinReserve == \A t \in Traps : kind[t].varbinds <= Reserve

\* BER.h 155-162: whoever resets first, the permanent part of the pool is that
\* of the handlers setup() has registered.  A notification sent before the first
\* tick breaks it: its tree is still in the pool when its own sendTo() fixes the
\* baseline, and is counted as permanent.
BaselineIsHandlers == pool.perm <= Handlers

\* No reset and no send takes a slot that is still needed, those of the handlers
\* and of the packet being handled; and a sketch within its reserve gets every
\* other slot back, unless a notification was taken into the baseline.  (A build
\* that fails on a container leaks its PDU until the next reset, or for good
\* below the baseline: SNMPPacket.cpp 193-231 never destroys it.)
TransientsReturned ==
  /\ handlers \cup decoded \subseteq pool.occupied
  /\ WithinReserve /\ BaselineIsHandlers => pool.occupied = handlers \cup decoded

\* defs.h 277, 329-341: for a sketch within its reserve the derived pool serves
\* the worst tick and leaves four slots idle, unless a notification was taken
\* into the baseline.
IdleMargin ==
  WithinReserve /\ BaselineIsHandlers
    => ~pool.failed /\ ~partial /\ pool.peak <= NSlots - 4
=============================================================================
