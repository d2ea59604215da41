# A verification of SNMP_Embedded

SNMP_Embedded is an SNMP v1/v2c agent for microcontrollers: a static library that a sketch
links, feeds with UDP sockets, and drives by calling `SNMPAgent::loop()` for ever.  It allocates
nothing on the heap per request; every ASN.1 object lives in a slot of one fixed pool.
The default build answers requests in place and takes slots for their values only.

This directory holds TLA+ models of the library, TLC configurations that check them on small
instances, and TLAPS proofs, for instances of every size, about its pool and the ticks that use
it, its inform queue and the loop around that, walks over its MIB, its writer, and the length
fields it reads.  Paths below are relative to the repository; `SNMP_Embedded.cpp` and the
like lie in `src/`.

Contents: 1 Inventory · 2 Modules and the code · 3 Runs · 4 Bounds · 5 Fairness · 6 Proofs · 7
Divergences · 8 Not modelled · 9 Plan · 10 How to run

## 1 Inventory

| Component | State it keeps | Operations | Correct when |
|---|---|---|---|
| **ASN object pool** (`include/BER.h`, `BERDecode.cpp`) | slots with the flags occupied, bulkFreed and doubleReleaseWarned; usedCount, its peak, permCount, permFrozen, two failure counters | `rawAlloc`, `release` (through `asn_delete`), `freezePermCount`, `resetAll` | the counter never under-reports, no slot is shared or lost, a reset never reaches a registered handler, the double-destroy alarm is raised for exactly those |
| **Notification trees** (`SNMPTrap.*`, `SNMPPacket.*`) | a trap's `packet` pointer into the pool | `buildForSending`, `sendTo`, `releasePoolState`, destructor | a trap holds no slot between sends, also when a build fails half way |
| **Inform queue** (`SNMPInform.cpp`, `SNMPTrap.h`) | `informList[]`, `informCount`, each trap's requestID | `sendTrapTo`, `markTrapDeleted`, `handle_inform_queue`, `inform_callback` | every inform ends exactly once, within its budget, and only a real answer confirms it |
| **Handler table** (`SNMP_Embedded.cpp`, `ValueCallbacks.*`, `BEREncode.cpp`) | `callbacks[]`, in OID order once sorted | `addHandler`, `removeHandler`, `sortHandlers`, `findCallback`, `findCallbackForSlice` | a walk visits each OID once, in numeric order, and ends |
| **Request processing** (`SNMPZeroCopy.cpp`; `SNMPParser.cpp`, `SNMPPDUHandler.cpp`, `SNMPResponse.cpp`) | the values behind the handlers and their setOccurred flags | GET, GETNEXT, GETBULK, SET, each implemented twice | both implementations give the same answer; what a SET acknowledges is in force and announced |
| **BerWriter** (`include/BERView.h`) | cursor, failure flag, markers of the open scopes | `putTLV`, `putBytes`, `putInteger`, `putNull`, `beginScope`, `endScope` | it stays in its buffer and its length is the encoding's |
| **Socket loop** (`SNMP_Embedded.cpp`) | `_udp[]`, `udpCount`, what waits in each socket | `setUDP`, `restartUDP`, `stop`, `loop` | no socket and no inform is forgotten, whatever arrives |
| **Uptime** (`SNMP_Embedded.cpp`, `SNMPTrap.cpp`) | the clock, the mirror that traps read | `uptimeCs`, `loop` | a GET and a trap tell the same time |
| **BER codec** (`BEREncode.cpp`, `BERDecode.cpp`, `include/BER.h`) | none | `serialise`, `fromBuffer` of each class | what is decoded is what was encoded, for every length and width |
| **View parser, container parser** (`BERView.*`; `SNMPPacket.cpp`) | none | `snmp_ber_peek_packet`, `decodeRequestValues`; `parseFrom` | both read the message that was sent, and refuse the same datagrams |
| **Size derivations** (`include/defs.h`) | none | compile-time formulas | the derived pool serves the worst tick |
| Statistics, printing, examples, host tests | none of their own | | not modelled |

How they meet.  `loop()` resets the pool, reads at most one datagram, hands it to request
processing, which looks handlers up and calls their callbacks; a Response PDU goes to the inform
queue and from there to the sketch's ack callback, which may call back into `sendTrapTo`.  The
tick ends with a pass over the inform queue, whose retries call `SNMPTrap::sendTo`, which resets
the same pool again and builds a tree in it.  Between ticks the sketch registers, removes and
sorts handlers, sends traps, destroys traps, and looks at setOccurred flags.  Everything runs on
one thread; what makes it hard is re-entrance through callbacks, a pool that is reset under
pointers somebody still holds, requests and answers that are lost, repeated or late, a clock
that wraps, and fixed capacities everywhere.  `PROJECT.json` lists each such hazard at the line
where it bites, with the properties that would catch it.

## 2 Modules and the code

| Module | Models | Extends / uses |
|---|---|---|
| `PoolOps` | the pool as a record, its operations as pure operators | |
| `ASNPool`, `MCASNPool` | clients of the pool, with ghosts for who points where | `PoolOps` |
| `Induction` | no code: induction over numbers, sequences and finite sets, for the proofs | TLAPS |
| `PoolOpsProofs` | contracts of the pool's operations | `PoolOps`, `Induction` |
| `ASNPoolProofs` | theorems of `ASNPool` | `ASNPool`, `PoolOpsProofs` |
| `TrapTree` | the allocation script of a notification, its failure, destruction, `sendTo` | `PoolOps` |
| `AgentTick`, `MCAgentTick` | whole ticks on one pool: packets, ack callback, sends, retries | `TrapTree` |
| `AgentTickProofs` | theorems of `AgentTick` | `AgentTick`, `PoolOpsProofs` |
| `InformService` | what the inform machinery promises a sketch, in four variables | |
| `InformQueue`, `MCInformQueue` | the queue, the traps' IDs, the clock, the network | refines `InformService` |
| `InformQueueProofs` | theorems of `InformQueue`, and of `AgentLoop` | `AgentLoop`, TLAPS |
| `AgentLoop`, `MCAgentLoop` | `loop()` over the sockets, around the queue | `InformQueue` |
| `Uptime` | `sysUpTime` as GETs and as notifications read it | |
| `HandlerOps` | OID bytes, their order, both lookups, table edits | |
| `MibWalk`, `MCMibWalk` | walks while the table changes | `HandlerOps` |
| `MibWalkProofs` | theorems of `HandlerOps` and `MibWalk` | `MibWalk`, `Induction` |
| `PduProcessing`, `MCPduProcessing` | both request processors, SET's effects, the sketch's polling | `HandlerOps` |
| `PduProcessingProofs` | theorems of `PduProcessing` | `PduProcessing`, `MibWalkProofs` |
| `BerWriter` | the in-place writer and its scopes | |
| `BerCodec` | lengths, headers and values as bytes | |
| `BerProofs` | theorems of `BerWriter` and `BerCodec` | both, `Induction` |
| `MessageParsers`, `MCMessageParsers` | both decoders of a datagram, on what managers send | `BerCodec` |

Composition.  The pool is a set of operators and not a state machine with actions of its own
because a single C++ call makes many pool calls; `AgentTick` threads one pool record through a
whole `loop()` in the order the code does.  `ASNPool` exercises the same operators in every
order a client may call them.

**`PoolOps` / `ASNPool`.**  One record field per field of `ASNPool` and `Slot`. `rawAlloc` is
`Alloc`: counter check first, then the lowest free slot.  `release` is `Release`, with its three
cases: occupied, freed by a reset, destroyed twice. `resetAll` is `ResetAll`, including the
automatic freeze.  A client holds a pointer: `at` is the slot it leads to, and `kind` what the pool
cannot know, a handler's OID registered before the baseline was fixed (`startup`) or after it
(`late`), a transient object, or one that a reset has freed (`stale`).  `Register` is possible at
any time, as `addHandler` is.  A late handler's slot is freed by the next reset while the handler
stays in the table, and goes to somebody else; `lost` records such slots, `dead` those whose last
tenant was destroyed, `doubled` those destroyed twice.  Assumed of the callers: a pointer
made stale by a reset is dropped or destroyed before the next allocation.  `AgentTick` is where
that discipline is itself under test, because there the pointers are those of the code.

**`TrapTree` / `AgentTick`.**  A tree is built by running a script of allocations: a missing
container stops the build, a missing leaf is skipped.  What each failure leaves behind (an
orphaned PDU, a list that is destroyed, a root that stays on the trap) is what `BuildStep` and
`Build` say.  Actions: `QueueAndSendTrap` (the three exits of `queue_and_send_trap`),
`DestroyTrap`, `DestroyHandler`, `LoopRequest`, `LoopResponse`, `LoopAcknowledge`.  A tick with
a Response PDU is two actions because the sketch's callback runs between them; every other tick
is one action.  The sketch may send before the first tick, with the baseline frozen in `setup()` or
not.  The handlers are those of `setup()`; what becomes of later ones is `ASNPool`'s subject.

**`InformQueue`.**  `item` maps request IDs to queued items; nothing depends on their order in
the array.  `requestID[t]` is the ID the trap object carries, and the copy in the item is its
key: two pieces of state that only the callers keep equal.  `SendTrapTo` has a disjunct for each
exit (build fails, plain trap, list full, queued).  `LoopResponse` and `LoopAcknowledge` bracket
the ack callback.  `HandleInformQueue` is the whole pass over the list.  `onWire` is the
network: any request that got there may be answered at any later time, any number of times, or
never.

**`AgentLoop`.**  Extends the queue by `udpCount`, the sockets whose `begin()` succeeded, and one
waiting datagram per socket, of four sorts that `loop()` tells apart: a request, an answer to an
open inform, any other answer, and one that is refused for its length.  `loop` has one disjunct
for each way through the function: `LoopNoPacket`, `LoopServes`, `LoopAnswered` (up to the ack
callback; `CallbackReturns` is the rest) and `LoopRefuses`, which leaves out the pass over the
queue as the code's early returns do.  `restartUDP`, `setUDP` and `stop` lose what waits.  A
behaviour of `AgentLoop` is one of `InformQueue` with steps that leave the queue alone, and
`ImplementsService` is checked for it.

**`Uptime`.**  `now` in milliseconds, the mirror `_snmp_builtin_uptime_var`, and ghosts for the
last GET and the last stamp.  `SendTrap` is possible before the first `loop()`, between two
calls and within one (ack callback, retry).

**`HandlerOps` / `MibWalk`.**  Lookup matches encoded bytes, sorting compares numbers, and both
are translated as such.  `addHandler` refuses a second sysUpTime and nothing else, so the table may
hold an OID twice; `sort_handlers` is any order that `std::sort`, which is not stable, may then
leave.  A walk keeps only what the manager keeps: the OID it received last.  The manager is
external: it takes rows while their OIDs ascend, and gives up (`circling`) at one that does not, as
net-snmp's `snmpwalk` does.

**`PduProcessing`.**  `handlePacketInPlace` plans a response and then writes it; `handlePacket`
builds a list of varbinds.  They are written apart, as in the code, and `PathsAgree` compares
them on each request served.  A setter stores what its copy keeps (`Copied`): `strncpy` stops at the
first NUL, and `OpaqueCallback` copies the bytes that came and answers with all of its own, so that
short data leave in the last of them whatever the value's slot held.  `resetSetOccurred` is the
sketch between ticks.

**`BerWriter`.**  Lengths only.  `content` and `wanted` are history: the length of what the
caller has written in the final encoding, which the code never holds.

**`BerCodec`.**  A 32-bit value is its four bytes, so that shifts and the casts to `int8_t`,
`int16_t`, `int32_t` are statements about which bytes are kept and which are filled in.
`Header` is `BER_CONTAINER::fromBuffer()`, `fromBuffer` the value classes' own.  What differs
between classes is kept: NULL takes two bytes whatever its length says, `NetworkAddress` returns
its header's length only, an OID is judged by its first byte also when it is empty.

**`MessageParsers`.**  A manager's message is encoded as standard BER has it, as this library
would, or with needlessly long lengths; a datagram is that message whole, cut at any place, one
byte too long, or with bytes replaced.  `peekPacket` is the in-place path (views, then the value
pass), `parseFrom` the container path; both are evaluated on the same bytes in each state.
Actions are the faults; the decoders are functions.

Operators whose comment begins with "Mutant:" are not part of a model.  Each is a plausible
mistake in the definition that follows it; replacing that definition by it makes TLC refute the
property that `PROJECT.json` pairs it with, so that every checked property is known to depend on
the code it is about.

## 3 Runs

Each run is the configuration of the same name.

| Run | States | Shows |
|---|---|---|
| `ASNPool` | 222,524 | `NeverUnderReports`, `SlotsHaveOneOwner`, `AlarmsAreTrueDoubleDestroys`, `BaselineIsFixed` over every order of registrations, allocations, deletes, stale and double deletes, freezes and resets.  The counter and the baseline are right whatever is registered when; a slot has one owner and a true alarm unless a reset has freed it under a late handler, and a handler registered in time is never in such a slot. |
| `InformQueue` | 597,828 | The list holds exactly the open informs (`QueueHoldsOpenInforms`), budgets add up (`BudgetIsExact`), no phantom confirmation (`AcksAreGenuine`), the unsigned subtraction measures real time across wraps (`ElapsedSurvivesWrap`), nothing is retried or given up early (`GivesUpOnlyAfterLastWait`). |
| `AgentLoop` | 134,673 | For a sketch that always replaces: a retry carries its item's own ID (`RetryCarriesOwnId`); every inform is settled although managers may stay silent, sockets be restarted and requests pour in, once refused datagrams cease (`InformsSettleInTraffic`); a socket is served once those before it fall silent (`EverySocketIsServed`); queue and loop refine `InformService` (`ImplementsService`). |
| `AgentTick` | 114,452 | Traps hold nothing between sends (`StatelessBetweenSends`), nothing is destroyed twice (`NoDoubleReleases`), no send and no reset takes a slot of a handler or of the packet being handled; and unless a notification was taken into the baseline, all other slots come back (`TransientsReturned`) and the derived pool size leaves four idle ones (`IdleMargin`). |
| `MibWalk` | 121,476 | Answers are lexical successors (`NextIsLexical`); a walk turns back only at an OID the table holds twice (`WalkTurnsOnlyAtTwins`) and has seen the OID of all that stayed registered, unless the handler it stood at was removed (`WalkCoversTheMib`).  With no OID twice, GETBULK is repeated GETNEXT (`BulkIsRepeatedGetNext`) and every walk ends (`EveryWalkEnds`). |
| `PduProcessing` | 112,752 | The two paths agree (`PathsAgree`), the error index is that of the last refused varbind (`ErrorIndexIsTheLastRefusal`), an acknowledged SET is in force, with the value asked for unless a text had a NUL or opaque data came short (`AcknowledgedSetsAreInForce`), changes are announced (`SetEventsReachSketch`). |
| `BerWriter` | 2.8 M | The cursor and every window stay in the buffer (`StaysInBuffer`), lengths are exact (`LengthIsExact`), refusals are for want of header windows only (`FailsOnlyForWindows`). |
| `MessageParsers` | 222,773 | Both decoders read what was sent in every encoding, and refuse one varbind too many (`MessageIsRead`); no cut message passes (`CutIsRejected`); of a damaged one they read the same (`PathsReadAlike`), and the views accept nothing the containers refuse, with three listed exceptions (`InPlaceIsStricter`). |
| `ASNPoolLateHandler` | violation | The slot of a handler registered after the baseline was fixed is freed by the next reset. |
| `InformRetryId` | violation | With `replaceQueuedRequests = false`, the retry of a queued inform leaves under the ID of a later send of the same trap object. |
| `AgentTickQueueFull` | violation | An inform refused by a full queue keeps its tree; the slots serve the next tick, and the trap's next build destroys them a second time. |
| `UptimeStamp` | violation | When the clock has moved on since `loop()` last refreshed the mirror, a trap is stamped with the old time while a GET in the same millisecond is answered the new. |

A violation run states what a comment or the manual says and shows a behaviour of the code that
contradicts it; `findings` in `PROJECT.json` quotes both sides.

`BerWriter` and `MessageParsers` set `CHECK_DEADLOCK FALSE`: a writer that has failed is done, and
so is a datagram that can be damaged no further.

## 4 Bounds

- `ASNPool`: three slots and four pointers, so that a lost slot can have two holders while the pool
  holds other objects besides; the proofs cover every other size.  Pointers are interchangeable,
  and the properties are safety, so the symmetry is sound.  `ASNPoolLateHandler` is the same
  instance.
- `InformQueue`: two traps, two places in the list, three request IDs, at most one retry, delays
  of one and two ticks, a clock of four ticks.  The list fills, one trap can own both places,
  and the clock wraps several times.  `MaxId` bounds a behaviour to three request IDs.  The code
  draws them with `rand()`; the model takes all draws to differ and names them in their order,
  so two open informs with one ID are outside it.  The bound on delays, `Wrap - 2`, is the
  code's: a delay of 2^32 - 1 ms never elapses.  `Tick` does not let an item grow older than a
  wrap, that is, `loop()` runs at least once in 49.7 days.
- `AgentLoop`: two traps, two sockets of at most two, two request IDs, one retry, one delay and a
  clock of three ticks, without the symmetry, which is unsound for liveness.  With two IDs both
  places of the list can be taken by one trap's successors, and a late answer can meet a
  replaced inform.  One datagram waits per socket: a longer backlog is a socket that is filled
  again as soon as it is served, which the model allows.
- `Uptime`: 30 ms.  The disagreement needs ten.
- `AgentTick`: two handlers, four varbinds per packet, a reserve of one varbind, two places in
  the queue, three traps.  25 slots are what `defs.h` derives from these numbers.  Two fleets:
  one keeps to the reserve; in the other a four-varbind inform loses a leaf and a five-varbind
  inform a container, the two ways a build can end.  Retries are due at any time.
  `MaxInflight` is 2, the number of informs, so the queue does not fill, and `AckSends` is FALSE, so
  the ack callback sends nothing.  The code has neither restriction: `AgentTickQueueFull` is the
  same instance with `MaxInflight = 1` and refutes `NoDoubleReleases`; so does `AckSends = TRUE`
  (section 7).
- `MibWalk`: eight handlers of which four fit in the table, so that registration is refused; one
  is below another, one claims the library's own OID, one that of a member of the system group,
  two differ in arcs encoded in two and three bytes.  GETBULK with three repetitions.  A handler
  that has been removed may come back, as the new object each `addXxxHandler()` call makes; no
  object is in the table twice.
  Requests meet a sorted table: a sketch that registers handlers sorts them before the next
  `loop()`, as the manual asks.
- `PduProcessing`: one handler of each class that behaves differently (settable or not, a value
  that cannot be built, one that checks length, one that takes shorter data than its own, one that
  withdraws its flag); lists of one, two and one too many varbinds; communities that may write,
  read, or nothing; texts that fit, hold a NUL, and are too long; opaque data of two bytes in full,
  short, with either of two leftover bytes, and too long.  The handlers have OIDs of their own.  A SET
  names a handler twice only where both varbinds are accepted (`PoliteWrites`): otherwise the second
  may lower the flag of the first (section 7).  `MaxWeight` makes a response too big by a string's
  length as well as by its number of rows.
- `BerWriter`: 272 bytes and contents of 125 and 128 bytes, so that scopes cross both steps of
  the length encoding, at 128 and 256; two open scopes.
- `MessageParsers`: 16 words at the ends of one, two, three and four bytes and the signs around
  them, strings of 0, 127, 128, 255 and 256 octets, OIDs of 1 and 33 bytes, every PDU type, up to
  three varbinds for a capacity of two.  Any one byte of a SET and of a v1 GET, and any two of a
  Response, become one of 13 values: tags, lengths at the edges, both long forms of a length.
  Every message is cut at every place.

## 5 Fairness

- `AgentLoop!LoopSpec`: weak fairness of `loop` (a sketch calls it for ever: nothing else runs
  the library), `CallbackReturns` (the ack callback returns) and `TimePasses`.  It is fairness of
  `loop()` as a whole and not of its pass over the queue: which datagram a call meets, and
  whether it therefore returns early, is up to the network.  Sends, answers and arrivals have
  none: a sketch may fall silent, and so may a manager.  `InformsSettleInTraffic` has the premise
  `RefusalsCease`, since without it the code does not settle informs (section 7).
- `MibWalk!FairSpec`: weak fairness of `sortHandlers` (a table that was changed is sorted, which
  the manual asks of the sketch), and strong fairness of `GetNext`, whose guard is a sorted
  table: the sketch keeps changing the table for ever, but `loop()` runs in between and the
  manager keeps asking.  `EveryWalkEnds` has the premise that the table never holds an OID twice: at
  such an OID a walk by GETNEXT is answered the same OID again and again.

All other runs check safety under no fairness.

## 6 Proofs

Each proof module has the same pattern: an inductive invariant, one lemma per action, and theorems
that follow from it by temporal logic.  Each theorem holds for every value of the constants that
the named assumptions of its module (`NSlotsAssumption`, `TickAssumption`, `InformAssumption` and
so on) allow.  A hypothesis beyond those is written in the theorem.

**Induction** (`Induction`).  The installed provers cannot instantiate the library's induction
theorems, whose parameter is a predicate.  `SetInduction` and `SubsetInduction` state induction for a
set of numbers and a set of subsets instead, which is all that a proof about a fold needs;
`Iteration` and `SubsetIteration` say that a function defined step by step exists, which makes a
recursive definition one that can be unfolded.  `PositionFold` and `FoldChain` unfold the fold of
the community modules over the elements of a sequence; `SameChain` and `ChainInduction` compare two
such folds and carry a relation along them.  All follow from facts of the library that
have no such parameter.  `TrapTree`, `AgentTick`, `BerWriter`, `HandlerOps`, `MibWalk` and `PduProcessing`
are written with folds and functions so that they apply.

**The pool, of any size** (`PoolOpsProofs`, `ASNPoolProofs`).  `NeverUnderReports` is not
inductive: a release lowers the counter by one, and without knowing that the slot was occupied,
and by whom, the counter could drop below the number of occupied slots.  `PoolInv` adds to
`TypeOK`, `NeverUnderReports`, `SlotsHaveOneOwner`, `AlarmsAreTrueDoubleDestroys` the agreement of
the slot flags with the pointers of the clients (`FlagsMatchPointers`): the slot of a stale pointer
is free, and marked `bulkFreed` unless it was lost under a late handler; a marked slot is free; a
slot that was destroyed is free and not marked.  `BaselineDivides` is why late handlers do no harm
to others: all that were registered in time lie below the baseline, every lost slot above it.
The contracts of the operations carry the
arithmetic; they are facts about pools, and `AgentTickProofs` uses the same ones.
`AllocationFindsSlot` is a consequence no run needs: the second "exhausted" exit of `rawAlloc`
(`BER.h` 144-146) is dead code.

**Whole ticks** (`AgentTickProofs`), for any number of traps, handlers, varbinds and slots.  All
five invariants of the run are theorems.  They need more and more of the sketch and of the
configuration, so there are four layers, each resting on those before it:

| Layer | Adds | Needs | Gives |
|---|---|---|---|
| `TickTypes` | counters and pointers in range, counter not below occupancy | nothing | `TickTypeCorrect` |
| `Stateless` | no trap has a tree between actions, only informs are queued | `InformsFit` | `TrapsAreStateless` |
| `PoolInv` | no alarm; handlers and decoded values are occupied and apart; a fixed baseline is above the handlers | `Disciplined` | `AlarmStaysZero` |
| `ReserveInv` | while within the reserve, and the baseline that of the handlers: only those slots are occupied, the counter agrees, nothing failed, the peak is four below the top | `PoolFits` too | `TransientsComeBack`, `DerivedPoolServes` |

`InformsFit` says that the list holds all the sketch's informs; `Disciplined` adds that it sends
nothing from the ack callback.  Neither can be dropped: `AgentTickQueueFull` and the setting
`AckSends = TRUE` of section 7 show behaviours without them.  Both are met by a sketch that does as the examples do.  When the sketch
sends is its own affair: before the first tick, too.  Such a send may move the baseline
(section 7), which costs slots but no handler; hence the premise of the last layer.
`PoolFits` is the size that
`defs.h` 329-341 derives with the margin of 277: room for the handlers, four spare slots and the larger of one notification
at the reserve and one packet, where a packet takes one slot more than `defs.h` counts (section 7).
That one slot matters where packets decide the size, or tie: with 8 varbinds and no reserve both
terms of `defs.h` are 16, the pool is one slot short of `PoolFits`, and its margin three.

Why four slots stay free is arithmetic about what a build may hold at once.  `NotificationCost`
settles it: 15 slots and 3 per varbind are enough for any notification, so that none of its
allocations is refused and no leaf dropped (`defs.h` 338-345 counts 16).  Its proof follows the
script of the allocations: `Bill` says what a prefix of the script costs, `RunConcat` that running
two scripts in a row is running their concatenation, and the varbinds come in by induction over
their number.  `AllocManyFits` says the same of the values of a packet and `PassServes` of the
pass over the queue, by induction over the informs that are due.  `StepReserve` puts them together.
TLC checks `ReserveInv` cheaply on the instance of the run, and did before it was proved.

**The inform queue** (`InformQueueProofs`), for any sets of traps, retries and delays, any list
size, any number of IDs and any clock width.  `QueueInv` adds to the properties of the run that IDs
above the last one generated are unused (`IdsAreFresh`) and that the inform whose callback runs is
open, or was cancelled by the callback (`AckingIsOpen`); without the first a new item could
overwrite an old one, without the second the callback's return could acknowledge nothing.
`ElapsedIsRealAge` has an invariant of its own over the clock, with the modular arithmetic in
`ClockArithmetic`.  `NoEarlyRetry` is the action property, from both.

Under `Disciplined` (the sketch always replaces, and no build fails) `RetryIdsMatch` shows that a
trap's ID is that of its item; hence `RetriesKeepTheirId`, the property that `InformRetryId` refutes
without this discipline.  `QueueImplementsService` is the refinement of `InformService`: the initial
states map to initial states and each action to the abstract one the lemma is named for
(`SendInformIsSubmit`, `CancellingIsCancel`, `PassIsPoll`) or to a stutter.  It needs `RetryIdsMatch`
because the network answers IDs, and the service informs.

**The loop** (the last part of `InformQueueProofs`), for any number of sockets.  `LoopRunsQueue`: a behaviour of the loop
is one of the queue, whatever arrives, however it is refused, and wherever a socket is restarted
or stopped.  So every theorem of the queue is one of the loop, `LoopImplementsService` among them.
`SocketsAreTyped` is `LoopTypeOK`, which says that a datagram waits only in a socket that is bound
and within the scan.

**The walk** (`MibWalkProofs`), for every MIB of handlers, any size of the table, any group, and
any number of repetitions.  `ArcsAssumption` asks that no arc of a handler exceeds a 32-bit `long`
(`LongMax`), which is what the code parses, encodes and compares it as; the arcs of a request are
never read as numbers.  `WalkAssumption` asks that the members of the group have OIDs of their own;
other handlers may share an OID.  All invariants of the run, `WalkTurnsOnlyAtTwins` and
`WalkCoversTheMib` are theorems.  The argument climbs from bytes to behaviours:

| Part | Says | By |
|---|---|---|
| order | `LexLess` is a strict order, and what lies between an OID and one below it lies below it too (`LexOrder`, `SubtreeIsInterval`) | the first place where two OIDs differ, a missing arc counting as least |
| bytes | `OidRoundTrip`: a comparison reads back the arcs that were encoded, whatever their size; `SubtreeByBytes`: bytes begin with the bytes of an OID exactly when the OID is an ancestor; `OrderByBytes`: `std::sort` is given the order of the MIB | induction over the bytes of an arc, and over the arcs |
| table | sorting keeps the handlers and leaves no two in the wrong order, registering and removing keep the objects apart and sysUpTime's OID its own (`SortedTable`, `AddedHandler`, `RemovedHandler`, `GroupRegistered`) | a map of a finite set onto one of its size is one-to-one |
| lookup | for an OID the table reaches, the answer is the next in order, or none; an OID it holds twice is answered with itself (`LookupIsNext`, `LookupAfter`) | the first match is the OID or the first below it, and those below it stand together |
| runs | the repetitions of a GETBULK are consecutive positions from the first answer on (`BulkRuns`), and so are repeated GETNEXTs where no OID stands twice (`StepsAgree`) | both add the same row in each step |
| walk | `WalkInv`, kept by every action (`WalkStep`) | |

`WalkCoversTheMib` follows from `NothingIsLeftBehind`: the OID of every steady handler has been seen
or comes after the walk's position.  It speaks of OIDs and not of handlers, because of two with one
OID a walk sees either.  `WalkInv` adds that no handler but the library's own has the OID of
sysUpTime, which is the one duplicate `addHandler` looks for, and is why a walk never turns there.
That the rows of an answer ascend (`RowsOfAnAnswer`) needs no memory of the walk: it is a fact about
the one table that answers.  TLC checked `WalkInv` on the instance of the run before it was proved.  That
a position the table does not reach ends the walk (section 7) needs no hypothesis: `EndsAtTheEnd`
allows it.

**Request processing** (`PduProcessingProofs`), for every MIB in order whose handlers have OIDs of
their own, every set of requests, every state of the handlers, and any positive `MaxLen` and
`MaxVarBinds` (`PduAssumption`; the code's are compile-time sizes).  `SameFunction` is the main
result: `handlePacketInPlace(req, st) = handlePacket(req, st)` for every request and state.  The two
do their work in a different order, one planning the whole response and then writing it, the other
filling a list and then serialising it, so the proof is a simulation over the varbinds:

| Part | Says | By |
|---|---|---|
| kinds | an item without a value is one that was refused; a plan never has more than `MaxVarBinds` rows and its index points at the last refused one (`Items`, `Plans`, `ErrorsPointed`) | one lemma for each step of each fold |
| look-ups | `findCallback` and `findCallbackForSlice` find the same handler at the same place (`Lookups`) | their comparisons match the same entries of the table (`SameMatches`) |
| one varbind | what is planned for a varbind is what is appended for it (`GetSteps`, `NonRepeaterSteps`, `RepeatSteps`, `SetSteps`) | cases of the look-up and of the value |
| chains | each fold is a chain of such steps (`GetListChain` and its kin) | `PositionFold`, `FoldChain` |
| two chains | a plan that has room stays the serialisation of the list (`Mirrors`), and plan and list run out of room at the same row (`Abreast`) | `ChainInduction` |
| outcomes | the same code, response, index and handlers (`SameOutcome`) | size checks after the loop, which see the same rows |

`PduInv` is the inductive invariant: `PduTypeOK`, and the outcome of the exchange last served is what
`handlePacketInPlace` makes of the request and of the state it met.  The invariants of the run say
nothing of where `last.outcome` comes from, so none of them is inductive alone.  From it follow
`BothPathsAgree`, `ErrorIndexPoints` and `AcknowledgedSetsHold`, and from `SeenInv` (between two requests
nothing is unseen) `SetEventsAreSeen`.  That theorem has two hypotheses, and section 7 shows what
becomes of the property without either: the sketch looks at its flags after every `loop()`
(`PollsEveryTick`), and no SET names an OID twice (`SetsNameOnce`), because a second varbind that is
refused lowers the flag the first one raised.  TLC agrees with
`PduInv`, `SeenInv` and `SetsNameOnce` on the instance of the run.

**The writer** (first part of `BerProofs`), for any capacity, any lengths and any depth of nesting.
`WriterInv` is `StaysInBuffer` and `LengthIsExact` with the types of the ghosts; neither is inductive
alone, since `endScope` moves as many bytes as it computes from the markers, and only exactness
says that they are those that were written.  `FailsOnlyForWindows` is proved together with it, by
induction over the open scopes for the closing of all of them (`ClosedAfter`).

**The codec** (second part of `BerProofs`), for every buffer, place and limit.  `LengthRoundTrip`: the
length field this library writes for any length below 65536 is read back as that length and
nothing around it matters.  `HeaderStaysInBuffer`: a header that is accepted has at least two
bytes and its content ends within the limit, for every sequence of bytes; hence each step of
either parser moves on, and stays in the datagram.  Its premise excludes lengths that do not fit
an `int` (section 8).  `HeaderReadsWithinLimit`: two buffers that agree on the bytes within the
limit give the same header, so no byte beyond it is used.  `WriterCountsTheBytes` joins codec and
writer: a value takes as many bytes in the accounting of `BerWriter` as `serialise()` writes, for any
content below 65536 bytes.  These are about single fields; no run checks them apart from whole
messages.

**Only model-checked.**  `InformsSettleInTraffic`, `EverySocketIsServed` and `EveryWalkEnds` are
liveness under fairness, which is out of the prover's reach.  The four invariants of
`MessageParsers` are about decoders that recur in the datagram, and about a finite list of messages
and faults, so a theorem would have to be stated for messages of every shape; that is not done.
The four runs that expect a violation are TLC's alone.

## 7 Divergences noted while modelling

Those with a run are in section 3.  The following were met while translating, have no run of
their own, and are recorded for whoever changes the code.  Where a constant selects the
behaviour, setting it shows the trace.

- `AckSends = TRUE` in `AgentTick`: a sketch that sends from its ack callback runs
  `sendTo()` and `resetAll()` inside `handlePacketInPlace()`, whose decoded values
  (`SNMPZeroCopy.cpp` 480-493) are still owned by AsnPtrs.  The new tree reuses their slots and is
  released; when the packet ends the AsnPtrs destroy them again, and `NoDoubleReleases` fails.
  `defs.h` 331 says that a request tick and a trap rebuild never overlap; `SNMP_Embedded.h` 311-317
  does not forbid it.
- `BaselineIsHandlers` fails in `AgentTick`: a trap sent in `setup()`, before anything has frozen the
  baseline, resets the pool with its own tree in it (`SNMPInform.cpp` 65, `SNMPTrap.h` 151), and the
  end of the tree becomes the baseline for good.  `BER.h` 155-162 says that freezing in `resetAll()`
  makes the baseline independent of who resets first.  Handlers lose nothing by it; the used count
  over-reports from then on, and a slot leaked below the baseline is never swept.
- `MaxInflight = 1` in `AgentTick` violates `StatelessBetweenSends` as well: `SNMPInform.cpp` 83-92.
- `~WithinReserve => ~partial` fails in `AgentTick`: when the pool ends at a leaf,
  `addValueToListRaw(nullptr)` drops it, the build succeeds and the notification is sent without
  it.  `defs.h` 349-351 says that overflow fails loudly and the trap is not sent.
- `EveryInformSettles` without `RefusalsCease` fails in `AgentLoop`: a stream of datagrams that are
  too long or read short keeps `loop()` from `handleInformQueue()` for ever, so informs are neither
  resent nor given up, and the list stays full.
- A low socket that is never silent keeps `loop()` from all later ones (`EverySocketIsServed` has
  that premise).
- `sysUpTime` wraps with `millis()`, after 49.7 days, and not after the 497 days of
  `SNMP_Embedded.cpp` 12-14.
- `NetworkAddress::fromBuffer()` returns the length of its header (`BERDecode.cpp` 212-225), where
  `BER.h` 361 promises the bytes used.  Both decoders therefore refuse every request with an
  IpAddress value.
- `NullType::fromBuffer()` takes two bytes whatever the length field says; a NULL with a long-form
  length is refused by the in-place path and read on from its middle by the other.
- The containers accept a child that overruns its parent, as long as it ends within what is left of
  the parent's own limit, and a message that ends after any complete part: without PDU,
  `packetPDUType` keeps whatever value it had.  The views refuse both.
- The views ignore what follows the PDU in the root and the varbind list in the PDU, and accept a
  TrapPDU; the containers do neither (`Exceptional` in `MessageParsers`).
- A constructed value in a varbind is a NULL for the container path (`VarBinds.h` 157-195).
- A community of more than 256 bytes is malformed for the containers and merely unknown in place.
- When the handler a walk stands at is removed, the next GETNEXT answers endOfMibView although
  later OIDs exist, while `SNMP_Embedded.cpp` 72-73 speaks of walks that bridge a gap cleanly.
  `WalkCoversTheMib` makes this the only case.
- `PollsEveryTick = FALSE` in `PduProcessing`: a later refused SET clears a setOccurred nobody
  has looked at.  A SET that names one handler twice can do the same.
- A handler's sub-identifier above 2^31 - 1 is legal in SNMP, but `strtol` (`BEREncode.cpp` 166)
  cuts it to `LONG_MAX` where a `long` has 32 bits: such handlers are registered under an OID that is
  not theirs, possibly each other's.
- At an OID registered twice only the first handler can be found, and a walk by GETNEXT is answered
  the same OID for ever; only a GETBULK gets past it.  `WalkTurnsOnlyAtTwins` makes this the only
  such case.  `addHandler()` compares a new OID with sysUpTime's alone (`SNMP_Embedded.cpp` 467-475),
  although 85-87 says that registering a group's OID by hand before the group "collides through the
  normal duplicate-OID path and is logged": there is no such path.
- A SET of an `OpaqueCallback` with fewer bytes than its own is acknowledged; only those that came
  are copied (`ValueCallbacks.cpp` 252-262) into a value object whose other bytes are what its slot
  held before, and the handler then stores all of them.
- A SET of a text with a NUL is acknowledged, and stored up to the NUL (`ValueCallbacks.cpp` 213-239).
- `BERView.h` 116-118 calls tooBig genuine; the writer refuses a message that would fit by up to
  two bytes per open scope.  `FailsOnlyForWindows` states the exact margin.
- `BERView.h` 161-166 calls `putTLV` atomic; for lengths from 128 on it may write the header and
  then fail.
- A v1 GET of a missing OID is answered with the v2c exception noSuchObject, on both paths
  (`SNMPZeroCopy.cpp` 183, `SNMPPDUHandler.cpp` 43-76); `SNMP_Embedded.cpp` 72-73 says noSuchName.
- A v1 SET with the read-only community is answered with noAccess (6), which v1 does not have.
- GETBULK that overflows stages one value before it notices, so a packet may take 2 V + 1 slots,
  and the margin of four that `defs.h` 277 computes is three then.
- A container build that fails after the PDU was made leaks the PDU's slots until the next reset
  (`SNMPPacket.cpp` 216).
- The used count over-reports after a handler below the baseline has been destroyed: the reset
  sets it to the baseline.
- `SNMP_Embedded.h` 316 mentions `setInformTimeoutCallback()`, which does not exist.

## 8 Not modelled

- **Contents between the modules.**  A datagram is bytes in `MessageParsers`, a decoded request in
  `PduProcessing`, a sort of packet in `AgentLoop`: the first justifies what the others assume,
  but they are not composed.
- **Extreme lengths.**  A length field of four bytes with the top bit set does not fit the `int` it
  is read into; such fields are left out of `MessageParsers`.  So are the limits `serialise()`
  checks while it writes: `BerWriter` and `MaxWeight` in `PduProcessing` stand for them.
- **The wrap of the uptime clock**, an event of `millis()` itself.
- **Pool exhaustion within a request** of the container path: `AgentTick` takes the slots of
  requests as a number, `PduProcessing` has no pool.
- **Statistics and printing**, examples and host tests: no state of their own, or not part of
  the library.
- External: `millis()` (the variable `now`), the network and the manager (`onWire`,
  `LoopResponse`, `Requests`, `walk`), modelled from how the library uses them.

## 9 Plan

Done: pool, notification trees, inform queue with its abstract service, the loop over sockets,
uptime, handler table and walks, both request processors, writer, codec and both parsers; proofs
of the pool, of whole ticks on it, of the queue, the service and the loop, of walks over the MIB,
of request processing on both paths, of the writer and of single BER fields.

Next, in this order:
1. **Pool exhaustion in a request**: the container path on `PoolOps`, in place of a number of
   slots.
2. **Several agents with one trap**: each has its own queue, and the trap one request ID.
3. **Equal IDs**: a draw that repeats the ID of an open inform, for which `inform_callback`
   removes every item.
4. **A trap that changes between sends**: `AgentTick` chooses what a trap is once, while a sketch may
   call `setInform` and `setVersion` before any send, as `ESP32_SNMP.ino` does.

Theorems to come: that every message of the shapes `MessageParsers` lists is read back, for any
number of varbinds (`MessageIsRead`), from `LengthRoundTrip` and an induction over the parts.

## 10 How to run

    tlasany InformQueue.tla
    tlc -workers 2 -config InformQueue.cfg MCInformQueue
    tlapm InformQueueProofs.tla        # and the other modules whose name ends in Proofs

The module of each run is named in `PROJECT.json`.
