----------------------------- MODULE InformQueue -----------------------------
(***************************************************************************)
(* The inform queue of one agent: sendTrapTo(), the retry pass that loop() *)
(* runs, and the matching of Response PDUs by request ID                   *)
(* (src/src/SNMPInform.cpp, src/src/SNMPTrap.h, src/src/SNMP_Embedded.cpp) *)
(* against a manager behind a network that loses, delays and duplicates.   *)
(*                                                                         *)
(* A trap object keeps its request ID in itself (trap->requestID) and a    *)
(* queued InformItem keeps a copy of the ID it was first sent with; a      *)
(* retry is sent through the trap.  Both IDs are state here, because       *)
(* nothing but the callers' discipline keeps them equal.                   *)
(*                                                                         *)
(* No behaviour depends on the order of informList[], so it is the         *)
(* function "item" from the request IDs of the queued items.  item.missed  *)
(* is set and consumed within one retry pass and item.received is never    *)
(* set by the code, so neither is state.  setInform() only chooses which   *)
(* branch the next send takes, so the branch is the input.                 *)
(***************************************************************************)
EXTENDS Integers, FiniteSets, Functions

CONSTANTS
  Traps,            \* the sketch's SNMPTrap objects
  MaxInflight,      \* SNMP_MAX_TRAPS_INFLIGHT
  MaxId,            \* bound: request IDs drawn in one behaviour
  Retries, Delays,  \* the retries and delay_ms values the sketch passes
  Wrap,             \* millis() counts modulo Wrap
  ReplaceChoices,   \* the replaceQueuedRequests values the sketch passes
  BuildMayFail      \* may building a notification tree fail (pool exhausted)?

ASSUME InformAssumption ==
  /\ MaxInflight \in Nat \ {0}
  /\ MaxId \in Nat
  /\ Wrap \in Nat \ {0, 1}
  /\ Retries \subseteq Nat
  /\ Delays \subseteq 0 .. Wrap - 2
  /\ ReplaceChoices \subseteq BOOLEAN
  /\ BuildMayFail \in BOOLEAN

\* generate_request_id() draws at random and never 0; the draws are taken to be
\* different, and each is named by its place in the order of the draws
Ids == 1 .. MaxId
Millis == 0 .. Wrap - 1

\* InformItem; attempts, granted and age are ghosts: the sends made for the
\* item, 1 + the retries asked for, and the real time since the last send
Items == [trap : Traps, retries : Nat, lastSent : Millis, delay : Delays,
          attempts : Nat, granted : Nat, age : Millis]

Fates == {"none", "queued", "acked", "expired", "cancelled"}

VARIABLES
  requestID,    \* requestID[t]: trap->requestID, 0 before the first send
  item,         \* informList[]: the queued items by their request ID
  lastId,       \* IDs 1..lastId have been drawn
  now,          \* millis()
  onWire,       \* ghost: request IDs of informs that reached the network
  acking,       \* the ID whose ack callback of the sketch is running, or 0
  confirmed,    \* ghost: IDs the ack callback has been called with
  fate          \* ghost: what became of the inform queued under an ID

vars == <<requestID, item, lastId, now, onWire, acking, confirmed, fate>>

Init ==
  /\ requestID = [t \in Traps |-> 0]
  /\ item = << >>
  /\ lastId = 0
  /\ now = 0
  /\ onWire = {}
  /\ acking = 0
  /\ confirmed = {}
  /\ fate = [id \in Ids |-> "none"]

-----------------------------------------------------------------------------
queued == DOMAIN item

\* Mutant: the items are freed but informCount is not lowered.
KeepAll(ids) == item

\* remove_informs_matching(): keep the items with these IDs
Keep(ids) == Restrict(item, ids)

\* pred_match_trap
OfTrap(t) == {id \in queued : item[id].trap = t}

\* Mutant: a retry one millisecond early.
DueAtDelay(id) == (now - item[id].lastSent) % Wrap >= item[id].delay

\* "thisLoop - lastSent > delay_ms" in unsigned arithmetic
Due(id) == (now - item[id].lastSent) % Wrap > item[id].delay

\* sendTo(ip, true) of each, any of which may fail before the network
Transmit(ids) == \E sent \in SUBSET ids : onWire' = onWire \cup sent

\* the fates after the inform "new" is queued and those in "gone" cancelled
Refate(new, gone) ==
  fate' = [id \in Ids |-> IF id \in new THEN "queued"
                          ELSE IF id \in gone THEN "cancelled" ELSE fate[id]]

-----------------------------------------------------------------------------
(* queue_and_send_trap()                                                    *)

\* Mutant: the trap takes the ID after the one that was generated.
NewIdsAhead(t, n) ==
  /\ lastId + n <= MaxId
  /\ lastId' = lastId + n
  /\ requestID' = [requestID EXCEPT ![t] = lastId + n + 1]

\* buildForSending() generates n IDs on this path; the trap keeps the last
NewIds(t, n) ==
  /\ lastId + n <= MaxId
  /\ lastId' = lastId + n
  /\ requestID' = [requestID EXCEPT ![t] = lastId + n]

\* Mutant: replaceQueuedRequests is ignored.
KeptAlways(t, replace) == queued

\* the items left after "remove any outstanding informs for this trap"
Kept(t, replace) == IF replace THEN queued \ OfTrap(t) ELSE queued

\* the build fails: the trap has its new ID, the queue is untouched
SendBuildFails(t) ==
  /\ BuildMayFail
  /\ NewIds(t, 1)
  /\ UNCHANGED <<item, now, onWire, acking, confirmed, fate>>

\* a plain trap: sendTo(ip) generates a second ID and nothing is queued
SendPlainTrap(t, replace) ==
  /\ NewIds(t, 2)
  /\ item' = Keep(Kept(t, replace))
  /\ Refate({}, queued \ Kept(t, replace))
  /\ UNCHANGED <<now, onWire, acking, confirmed>>

\* the queue is full, or calloc() fails: replaced items are gone all the same
SendInformDropped(t, replace) ==
  /\ NewIds(t, 1)
  /\ item' = Keep(Kept(t, replace))
  /\ Refate({}, queued \ Kept(t, replace))
  /\ UNCHANGED <<now, onWire, acking, confirmed>>

SendInform(t, replace, retries, delay) ==
  LET id == lastId + 1
      kept == Kept(t, replace)
      new == [trap |-> t, retries |-> retries, lastSent |-> now,
              delay |-> delay, attempts |-> 1, granted |-> 1 + retries, age |-> 0]
  IN  /\ NewIds(t, 1)
      /\ Cardinality(kept) < MaxInflight
      /\ item' = [i \in kept \cup {id} |-> IF i = id THEN new ELSE item[i]]
      /\ Refate({id}, queued \ kept)
      /\ Transmit({id})
      /\ UNCHANGED <<now, acking, confirmed>>

SendTrapTo(t) ==
  \/ SendBuildFails(t)
  \/ \E replace \in ReplaceChoices :
       \/ SendPlainTrap(t, replace)
       \/ SendInformDropped(t, replace)
       \/ \E retries \in Retries, delay \in Delays :
            SendInform(t, replace, retries, delay)

\* markTrapDeleted(): the sketch is about to destroy the trap
MarkTrapDeleted(t) ==
  /\ item' = Keep(queued \ OfTrap(t))
  /\ Refate({}, OfTrap(t))
  /\ UNCHANGED <<requestID, lastId, now, onWire, acking, confirmed>>

-----------------------------------------------------------------------------
(* One call of loop(): at most one packet, then handle_inform_queue().  A   *)
(* packet that acknowledges an inform first runs the ack callback, in which *)
(* the sketch may call sendTrapTo() or markTrapDeleted().                   *)

Retried(rest) == {id \in rest : Due(id) /\ item[id].retries > 0}
\* Mutant: an item is given up with a retry left.
ExhaustedEarly(rest) == {id \in rest : Due(id) /\ item[id].retries <= 1}

Exhausted(rest) == {id \in rest : Due(id) /\ item[id].retries = 0}

\* Mutant: a retry that costs nothing.
ResentForFree(it) == [it EXCEPT !.lastSent = now, !.attempts = @ + 1, !.age = 0]

\* Mutant: a retry does not restart the delay.
ResentUntimed(it) == [it EXCEPT !.retries = @ - 1, !.attempts = @ + 1, !.age = 0]

Resent(it) ==
  [it EXCEPT !.retries = @ - 1, !.lastSent = now, !.attempts = @ + 1, !.age = 0]

\* handle_inform_queue() over the items in "rest", those in "acked" having just
\* been removed.  A retry is sent through its trap and carries the trap's ID.
HandleInformQueue(rest, acked) ==
  LET again == Retried(rest)
      over == Exhausted(rest)
  IN  /\ item' = [id \in rest \ over |->
                    IF id \in again THEN Resent(item[id]) ELSE item[id]]
      /\ Transmit({requestID[item[id].trap] : id \in again})
      /\ fate' = [id \in Ids |-> IF id \in acked THEN "acked"
                                 ELSE IF id \in over THEN "expired"
                                 ELSE fate[id]]
      /\ UNCHANGED <<requestID, lastId, now, confirmed>>

\* Mutant: every Response PDU is taken for an acknowledgement.
PendingAlways(id) == id \in Ids

\* inform_pending_with_id()
Pending(id) == id \in queued

\* no packet, a packet that has nothing to do with informs, or a Response PDU
\* for an inform that is not pending any more
LoopQuiet ==
  /\ acking = 0
  /\ HandleInformQueue(queued, {})
  /\ UNCHANGED acking

\* a Response PDU for an inform the manager has received: the sketch is told
LoopResponse(id) ==
  /\ acking = 0
  /\ id \in onWire
  /\ Pending(id)
  /\ acking' = id
  /\ confirmed' = confirmed \cup {id}
  /\ UNCHANGED <<requestID, item, lastId, now, onWire, fate>>

\* the callback returns: inform_callback() removes the item with that ID, if
\* it is still there, and the pass over the queue ends the call of loop()
LoopAcknowledge ==
  /\ acking # 0
  /\ HandleInformQueue(queued \ {acking}, queued \cap {acking})
  /\ acking' = 0

\* millis() advances; loop() runs at least once per wrap period (49.7 days)
Tick ==
  /\ \A id \in queued : item[id].age < Wrap - 1
  /\ now' = (now + 1) % Wrap
  /\ item' = [id \in queued |-> [item[id] EXCEPT !.age = @ + 1]]
  /\ UNCHANGED <<requestID, lastId, onWire, acking, confirmed, fate>>

Next ==
  \/ \E t \in Traps : SendTrapTo(t) \/ MarkTrapDeleted(t)
  \/ LoopQuiet
  \/ \E id \in Ids : LoopResponse(id)
  \/ LoopAcknowledge
  \/ Tick

Spec == Init /\ [][Next]_vars

-----------------------------------------------------------------------------
TypeOK ==
  /\ requestID \in [Traps -> 0 .. MaxId]
  /\ queued \subseteq Ids
  /\ item \in [queued -> Items]
  /\ lastId \in 0 .. MaxId
  /\ now \in Millis
  /\ onWire \subseteq Ids
  /\ acking \in 0 .. MaxId
  /\ confirmed \subseteq Ids
  /\ fate \in [Ids -> Fates]

\* The list never outgrows informList[], and holds exactly the informs that are
\* not settled: an acknowledged, expired or cancelled one never comes back.
QueueHoldsOpenInforms ==
  /\ Cardinality(queued) <= MaxInflight
  /\ queued = {id \in Ids : fate[id] = "queued"}

\* SNMP_Embedded.cpp 520-522: no phantom confirmations.  An inform the sketch was
\* told about has reached the network and ends acknowledged, or cancelled by
\* the sketch in the callback itself, but never expired; and every acknowledged
\* inform was told.
AcksAreGenuine ==
  /\ confirmed \subseteq onWire
  /\ \A id \in Ids :
       /\ fate[id] = "acked" => id \in confirmed
       /\ id \in confirmed => acking = id \/ fate[id] \in {"acked", "cancelled"}

\* Sends made and retries left always add up to what the sketch asked for: the
\* pass never loses or adds an attempt, even when a send fails (SNMPInform.cpp
\* 130-143).
BudgetIsExact ==
  \A id \in queued : item[id].attempts + item[id].retries = item[id].granted

\* The ID a trap has now is the ID of each item queued for it, so that a retry
\* can be matched with its answer.  Holds when every send replaces the queued
\* requests of its trap (the default) and no build fails.
RetryCarriesOwnId == \A id \in queued : requestID[item[id].trap] = id

\* The unsigned subtraction measures the real time since the last send even
\* when millis() has wrapped in between.
ElapsedSurvivesWrap ==
  \A id \in queued : (now - item[id].lastSent) % Wrap = item[id].age

\* An inform is given up only after its last retry, and it is sent again or
\* given up only when its whole delay has really passed since its last send.
GivesUpOnlyAfterLastWait ==
  [][\A id \in queued :
       /\ fate'[id] = "expired" => /\ item[id].attempts = item[id].granted
                                   /\ item[id].age > item[id].delay
       /\ id \in queued' /\ item'[id].attempts # item[id].attempts
            => item[id].age > item[id].delay]_vars

\* SNMPTrap.h 133-135: a retry "must re-emit the ORIGINAL ID" of its inform.
RetryReemitsOriginalId ==
  [][\A id \in queued :
       id \in queued' /\ item'[id].attempts > item[id].attempts
         => requestID[item[id].trap] = id]_vars

\* As long as loop() runs and time passes, every inform is settled, even when
\* the manager never answers and the sketch never sends again.
EveryInformSettles ==
  \A id \in Ids : fate[id] = "queued" ~> fate[id] \in Fates \ {"none", "queued"}

\* The queue implements the promise of InformService.
Budgets == {1 + r : r \in Retries}
Attempts == [id \in Ids |-> IF id \in queued THEN item[id].attempts ELSE 0]
Granted == [id \in Ids |-> IF id \in queued THEN item[id].granted ELSE 0]
Service == INSTANCE InformService WITH attempts <- Attempts, granted <- Granted
ImplementsService == Service!Spec
=============================================================================
