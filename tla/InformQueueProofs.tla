-------------------------- MODULE InformQueueProofs --------------------------
(***************************************************************************)
(* Proofs about InformQueue for any traps, queue size, delays, retries and *)
(* clock width, and last about AgentLoop, which extends it.  QueueInv is   *)
(* the inductive invariant.  It adds to the invariants of the runs that    *)
(* request IDs are fresh when they are given out (nothing on the wire, in  *)
(* the queue or confirmed has an ID yet to be generated), which is why no  *)
(* answer and no fate meets a new inform.                                  *)
(***************************************************************************)
EXTENDS AgentLoop, FiniteSetTheorems, TLAPS

\* Nothing has the ID of an inform that has not been sent yet.
IdsAreFresh ==
  /\ \A t \in Traps : requestID[t] <= lastId
  /\ \A id \in onWire : id <= lastId
  /\ \A id \in Ids : id > lastId => fate[id] = "none"
  /\ \A id \in queued : requestID[item[id].trap] # 0

\* While its callback runs, an inform is pending or the sketch cancels it.
AckingIsOpen ==
  acking # 0 => acking \in confirmed /\ fate[acking] \in {"queued", "cancelled"}

QueueInv ==
  /\ TypeOK
  /\ QueueHoldsOpenInforms
  /\ BudgetIsExact
  /\ AcksAreGenuine
  /\ IdsAreFresh
  /\ AckingIsOpen

-----------------------------------------------------------------------------
(* What the steps do to the queue.                                          *)

\* Every set of queued IDs is finite and no larger than the queue.
LEMMA QueueSets ==
  ASSUME TypeOK, NEW S \in SUBSET queued
  PROVE  /\ IsFiniteSet(S)
         /\ Cardinality(S) \in Nat
         /\ Cardinality(S) <= Cardinality(queued)
         /\ Cardinality(queued) \in Nat
<1>1. IsFiniteSet(Ids)
  BY InformAssumption, FS_Interval DEF Ids
<1>2. IsFiniteSet(queued)
  BY <1>1, FS_Subset DEF TypeOK
<1> QED
  BY <1>2, FS_Subset, FS_CardinalityType

\* Cancelling some items keeps every fact about the items that stay.
LEMMA Cancelling ==
  ASSUME QueueInv, NEW kept \in SUBSET queued,
         item' = Keep(kept), Refate({}, queued \ kept)
  PROVE  /\ DOMAIN item' = kept
         /\ \A id \in kept : item'[id] = item[id]
         /\ item' \in [kept -> Items]
         /\ fate' \in [Ids -> Fates]
         /\ \A id \in Ids : fate'[id] = IF id \in queued \ kept THEN "cancelled" ELSE fate[id]
         /\ QueueHoldsOpenInforms'
         /\ BudgetIsExact'
<1>1. /\ DOMAIN item' = kept
      /\ \A id \in kept : item'[id] = item[id]
  BY DEF Keep, Restrict
<1>2. item' \in [kept -> Items]
  BY DEF Keep, Restrict, QueueInv, TypeOK
<1>3. /\ fate' \in [Ids -> Fates]
      /\ \A id \in Ids : fate'[id] = IF id \in queued \ kept THEN "cancelled" ELSE fate[id]
  BY DEF Refate, QueueInv, TypeOK, Fates
<1>4. kept = {id \in Ids : fate'[id] = "queued"}
  BY <1>3 DEF QueueInv, TypeOK, QueueHoldsOpenInforms
<1>5. Cardinality(kept) <= MaxInflight
  BY QueueSets, InformAssumption DEF QueueInv, QueueHoldsOpenInforms
<1>6. QueueHoldsOpenInforms'
  BY <1>1, <1>4, <1>5 DEF QueueHoldsOpenInforms, queued
<1>7. BudgetIsExact'
  BY <1>1 DEF QueueInv, BudgetIsExact, queued
<1> QED
  BY <1>1, <1>2, <1>3, <1>6, <1>7

\* The facts the cancelling steps share: they touch no ID on the wire, no
\* confirmation, and only move informs from "queued" to "cancelled".
LEMMA CancellingKeepsInv ==
  ASSUME QueueInv, NEW kept \in SUBSET queued,
         item' = Keep(kept), Refate({}, queued \ kept),
         UNCHANGED <<now, onWire, acking, confirmed>>,
         requestID' \in [Traps -> 0 .. MaxId], lastId' \in 0 .. MaxId,
         lastId <= lastId', \A t \in Traps : requestID'[t] <= lastId',
         \A id \in kept : requestID'[item[id].trap] # 0
  PROVE  QueueInv'
<1>1. TypeOK'
  BY Cancelling DEF QueueInv, TypeOK, queued
<1>2. AcksAreGenuine'
  BY Cancelling DEF QueueInv, TypeOK, AcksAreGenuine, QueueHoldsOpenInforms
<1>3. IdsAreFresh'
  <2>1. \A id \in Ids : id > lastId' => fate'[id] = "none"
    <3>1. TAKE id \in Ids
    <3>2. HAVE id > lastId'
    <3>3. fate[id] = "none"
      BY <3>2 DEF QueueInv, IdsAreFresh, TypeOK, Ids
    <3>4. id \notin queued
      BY <3>3 DEF QueueInv, QueueHoldsOpenInforms
    <3> QED
      BY <3>3, <3>4, Cancelling
  <2>2. \A id \in onWire' : id <= lastId'
    BY DEF QueueInv, IdsAreFresh, TypeOK, Ids
  <2> QED
    BY <2>1, <2>2, Cancelling DEF IdsAreFresh, queued
<1>4. AckingIsOpen'
  BY Cancelling DEF QueueInv, TypeOK, AckingIsOpen, AcksAreGenuine, Ids
<1> QED
  BY <1>1, <1>2, <1>3, <1>4, Cancelling DEF QueueInv

\* NewIds() hands out an ID above every one in use.
LEMMA FreshIds ==
  ASSUME QueueInv, NEW t \in Traps, NEW n \in {1, 2}, NewIds(t, n)
  PROVE  /\ requestID' \in [Traps -> 0 .. MaxId]
         /\ lastId' \in 0 .. MaxId
         /\ lastId' = lastId + n
         /\ requestID'[t] = lastId + n
         /\ \A u \in Traps : /\ requestID'[u] <= lastId'
                             /\ u # t => requestID'[u] = requestID[u]
         /\ lastId + 1 \in Ids
         /\ lastId + 1 \notin queued \cup onWire \cup confirmed
         /\ fate[lastId + 1] = "none"
         /\ acking # lastId + 1
<1>1. lastId \in 0 .. MaxId /\ MaxId \in Nat /\ lastId + n <= MaxId
  BY InformAssumption DEF QueueInv, TypeOK, NewIds
<1>2. /\ requestID' = [requestID EXCEPT ![t] = lastId + n]
      /\ lastId' = lastId + n
      /\ requestID \in [Traps -> 0 .. MaxId]
  BY DEF NewIds, QueueInv, TypeOK
<1>3. \A u \in Traps : requestID[u] <= lastId /\ requestID[u] \in Nat
  BY <1>2 DEF QueueInv, IdsAreFresh
<1>4. lastId + 1 \in Ids /\ fate[lastId + 1] = "none"
  BY <1>1 DEF Ids, QueueInv, IdsAreFresh
<1>5. lastId + 1 \notin queued
  BY <1>4 DEF QueueInv, QueueHoldsOpenInforms
<1>6. lastId + 1 \notin onWire
  BY <1>1 DEF QueueInv, IdsAreFresh
<1>7. lastId + 1 \notin confirmed
  BY <1>6 DEF QueueInv, AcksAreGenuine
<1>8. acking # lastId + 1
  BY <1>1, <1>7 DEF QueueInv, AckingIsOpen
<1> QED
  BY <1>1, <1>2, <1>3, <1>4, <1>5, <1>6, <1>7, <1>8

\* Queueing a new inform keeps the invariant.
LEMMA SendInformKeepsInv ==
  ASSUME QueueInv, NEW t \in Traps, NEW replace \in ReplaceChoices,
         NEW retries \in Retries, NEW delay \in Delays,
         SendInform(t, replace, retries, delay)
  PROVE  QueueInv'
<1> DEFINE id == lastId + 1
           kept == Kept(t, replace)
           new == [trap |-> t, retries |-> retries, lastSent |-> now,
                   delay |-> delay, attempts |-> 1, granted |-> 1 + retries, age |-> 0]
<1>1. /\ NewIds(t, 1)
      /\ Cardinality(kept) < MaxInflight
      /\ item' = [i \in kept \cup {id} |-> IF i = id THEN new ELSE item[i]]
      /\ Refate({id}, queued \ kept)
      /\ Transmit({id})
      /\ UNCHANGED <<now, acking, confirmed>>
  BY DEF SendInform
<1>2. kept \subseteq queued
  BY DEF Kept
<1>3. /\ id \in Ids /\ id \notin queued \cup onWire \cup confirmed
      /\ fate[id] = "none" /\ acking # id
      /\ requestID' \in [Traps -> 0 .. MaxId] /\ lastId' \in 0 .. MaxId
      /\ lastId' = id /\ requestID'[t] = id
      /\ \A u \in Traps : /\ requestID'[u] <= lastId'
                          /\ u # t => requestID'[u] = requestID[u]
  BY <1>1, FreshIds
<1>4. /\ DOMAIN item' = kept \cup {id}
      /\ item'[id] = new
      /\ \A i \in kept : item'[i] = item[i]
  BY <1>1, <1>2, <1>3
<1>5. new \in Items /\ new.trap = t /\ new.attempts + new.retries = new.granted
  BY InformAssumption DEF QueueInv, TypeOK, Items, Millis
<1> HIDE DEF new
<1>6. item' \in [kept \cup {id} -> Items]
  BY <1>1, <1>2, <1>3, <1>5 DEF QueueInv, TypeOK
<1>7. /\ fate' \in [Ids -> Fates]
      /\ \A i \in Ids : fate'[i] = IF i = id THEN "queued"
                                   ELSE IF i \in queued \ kept THEN "cancelled" ELSE fate[i]
  BY <1>1 DEF Refate, QueueInv, TypeOK, Fates
<1> HIDE DEF id, kept
<1>8. onWire \subseteq onWire' /\ onWire' \subseteq onWire \cup {id}
  BY <1>1 DEF Transmit
<1>9. queued' = kept \cup {id} /\ kept \cup {id} \subseteq Ids
  BY <1>2, <1>3, <1>4 DEF queued, QueueInv, TypeOK
<1>10. TypeOK'
  BY <1>1, <1>3, <1>6, <1>7, <1>8, <1>9 DEF QueueInv, TypeOK
<1>11. QueueHoldsOpenInforms'
  <2>1. queued' = {i \in Ids : fate'[i] = "queued"}
    <3>1. \A i \in Ids : i \in queued <=> fate[i] = "queued"
      BY DEF QueueInv, QueueHoldsOpenInforms
    <3>2. \A i \in Ids : i \in kept \cup {id} <=> fate'[i] = "queued"
      BY <1>2, <1>3, <1>7, <3>1
    <3> QED
      BY <1>9, <3>2
  <2>2. Cardinality(kept \cup {id}) = Cardinality(kept) + 1 /\ Cardinality(kept) \in Nat
    BY <1>2, <1>3, QueueSets, FS_AddElement DEF QueueInv
  <2>3. Cardinality(queued') <= MaxInflight
    BY <1>1, <1>9, <2>2, InformAssumption
  <2> QED
    BY <2>1, <2>3 DEF QueueHoldsOpenInforms
<1>12. BudgetIsExact'
  BY <1>2, <1>4, <1>5, <1>9 DEF QueueInv, BudgetIsExact
<1>13. AcksAreGenuine'
  BY <1>1, <1>2, <1>3, <1>7, <1>8 DEF QueueInv, TypeOK, AcksAreGenuine, QueueHoldsOpenInforms
<1>14. IdsAreFresh'
  <2>1. \A i \in onWire' : i <= lastId'
    BY <1>3, <1>8 DEF QueueInv, IdsAreFresh, TypeOK, Ids, id
  <2>2. \A i \in Ids : i > lastId' => fate'[i] = "none"
    <3>1. TAKE i \in Ids
    <3>2. HAVE i > lastId'
    <3>3. i # id /\ fate[i] = "none"
      BY <1>3, <3>2 DEF QueueInv, IdsAreFresh, TypeOK, Ids, id
    <3>4. i \notin queued
      BY <3>3 DEF QueueInv, QueueHoldsOpenInforms
    <3> QED
      BY <1>7, <3>3, <3>4
  <2>3. \A i \in queued' : requestID'[item'[i].trap] # 0
    <3>1. TAKE i \in queued'
    <3>2. CASE i = id
      BY <1>3, <1>4, <1>5, <3>2 DEF Ids
    <3>3. CASE i # id
      <4>1. i \in kept /\ i \in queued /\ item'[i] = item[i] /\ item[i].trap \in Traps
        BY <1>2, <1>4, <1>9, <3>3 DEF QueueInv, TypeOK, Items
      <4>2. requestID[item[i].trap] # 0
        BY <4>1 DEF QueueInv, IdsAreFresh
      <4> QED
        BY <1>3, <4>1, <4>2 DEF Ids
    <3> QED
      BY <3>2, <3>3
  <2> QED
    BY <1>3, <2>1, <2>2, <2>3 DEF IdsAreFresh
<1>15. AckingIsOpen'
  BY <1>1, <1>3, <1>7 DEF QueueInv, TypeOK, AckingIsOpen, Ids
<1> QED
  BY <1>10, <1>11, <1>12, <1>13, <1>14, <1>15 DEF QueueInv

\* A retry spends one of the retries left and changes neither trap nor budget.
LEMMA ResentItem ==
  ASSUME NEW it \in Items, it.retries > 0, now \in Millis
  PROVE  /\ Resent(it) \in Items
         /\ Resent(it).trap = it.trap
         /\ Resent(it).attempts + Resent(it).retries = it.attempts + it.retries
         /\ Resent(it).granted = it.granted
<1>1. /\ it.trap \in Traps /\ it.retries \in Nat /\ it.attempts \in Nat
      /\ it.delay \in Delays /\ it.granted \in Nat
  BY DEF Items
<1>2. it.retries - 1 \in Nat /\ it.attempts + 1 \in Nat /\ 0 \in Millis
  BY <1>1, InformAssumption DEF Millis
<1> DEFINE r1 == [it EXCEPT !.retries = it.retries - 1]
           r2 == [r1 EXCEPT !.lastSent = now]
           r3 == [r2 EXCEPT !.attempts = it.attempts + 1]
           r4 == [r3 EXCEPT !.age = 0]
<1>3. r1 \in Items
  BY <1>2 DEF Items
<1>4. r2 \in Items
  <2> HIDE DEF r1
  <2> QED
    BY <1>3 DEF Items
<1>5. r3 \in Items
  <2> HIDE DEF r2
  <2> QED
    BY <1>2, <1>4 DEF Items
<1>6. r4 \in Items
  <2> HIDE DEF r3
  <2> QED
    BY <1>2, <1>5 DEF Items
<1>7. Resent(it) = r4
  BY DEF Resent
<1>8. /\ Resent(it).trap = it.trap /\ Resent(it).granted = it.granted
      /\ Resent(it).attempts = it.attempts + 1
      /\ Resent(it).retries = it.retries - 1
  BY DEF Resent, Items
<1> QED
  BY <1>1, <1>6, <1>7, <1>8

\* One pass of handle_inform_queue() keeps the invariant.
LEMMA PassKeepsInv ==
  ASSUME QueueInv, NEW acked \in SUBSET queued, acked \subseteq confirmed,
         HandleInformQueue(queued \ acked, acked),
         acking' = 0, acking # 0 => acking \in acked \/ fate[acking] = "cancelled"
  PROVE  QueueInv'
<1> DEFINE rest == queued \ acked
           again == Retried(rest)
           over == Exhausted(rest)
<1>1. /\ item' = [id \in rest \ over |->
                    IF id \in again THEN Resent(item[id]) ELSE item[id]]
      /\ Transmit({requestID[item[id].trap] : id \in again})
      /\ fate' = [id \in Ids |-> IF id \in acked THEN "acked"
                                 ELSE IF id \in over THEN "expired" ELSE fate[id]]
      /\ UNCHANGED <<requestID, lastId, now, confirmed>>
  BY DEF HandleInformQueue
<1>2. /\ over \subseteq rest /\ again \subseteq rest /\ rest \subseteq queued
      /\ again \cap over = {}
      /\ \A id \in again : item[id].retries > 0
  BY DEF Retried, Exhausted
<1>3. queued' = rest \ over
  BY <1>1 DEF queued
<1>4. \A id \in queued : item[id] \in Items
  BY DEF QueueInv, TypeOK
<1>5. ASSUME NEW id \in again
      PROVE  /\ Resent(item[id]) \in Items
             /\ Resent(item[id]).trap = item[id].trap
             /\ Resent(item[id]).attempts + Resent(item[id]).retries
                  = item[id].attempts + item[id].retries
             /\ Resent(item[id]).granted = item[id].granted
  <2>1. id \in queued /\ item[id].retries > 0
    BY <1>2, <1>5
  <2>2. now \in Millis
    BY DEF QueueInv, TypeOK
  <2> DEFINE it == item[id]
  <2>3. it \in Items /\ it.retries > 0
    BY <1>4, <2>1
  <2> HIDE DEF it
  <2>4. /\ Resent(it) \in Items /\ Resent(it).trap = it.trap
        /\ Resent(it).attempts + Resent(it).retries = it.attempts + it.retries
        /\ Resent(it).granted = it.granted
    BY <2>2, <2>3, ResentItem
  <2> QED
    BY <2>4 DEF it
<1> HIDE DEF rest, again, over
<1>6. \A id \in queued' :
        /\ item'[id] \in Items
        /\ item'[id].trap = item[id].trap
        /\ item'[id].attempts + item'[id].retries = item[id].attempts + item[id].retries
        /\ item'[id].granted = item[id].granted
  BY <1>1, <1>2, <1>3, <1>4, <1>5
<1>7. /\ fate' \in [Ids -> Fates]
      /\ \A id \in Ids : fate'[id] = IF id \in acked THEN "acked"
                                     ELSE IF id \in over THEN "expired" ELSE fate[id]
  BY <1>1 DEF QueueInv, TypeOK, Fates
<1>8. queued \subseteq Ids /\ \A id \in Ids : id \in queued <=> fate[id] = "queued"
  BY DEF QueueInv, TypeOK, QueueHoldsOpenInforms
<1>9. onWire \subseteq onWire' /\ \A i \in onWire' : i \in Ids /\ i <= lastId
  <2>1. \A id \in again : requestID[item[id].trap] \in Ids /\ requestID[item[id].trap] <= lastId
    <3>1. TAKE id \in again
    <3>2. item[id].trap \in Traps /\ id \in queued
      BY <1>2, <1>4 DEF Items
    <3> QED
      BY <3>2, InformAssumption DEF QueueInv, TypeOK, IdsAreFresh, Ids
  <2> QED
    BY <1>1, <2>1 DEF Transmit, QueueInv, TypeOK, IdsAreFresh
<1>10. TypeOK'
  <2>1. item' \in [queued' -> Items]
    BY <1>1, <1>3, <1>6
  <2>2. queued' \subseteq Ids
    BY <1>2, <1>3, <1>8
  <2> QED
    BY <1>1, <1>7, <1>9, <2>1, <2>2, InformAssumption DEF QueueInv, TypeOK
<1>11. QueueHoldsOpenInforms'
  <2>1. \A id \in Ids : id \in queued' <=> fate'[id] = "queued"
    BY <1>2, <1>3, <1>7, <1>8 DEF rest
  <2>2. queued' \subseteq queued
    BY <1>2, <1>3
  <2>3. Cardinality(queued') <= MaxInflight
    BY <2>2, QueueSets, InformAssumption DEF QueueInv, QueueHoldsOpenInforms
  <2> QED
    BY <1>8, <2>1, <2>2, <2>3 DEF QueueHoldsOpenInforms
<1>12. BudgetIsExact'
  <2>1. \A id \in queued' : id \in queued
    BY <1>2, <1>3
  <2> QED
    BY <1>6, <2>1 DEF QueueInv, BudgetIsExact
<1>13. over \cap confirmed \subseteq {acking} /\ acked \subseteq queued
       /\ (acking # 0 => acking \notin over)
  <2>1. \A id \in over : id \in Ids /\ fate[id] = "queued" /\ id \notin acked
    BY <1>2, <1>8 DEF rest
  <2> QED
    BY <2>1 DEF QueueInv, AcksAreGenuine
<1>14. AcksAreGenuine'
  <2>1. confirmed' = confirmed /\ confirmed \subseteq onWire'
    BY <1>1, <1>9 DEF QueueInv, AcksAreGenuine
  <2>2. ASSUME NEW id \in Ids, fate'[id] = "acked" PROVE id \in confirmed
    BY <1>7, <2>2 DEF QueueInv, AcksAreGenuine
  <2>3. ASSUME NEW id \in Ids, id \in confirmed PROVE fate'[id] \in {"acked", "cancelled"}
    <3>1. CASE acking = id
      <4>1. id # 0 /\ id \notin over
        BY <1>13, <3>1 DEF Ids
      <4> QED
        BY <1>7, <3>1, <4>1
    <3>2. CASE acking # id
      <4>1. id \notin over /\ fate[id] \in {"acked", "cancelled"}
        BY <1>13, <2>3, <3>2 DEF QueueInv, AcksAreGenuine
      <4> QED
        BY <1>7, <4>1
    <3> QED
      BY <3>1, <3>2
  <2> QED
    BY <2>1, <2>2, <2>3 DEF AcksAreGenuine
<1>15. IdsAreFresh'
  <2>1. \A id \in Ids : id > lastId' => fate'[id] = "none"
    <3>1. TAKE id \in Ids
    <3>2. HAVE id > lastId'
    <3>3. fate[id] = "none"
      BY <1>1, <3>2 DEF QueueInv, IdsAreFresh
    <3> QED
      BY <1>2, <1>7, <1>8, <3>3
  <2>2. \A id \in queued' : requestID'[item'[id].trap] # 0
    <3>1. \A id \in queued' : id \in queued
      BY <1>2, <1>3
    <3> QED
      BY <1>1, <1>6, <3>1 DEF QueueInv, IdsAreFresh
  <2> QED
    BY <1>1, <1>9, <2>1, <2>2 DEF QueueInv, IdsAreFresh
<1>16. AckingIsOpen'
  BY DEF AckingIsOpen
<1> QED
  BY <1>10, <1>11, <1>12, <1>14, <1>15, <1>16 DEF QueueInv

\* Every step keeps the invariant.
LEMMA InvIsInductive == QueueInv /\ [Next]_vars => QueueInv'
<1> SUFFICES ASSUME QueueInv, [Next]_vars
             PROVE  QueueInv'
  OBVIOUS
<1> USE DEF Next
<1>1. ASSUME NEW t \in Traps, SendBuildFails(t) PROVE QueueInv'
  <2>1. /\ NewIds(t, 1)
        /\ UNCHANGED <<item, now, onWire, acking, confirmed, fate>>
    BY <1>1 DEF SendBuildFails
  <2>2. item' = Keep(queued) /\ Refate({}, queued \ queued)
    BY <2>1 DEF Keep, Restrict, Refate, QueueInv, TypeOK, queued
  <2>3. \A id \in queued : requestID'[item[id].trap] # 0
    <3>1. \A id \in queued : item[id].trap \in Traps /\ requestID[item[id].trap] # 0
      BY DEF QueueInv, TypeOK, Items, IdsAreFresh
    <3>2. lastId \in Nat
      BY DEF QueueInv, TypeOK
    <3> QED
      BY <2>1, <3>1, <3>2, FreshIds
  <2> QED
    BY <2>1, <2>2, <2>3, FreshIds, CancellingKeepsInv DEF QueueInv, TypeOK
<1>2. ASSUME NEW t \in Traps, NEW replace \in ReplaceChoices,
             SendPlainTrap(t, replace) \/ SendInformDropped(t, replace)
      PROVE  QueueInv'
  <2> DEFINE kept == Kept(t, replace)
  <2>1. PICK n \in {1, 2} : NewIds(t, n)
    BY <1>2 DEF SendPlainTrap, SendInformDropped
  <2>2. /\ item' = Keep(kept)
        /\ Refate({}, queued \ kept)
        /\ UNCHANGED <<now, onWire, acking, confirmed>>
    BY <1>2 DEF SendPlainTrap, SendInformDropped
  <2>3. kept \subseteq queued
    BY DEF Kept
  <2>4. \A id \in kept : requestID'[item[id].trap] # 0
    <3>1. \A id \in kept : item[id].trap \in Traps /\ requestID[item[id].trap] # 0
      BY <2>3 DEF QueueInv, TypeOK, Items, IdsAreFresh
    <3>2. lastId \in Nat
      BY DEF QueueInv, TypeOK
    <3> QED
      BY <2>1, <3>1, <3>2, FreshIds
  <2>5. lastId <= lastId'
    BY <2>1, FreshIds DEF QueueInv, TypeOK
  <2> HIDE DEF kept
  <2> QED
    BY <2>1, <2>2, <2>3, <2>4, <2>5, FreshIds, CancellingKeepsInv
<1>3. ASSUME NEW t \in Traps, NEW replace \in ReplaceChoices,
             NEW retries \in Retries, NEW delay \in Delays,
             SendInform(t, replace, retries, delay)
      PROVE  QueueInv'
  BY <1>3, SendInformKeepsInv
<1>4. ASSUME NEW t \in Traps, MarkTrapDeleted(t) PROVE QueueInv'
  <2> DEFINE kept == queued \ OfTrap(t)
  <2>1. /\ item' = Keep(kept)
        /\ Refate({}, queued \ kept)
        /\ UNCHANGED <<requestID, lastId, now, onWire, acking, confirmed>>
    <3>1. queued \ kept = OfTrap(t)
      BY DEF OfTrap
    <3> QED
      BY <1>4, <3>1 DEF MarkTrapDeleted
  <2> HIDE DEF kept
  <2>2. kept \subseteq queued
    BY DEF kept
  <2>3. \A id \in kept : requestID'[item[id].trap] # 0
    BY <2>1, <2>2 DEF QueueInv, IdsAreFresh
  <2> QED
    BY <2>1, <2>2, <2>3, CancellingKeepsInv DEF QueueInv, TypeOK, IdsAreFresh
<1>5. CASE LoopQuiet
  <2>1. queued \ {} = queued
    OBVIOUS
  <2>2. HandleInformQueue(queued \ {}, {}) /\ acking = 0 /\ acking' = 0
    BY <1>5, <2>1 DEF LoopQuiet
  <2> QED
    BY <2>2, PassKeepsInv
<1>6. ASSUME NEW id \in Ids, LoopResponse(id) PROVE QueueInv'
  <2>1. /\ id \in onWire /\ id \in queued
        /\ acking' = id /\ confirmed' = confirmed \cup {id}
        /\ UNCHANGED <<requestID, item, lastId, now, onWire, fate>>
        /\ acking = 0 /\ id # 0
    BY <1>6 DEF LoopResponse, Pending, Ids
  <2>2. fate[id] = "queued" /\ queued' = queued
    BY <2>1 DEF QueueInv, QueueHoldsOpenInforms, queued
  <2>3. TypeOK'
    BY <2>1, <2>2 DEF QueueInv, TypeOK, Ids
  <2>4. AcksAreGenuine' /\ AckingIsOpen'
    BY <2>1, <2>2 DEF QueueInv, AcksAreGenuine, AckingIsOpen, Ids
  <2>5. QueueHoldsOpenInforms' /\ BudgetIsExact' /\ IdsAreFresh'
    BY <2>1, <2>2 DEF QueueInv, QueueHoldsOpenInforms, BudgetIsExact, IdsAreFresh
  <2> QED
    BY <2>3, <2>4, <2>5 DEF QueueInv
<1>7. CASE LoopAcknowledge
  <2> DEFINE acked == queued \cap {acking}
  <2>1. /\ acking # 0 /\ acking' = 0
        /\ HandleInformQueue(queued \ acked, acked)
    <3>1. queued \ {acking} = queued \ acked
      OBVIOUS
    <3> QED
      BY <1>7, <3>1 DEF LoopAcknowledge
  <2>2. acking \in confirmed /\ acking \in Ids /\ fate[acking] \in {"queued", "cancelled"}
    BY <2>1 DEF QueueInv, AckingIsOpen, TypeOK, Ids
  <2>3. acked \subseteq confirmed /\ (acking \in acked \/ fate[acking] = "cancelled")
    BY <2>2 DEF QueueInv, QueueHoldsOpenInforms
  <2> HIDE DEF acked
  <2>4. acked \in SUBSET queued
    BY DEF acked
  <2> QED
    BY <2>1, <2>3, <2>4, PassKeepsInv
<1>8. CASE Tick
  <2>1. /\ \A id \in queued : item[id].age < Wrap - 1
        /\ now' = (now + 1) % Wrap
        /\ item' = [id \in queued |-> [item[id] EXCEPT !.age = @ + 1]]
        /\ UNCHANGED <<requestID, lastId, onWire, acking, confirmed, fate>>
    BY <1>8 DEF Tick
  <2>2. queued' = queued
    BY <2>1 DEF queued
  <2>3. ASSUME NEW id \in queued
        PROVE  /\ item'[id] \in Items /\ item'[id].trap = item[id].trap
               /\ item'[id].attempts + item'[id].retries
                    = item[id].attempts + item[id].retries
               /\ item'[id].granted = item[id].granted
    <3>1. item[id] \in Items /\ item'[id] = [item[id] EXCEPT !.age = @ + 1]
      BY <2>1 DEF QueueInv, TypeOK
    <3>2. item[id].age + 1 \in Millis
      BY <2>1, <3>1, InformAssumption DEF Items, Millis
    <3> QED
      BY <3>1, <3>2 DEF Items
  <2>4. now' \in Millis
    BY <2>1, InformAssumption DEF QueueInv, TypeOK, Millis
  <2>5. TypeOK'
    BY <2>1, <2>2, <2>3, <2>4 DEF QueueInv, TypeOK
  <2>6. QueueHoldsOpenInforms' /\ BudgetIsExact' /\ IdsAreFresh'
    BY <2>1, <2>2, <2>3 DEF QueueInv, QueueHoldsOpenInforms, BudgetIsExact, IdsAreFresh
  <2>7. AcksAreGenuine' /\ AckingIsOpen'
    BY <2>1 DEF QueueInv, AcksAreGenuine, AckingIsOpen
  <2> QED
    BY <2>5, <2>6, <2>7 DEF QueueInv
<1>9. CASE UNCHANGED vars
  BY <1>9 DEF vars, QueueInv, TypeOK, QueueHoldsOpenInforms, BudgetIsExact,
              AcksAreGenuine, IdsAreFresh, AckingIsOpen, queued
<1> QED
  BY <1>1, <1>2, <1>3, <1>4, <1>5, <1>6, <1>7, <1>8, <1>9 DEF SendTrapTo

LEMMA InitEstablishesInv == Init => QueueInv
<1> SUFFICES ASSUME Init PROVE QueueInv
  OBVIOUS
<1>1. queued = {} /\ Cardinality(queued) = 0
  BY FS_EmptySet DEF Init, queued
<1>2. item \in [{} -> Items]
  BY DEF Init
<1> QED
  BY <1>1, <1>2, InformAssumption
  DEF Init, QueueInv, TypeOK, QueueHoldsOpenInforms, BudgetIsExact, AcksAreGenuine,
      IdsAreFresh, AckingIsOpen, Ids, Millis, Fates

LEMMA QueueInvHolds == Spec => []QueueInv
<1> QED
  BY InitEstablishesInv, InvIsInductive, PTL DEF Spec

\* All the state stays in its type, whatever the manager answers.
THEOREM QueueTypeCorrect == Spec => []TypeOK
<1>1. QueueInv => TypeOK
  BY DEF QueueInv
<1> QED
  BY <1>1, QueueInvHolds, PTL

\* The queue never outgrows informList[] and holds exactly the open informs.
THEOREM QueueIsOpenInforms == Spec => []QueueHoldsOpenInforms
<1>1. QueueInv => QueueHoldsOpenInforms
  BY DEF QueueInv
<1> QED
  BY <1>1, QueueInvHolds, PTL

\* No attempt asked for is lost, and none is added.
THEOREM RetryBudgetKept == Spec => []BudgetIsExact
<1>1. QueueInv => BudgetIsExact
  BY DEF QueueInv
<1> QED
  BY <1>1, QueueInvHolds, PTL

\* No phantom confirmations: an inform whose callback ran was sent, and is
\* never given up afterwards.
THEOREM NoPhantomAcks == Spec => []AcksAreGenuine
<1>1. QueueInv => AcksAreGenuine
  BY DEF QueueInv
<1> QED
  BY <1>1, QueueInvHolds, PTL

-----------------------------------------------------------------------------
(* The unsigned clock.                                                      *)

\* Unsigned subtraction and increment of readings of millis().
LEMMA ClockArithmetic ==
  ASSUME NEW a \in Millis, NEW b \in Millis
  PROVE  /\ (a - b) % Wrap = IF a >= b THEN a - b ELSE a - b + Wrap
         /\ (a + 1) % Wrap = IF a + 1 = Wrap THEN 0 ELSE a + 1
  BY InformAssumption DEF Millis

\* The wrapped clock measures the real age of every queued inform, as long as
\* loop() polls once per wrap period.
THEOREM ElapsedIsRealAge == Spec => []ElapsedSurvivesWrap
<1>1. Init => ElapsedSurvivesWrap
  BY DEF Init, ElapsedSurvivesWrap, queued
<1>2. QueueInv /\ ElapsedSurvivesWrap /\ [Next]_vars => ElapsedSurvivesWrap'
  <2> SUFFICES ASSUME QueueInv, ElapsedSurvivesWrap, [Next]_vars
               PROVE  ElapsedSurvivesWrap'
    OBVIOUS
  <2>1. \A id \in queued : item[id] \in Items
    BY DEF QueueInv, TypeOK
  <2>2. now \in Millis /\ 0 % Wrap = 0
    BY InformAssumption DEF QueueInv, TypeOK
  <2>3. CASE Tick
    <3>1. /\ \A id \in queued : item[id].age < Wrap - 1
          /\ now' = (now + 1) % Wrap
          /\ item' = [id \in queued |-> [item[id] EXCEPT !.age = @ + 1]]
      BY <2>3 DEF Tick
    <3>2. queued' = queued
      BY <3>1 DEF queued
    <3>3. ASSUME NEW id \in queued
          PROVE  (now' - item'[id].lastSent) % Wrap = item'[id].age
      <4> DEFINE s == item[id].lastSent
                 a == item[id].age
      <4>1. /\ item'[id].lastSent = s /\ item'[id].age = a + 1
            /\ s \in Millis /\ a \in Millis
        BY <2>1, <3>1 DEF Items
      <4>2. (now - s) % Wrap = a /\ a < Wrap - 1
        BY <3>1 DEF ElapsedSurvivesWrap
      <4> HIDE DEF s, a
      <4>3. a = IF now >= s THEN now - s ELSE now - s + Wrap
        BY <2>2, <4>1, <4>2, ClockArithmetic
      <4>4. now' = (IF now + 1 = Wrap THEN 0 ELSE now + 1) /\ now' \in Millis
        BY <2>2, <3>1, ClockArithmetic, InformAssumption DEF Millis
      <4>5. (now' - s) % Wrap = IF now' >= s THEN now' - s ELSE now' - s + Wrap
        BY <4>1, <4>4, ClockArithmetic
      <4>6. (now' - s) % Wrap = a + 1
        BY <2>2, <4>1, <4>2, <4>3, <4>4, <4>5, InformAssumption DEF Millis
      <4> QED
        BY <4>1, <4>6
    <3> QED
      BY <3>2, <3>3 DEF ElapsedSurvivesWrap
  <2>4. ASSUME NEW acked \in SUBSET queued, HandleInformQueue(queued \ acked, acked)
        PROVE  ElapsedSurvivesWrap'
    <3> DEFINE rest == queued \ acked
    <3>1. /\ item' = [id \in rest \ Exhausted(rest) |->
                        IF id \in Retried(rest) THEN Resent(item[id]) ELSE item[id]]
          /\ now' = now
      BY <2>4 DEF HandleInformQueue
    <3>2. queued' \subseteq queued
      BY <3>1 DEF queued
    <3>3. ASSUME NEW id \in queued'
          PROVE  (now' - item'[id].lastSent) % Wrap = item'[id].age
      <4>1. id \in queued /\ item[id] \in Items
        BY <2>1, <3>2
      <4>2. CASE id \in Retried(rest)
        <5>1. item'[id] = Resent(item[id])
          BY <3>1, <4>2 DEF queued
        <5>2. item'[id].lastSent = now /\ item'[id].age = 0
          BY <4>1, <5>1 DEF Resent, Items
        <5>3. now - now = 0
          BY <2>2 DEF Millis
        <5> QED
          BY <2>2, <3>1, <5>2, <5>3
      <4>3. CASE id \notin Retried(rest)
        <5>1. item'[id] = item[id]
          BY <3>1, <4>3 DEF queued
        <5> QED
          BY <3>1, <4>1, <5>1 DEF ElapsedSurvivesWrap
      <4> QED
        BY <4>2, <4>3
    <3> QED
      BY <3>3 DEF ElapsedSurvivesWrap
  <2>5. ASSUME NEW kept \in SUBSET queued, item' = Keep(kept), now' = now
        PROVE  ElapsedSurvivesWrap'
    <3>1. queued' = kept /\ \A id \in kept : item'[id] = item[id]
      BY <2>5 DEF Keep, Restrict, queued
    <3> QED
      BY <2>5, <3>1 DEF ElapsedSurvivesWrap
  <2>6. ASSUME NEW t \in Traps, NEW replace \in ReplaceChoices,
               NEW retries \in Retries, NEW delay \in Delays,
               SendInform(t, replace, retries, delay)
        PROVE  ElapsedSurvivesWrap'
    <3> DEFINE kept == Kept(t, replace)
    <3>1. PICK new : /\ new.lastSent = now /\ new.age = 0
                     /\ item' = [i \in kept \cup {lastId + 1} |->
                                   IF i = lastId + 1 THEN new ELSE item[i]]
                     /\ now' = now
      BY <2>6 DEF SendInform
    <3>2. kept \subseteq queued /\ queued' = kept \cup {lastId + 1}
      BY <3>1 DEF Kept, queued
    <3>3. now - now = 0
      BY <2>2 DEF Millis
    <3> HIDE DEF kept
    <3>4. ASSUME NEW id \in queued'
          PROVE  (now' - item'[id].lastSent) % Wrap = item'[id].age
      <4>1. CASE id = lastId + 1
        <5>1. item'[id] = new
          BY <3>1, <3>2, <4>1
        <5> QED
          BY <2>2, <3>1, <3>3, <5>1
      <4>2. CASE id # lastId + 1
        <5>1. id \in queued /\ item'[id] = item[id]
          BY <3>1, <3>2, <4>2
        <5> QED
          BY <3>1, <5>1 DEF ElapsedSurvivesWrap
      <4> QED
        BY <4>1, <4>2
    <3> QED
      BY <3>4 DEF ElapsedSurvivesWrap
  <2>7. CASE UNCHANGED <<item, now>>
    BY <2>7 DEF ElapsedSurvivesWrap, queued
  <2>8. ASSUME NEW t \in Traps, NEW replace \in ReplaceChoices,
               SendPlainTrap(t, replace) \/ SendInformDropped(t, replace)
        PROVE  ElapsedSurvivesWrap'
    <3>1. item' = Keep(Kept(t, replace)) /\ now' = now
      BY <2>8 DEF SendPlainTrap, SendInformDropped
    <3> QED
      BY <2>5, <3>1 DEF Kept
  <2>9. ASSUME NEW t \in Traps, MarkTrapDeleted(t) PROVE ElapsedSurvivesWrap'
    BY <2>5, <2>9 DEF MarkTrapDeleted
  <2>10. CASE LoopQuiet
    <3>1. queued \ {} = queued
      OBVIOUS
    <3> QED
      BY <2>4, <2>10, <3>1 DEF LoopQuiet
  <2>11. CASE LoopAcknowledge
    <3>1. queued \ {acking} = queued \ (queued \cap {acking})
      OBVIOUS
    <3> QED
      BY <2>4, <2>11, <3>1 DEF LoopAcknowledge
  <2>12. UNCHANGED vars \/ (\E t \in Traps : SendBuildFails(t))
           \/ (\E id \in Ids : LoopResponse(id)) => UNCHANGED <<item, now>>
    BY DEF vars, SendBuildFails, LoopResponse
  <2> QED
    BY <2>3, <2>6, <2>7, <2>8, <2>9, <2>10, <2>11, <2>12 DEF Next, SendTrapTo
<1> QED
  BY <1>1, <1>2, QueueInvHolds, PTL DEF Spec


\* An inform is sent again or given up only after its whole delay, and given up
\* only when every send asked for has been made.
THEOREM NoEarlyRetry == Spec => GivesUpOnlyAfterLastWait
<1> DEFINE A == \A id \in queued :
                  /\ fate'[id] = "expired" => /\ item[id].attempts = item[id].granted
                                              /\ item[id].age > item[id].delay
                  /\ id \in queued' /\ item'[id].attempts # item[id].attempts
                       => item[id].age > item[id].delay
<1>1. QueueInv /\ ElapsedSurvivesWrap /\ [Next]_vars => [A]_vars
  <2> SUFFICES ASSUME QueueInv, ElapsedSurvivesWrap, Next
               PROVE  A
    BY DEF vars
  <2>1. \A id \in queued : id \in Ids /\ item[id] \in Items /\ fate[id] = "queued"
    BY DEF QueueInv, TypeOK, QueueHoldsOpenInforms
  <2>2. ASSUME \A id \in queued : fate'[id] # "expired",
               \A id \in queued \cap queued' : item'[id].attempts = item[id].attempts
        PROVE  A
    BY <2>2
  <2>3. ASSUME NEW acked \in SUBSET queued, HandleInformQueue(queued \ acked, acked)
        PROVE  A
    <3> DEFINE rest == queued \ acked
    <3>1. /\ item' = [id \in rest \ Exhausted(rest) |->
                        IF id \in Retried(rest) THEN Resent(item[id]) ELSE item[id]]
          /\ fate' = [id \in Ids |-> IF id \in acked THEN "acked"
                                     ELSE IF id \in Exhausted(rest) THEN "expired"
                                     ELSE fate[id]]
      BY <2>3 DEF HandleInformQueue
    <3>2. ASSUME NEW id \in queued, id \in Retried(rest) \cup Exhausted(rest)
          PROVE  item[id].age > item[id].delay
      BY <3>2 DEF Retried, Exhausted, Due, ElapsedSurvivesWrap
    <3>3. ASSUME NEW id \in queued, fate'[id] = "expired"
          PROVE  id \in Exhausted(rest) /\ item[id].attempts = item[id].granted
      <4>1. id \in Exhausted(rest)
        BY <2>1, <3>1, <3>3
      <4>2. item[id].retries = 0 /\ item[id].attempts \in Nat
        BY <2>1, <4>1 DEF Exhausted, Items
      <4> QED
        BY <4>1, <4>2 DEF QueueInv, BudgetIsExact
    <3>4. ASSUME NEW id \in queued, id \in queued', item'[id].attempts # item[id].attempts
          PROVE  id \in Retried(rest)
      BY <3>1, <3>4 DEF queued
    <3> QED
      BY <3>2, <3>3, <3>4
  <2>4. ASSUME NEW kept \in SUBSET queued, item' = Keep(kept), Refate({}, queued \ kept)
        PROVE  A
    BY <2>1, <2>2, <2>4, Cancelling DEF queued
  <2>5. ASSUME NEW t \in Traps, NEW replace \in ReplaceChoices,
               NEW retries \in Retries, NEW delay \in Delays,
               SendInform(t, replace, retries, delay)
        PROVE  A
    <3> DEFINE kept == Kept(t, replace)
               id == lastId + 1
    <3>1. /\ \E new : item' = [i \in kept \cup {id} |-> IF i = id THEN new ELSE item[i]]
          /\ Refate({id}, queued \ kept)
          /\ NewIds(t, 1)
      BY <2>5 DEF SendInform
    <3>2. id \notin queued
      BY <3>1, FreshIds
    <3>3. \A i \in queued : fate'[i] # "expired"
      BY <2>1, <3>1 DEF Refate
    <3>4. \A i \in queued \cap queued' : item'[i] = item[i]
      BY <3>1, <3>2 DEF queued
    <3> QED
      BY <2>2, <3>3, <3>4
  <2>6. CASE UNCHANGED <<item, fate>>
    BY <2>1, <2>2, <2>6
  <2>7. ASSUME NEW t \in Traps, NEW replace \in ReplaceChoices,
               SendPlainTrap(t, replace) \/ SendInformDropped(t, replace)
        PROVE  A
    <3>1. /\ item' = Keep(Kept(t, replace))
          /\ Refate({}, queued \ Kept(t, replace))
      BY <2>7 DEF SendPlainTrap, SendInformDropped
    <3>2. Kept(t, replace) \in SUBSET queued
      BY DEF Kept
    <3> HIDE DEF A
    <3> QED
      BY <2>4, <3>1, <3>2
  <2>8. ASSUME NEW t \in Traps, MarkTrapDeleted(t) PROVE A
    <3>1. item' = Keep(queued \ OfTrap(t)) /\ Refate({}, queued \ (queued \ OfTrap(t)))
      <4>1. queued \ (queued \ OfTrap(t)) = OfTrap(t)
        BY DEF OfTrap
      <4> QED
        BY <2>8, <4>1 DEF MarkTrapDeleted
    <3> HIDE DEF A
    <3> QED
      BY <2>4, <3>1
  <2>9. CASE Tick
    <3>1. /\ item' = [id \in queued |-> [item[id] EXCEPT !.age = @ + 1]]
          /\ fate' = fate
      BY <2>9 DEF Tick
    <3>2. \A id \in queued : item'[id].attempts = item[id].attempts
      BY <2>1, <3>1 DEF Items
    <3> HIDE DEF A
    <3> QED
      BY <2>1, <2>2, <3>1, <3>2
  <2>10. CASE LoopQuiet
    <3>1. queued \ {} = queued
      OBVIOUS
    <3> HIDE DEF A
    <3> QED
      BY <2>3, <2>10, <3>1 DEF LoopQuiet
  <2>11. CASE LoopAcknowledge
    <3>1. queued \ {acking} = queued \ (queued \cap {acking})
      OBVIOUS
    <3> HIDE DEF A
    <3> QED
      BY <2>3, <2>11, <3>1 DEF LoopAcknowledge
  <2>12. (\E t \in Traps : SendBuildFails(t)) \/ (\E id \in Ids : LoopResponse(id))
            => UNCHANGED <<item, fate>>
    BY DEF SendBuildFails, LoopResponse
  <2> HIDE DEF A
  <2> QED
    BY <2>5, <2>6, <2>7, <2>8, <2>9, <2>10, <2>11, <2>12 DEF Next, SendTrapTo
<1> QED
  BY <1>1, QueueInvHolds, ElapsedIsRealAge, PTL DEF Spec, GivesUpOnlyAfterLastWait

-----------------------------------------------------------------------------
(* Retries under the discipline the default arguments give.                 *)

\* Every send replaces the queued requests of its trap, and no build fails.
Disciplined == ReplaceChoices \subseteq {TRUE} /\ ~BuildMayFail

\* Under that discipline every retry carries the ID its answer is matched by.
THEOREM RetryIdsMatch == Disciplined /\ Spec => []RetryCarriesOwnId
<1>1. Init => RetryCarriesOwnId
  BY DEF Init, RetryCarriesOwnId, queued
<1>2. QueueInv /\ Disciplined /\ RetryCarriesOwnId /\ [Next]_vars => RetryCarriesOwnId'
  <2> SUFFICES ASSUME QueueInv, Disciplined, RetryCarriesOwnId, [Next]_vars
               PROVE  RetryCarriesOwnId'
    OBVIOUS
  <2>1. \A id \in queued : item[id] \in Items /\ item[id].trap \in Traps
    BY DEF QueueInv, TypeOK, Items
  <2>2. ASSUME NEW t \in Traps, NEW n \in {1, 2}, NewIds(t, n),
               NEW id \in queued, item[id].trap # t
        PROVE  requestID'[item[id].trap] = id
    BY <2>1, <2>2, FreshIds DEF RetryCarriesOwnId
  <2>3. ASSUME NEW t \in Traps, NEW replace \in ReplaceChoices
        PROVE  /\ Kept(t, replace) \subseteq queued
               /\ \A id \in Kept(t, replace) : item[id].trap # t
    BY DEF Kept, OfTrap, Disciplined
  <2>4. ASSUME NEW t \in Traps, NEW replace \in ReplaceChoices,
               SendPlainTrap(t, replace) \/ SendInformDropped(t, replace)
        PROVE  RetryCarriesOwnId'
    <3>1. /\ item' = Keep(Kept(t, replace))
          /\ \E n \in {1, 2} : NewIds(t, n)
      BY <2>4 DEF SendPlainTrap, SendInformDropped
    <3>2. /\ queued' = Kept(t, replace)
          /\ \A id \in queued' : item'[id] = item[id]
      BY <3>1 DEF Keep, Restrict, queued
    <3> QED
      BY <2>2, <2>3, <3>1, <3>2 DEF RetryCarriesOwnId
  <2>5. ASSUME NEW t \in Traps, NEW replace \in ReplaceChoices,
               NEW retries \in Retries, NEW delay \in Delays,
               SendInform(t, replace, retries, delay)
        PROVE  RetryCarriesOwnId'
    <3> DEFINE kept == Kept(t, replace)
               id == lastId + 1
    <3>1. PICK new : /\ item' = [i \in kept \cup {id} |-> IF i = id THEN new ELSE item[i]]
                     /\ new.trap = t
                     /\ NewIds(t, 1)
      BY <2>5 DEF SendInform
    <3>2. queued' = kept \cup {id} /\ item'[id] = new /\ requestID'[t] = id
      BY <3>1, FreshIds DEF queued
    <3>3. \A i \in kept : i # id /\ item'[i] = item[i] /\ requestID'[item[i].trap] = i
      BY <2>2, <2>3, <3>1, FreshIds
    <3> HIDE DEF kept, id
    <3> QED
      BY <3>1, <3>2, <3>3 DEF RetryCarriesOwnId
  <2>6. ASSUME NEW acked \in SUBSET queued, HandleInformQueue(queued \ acked, acked)
        PROVE  RetryCarriesOwnId'
    <3> DEFINE rest == queued \ acked
    <3>1. /\ item' = [id \in rest \ Exhausted(rest) |->
                        IF id \in Retried(rest) THEN Resent(item[id]) ELSE item[id]]
          /\ requestID' = requestID
      BY <2>6 DEF HandleInformQueue
    <3>2. \A id \in queued' : id \in queued /\ item'[id].trap = item[id].trap
      BY <2>1, <3>1 DEF Resent, Items, queued
    <3> QED
      BY <3>1, <3>2 DEF RetryCarriesOwnId
  <2>7. CASE Tick
    <3>1. /\ item' = [id \in queued |-> [item[id] EXCEPT !.age = @ + 1]]
          /\ requestID' = requestID
      BY <2>7 DEF Tick
    <3> QED
      BY <2>1, <3>1 DEF RetryCarriesOwnId, Items, queued
  <2>8. ASSUME NEW t \in Traps, MarkTrapDeleted(t) PROVE RetryCarriesOwnId'
    BY <2>8 DEF MarkTrapDeleted, Keep, Restrict, RetryCarriesOwnId, queued
  <2>9. CASE LoopQuiet
    <3>1. queued \ {} = queued
      OBVIOUS
    <3> QED
      BY <2>6, <2>9, <3>1 DEF LoopQuiet
  <2>10. CASE LoopAcknowledge
    <3>1. queued \ {acking} = queued \ (queued \cap {acking})
      OBVIOUS
    <3> QED
      BY <2>6, <2>10, <3>1 DEF LoopAcknowledge
  <2>11. UNCHANGED vars \/ (\E id \in Ids : LoopResponse(id)) => RetryCarriesOwnId'
    BY DEF vars, LoopResponse, RetryCarriesOwnId, queued
  <2>12. ~ \E t \in Traps : SendBuildFails(t)
    BY DEF SendBuildFails, Disciplined
  <2> QED
    BY <2>4, <2>5, <2>7, <2>8, <2>9, <2>10, <2>11, <2>12 DEF Next, SendTrapTo
<1>3. Disciplined => []Disciplined
  BY DEF Disciplined
<1> QED
  BY <1>1, <1>2, <1>3, QueueInvHolds, PTL DEF Spec

\* Under that discipline a retry re-emits the ID of the first send, as
\* SNMPTrap.h 133-135 asks; the run InformRetryId shows it needs the discipline.
THEOREM RetriesKeepTheirId == Disciplined /\ Spec => RetryReemitsOriginalId
<1>1. RetryCarriesOwnId =>
        [\A id \in queued :
           id \in queued' /\ item'[id].attempts > item[id].attempts
             => requestID[item[id].trap] = id]_vars
  BY DEF RetryCarriesOwnId
<1> QED
  BY <1>1, RetryIdsMatch, PTL DEF RetryReemitsOriginalId

-----------------------------------------------------------------------------
(* The queue implements InformService.  Under the discipline above an item   *)
(* of the queue is an open inform of the service, a pass over the queue is a *)
(* Poll, a send a Submit or a Cancel, and the rest a Cancel or a stutter.    *)

\* The instance has the definition of the library.
LEMMA SameCardinality == ASSUME NEW S PROVE Service!Cardinality(S) = Cardinality(S)
BY DEF Service!Cardinality, Cardinality

\* The open informs of the service are the queued items.
LEMMA OpenIsQueued ==
  ASSUME QueueInv
  PROVE  /\ Service!Open = queued
         /\ queued \subseteq Ids
         /\ Attempts \in [Ids -> Nat] /\ Granted \in [Ids -> Nat]
<1>1. queued = {id \in Ids : fate[id] = "queued"} /\ queued \subseteq Ids
  BY DEF QueueInv, QueueHoldsOpenInforms, TypeOK
<1>2. \A id \in queued : item[id].attempts \in Nat /\ item[id].granted \in Nat
  BY DEF QueueInv, TypeOK, Items
<1> QED
  BY <1>1, <1>2 DEF Service!Open, Attempts, Granted

\* Removing items of the queue cancels informs of the service.
LEMMA CancellingIsCancel ==
  ASSUME QueueInv, NEW kept \in SUBSET queued,
         item' = Keep(kept), Refate({}, queued \ kept), onWire' = onWire
  PROVE  Service!Cancel
<1> DEFINE gone == queued \ kept
<1>1. /\ queued' = kept
      /\ \A id \in kept : item'[id] = item[id]
  BY Cancelling DEF queued
<1>2. fate' = [id \in Ids |-> IF id \in gone THEN "cancelled" ELSE fate[id]]
  BY DEF Refate
<1>3. gone \in SUBSET Service!Open
  BY OpenIsQueued
<1>4. Attempts' = [id \in Ids |-> IF id \in gone THEN 0 ELSE Attempts[id]]
  BY <1>1 DEF Attempts
<1>5. Granted' = [id \in Ids |-> IF id \in gone THEN 0 ELSE Granted[id]]
  BY <1>1 DEF Granted
<1> HIDE DEF gone
<1> QED
  BY <1>2, <1>3, <1>4, <1>5 DEF Service!Cancel, Service!Forget

\* Queueing an inform submits it, under an ID the service has not seen.
LEMMA SendInformIsSubmit ==
  ASSUME QueueInv, NEW t \in Traps, NEW replace \in ReplaceChoices,
         NEW retries \in Retries, NEW delay \in Delays,
         SendInform(t, replace, retries, delay)
  PROVE  \E id \in Ids : Service!Submit(id)
<1>0. lastId + 1 \in Ids /\ lastId + 1 \notin queued /\ fate[lastId + 1] = "none"
  BY FreshIds DEF SendInform
<1> SUFFICES ASSUME NEW id \in Ids, id = lastId + 1
             PROVE  Service!Submit(id)
  BY <1>0
<1> DEFINE kept == Kept(t, replace)
           gone == queued \ kept
           budget == 1 + retries
<1>1. /\ NewIds(t, 1)
      /\ Cardinality(kept) < MaxInflight
      /\ Refate({id}, gone)
      /\ Transmit({id})
  BY DEF SendInform
<1>2. PICK new : /\ item' = [i \in kept \cup {id} |-> IF i = id THEN new ELSE item[i]]
                 /\ new.attempts = 1 /\ new.granted = budget
  BY DEF SendInform
<1>3. id \notin queued /\ fate[id] = "none"
  BY <1>0
<1>4. kept \subseteq queued /\ queued \subseteq Ids /\ Service!Open = queued
  BY OpenIsQueued DEF Kept
<1> HIDE DEF kept
<1>5. /\ queued' = kept \cup {id}
      /\ item'[id] = new
      /\ \A i \in kept : item'[i] = item[i]
  BY <1>2, <1>3, <1>4 DEF queued
<1>6. fate' = [i \in Ids |-> IF i = id THEN "queued"
                             ELSE IF i \in gone THEN "cancelled" ELSE fate[i]]
  BY <1>1 DEF Refate
<1>7. Attempts' = [[i \in Ids |-> IF i \in gone THEN 0 ELSE Attempts[i]] EXCEPT ![id] = 1]
  BY <1>2, <1>3, <1>4, <1>5 DEF Attempts
<1>8. Granted' = [[i \in Ids |-> IF i \in gone THEN 0 ELSE Granted[i]] EXCEPT ![id] = budget]
  BY <1>2, <1>3, <1>4, <1>5 DEF Granted
<1>9. onWire' \in {onWire, onWire \cup {id}}
  BY <1>1 DEF Transmit
<1>10. Service!Cardinality(queued \ gone) < MaxInflight
  <2>1. queued \ gone = kept
    BY <1>4
  <2> QED
    BY <1>1, <2>1, SameCardinality
<1>11. gone \in SUBSET queued /\ budget \in Budgets
  BY DEF Budgets
<1> HIDE DEF gone, budget
<1>12. Service!Submit(id)
  BY <1>3, <1>4, <1>6, <1>7, <1>8, <1>9, <1>10, <1>11
  DEF Service!Submit, Service!Forget
<1> QED
  BY <1>3, <1>12, Zenon

\* A pass over the queue polls: what it sends again carries its own ID.
LEMMA PassIsPoll ==
  ASSUME QueueInv, RetryCarriesOwnId, NEW acked \in SUBSET queued,
         acked \subseteq onWire, Cardinality(acked) <= 1,
         HandleInformQueue(queued \ acked, acked)
  PROVE  Service!Poll
<1> DEFINE rest == queued \ acked
           again == Retried(rest)
           over == Exhausted(rest)
<1>1. /\ item' = [id \in rest \ over |->
                    IF id \in again THEN Resent(item[id]) ELSE item[id]]
      /\ Transmit({requestID[item[id].trap] : id \in again})
      /\ fate' = [id \in Ids |-> IF id \in acked THEN "acked"
                                 ELSE IF id \in over THEN "expired" ELSE fate[id]]
  BY DEF HandleInformQueue
<1>2. /\ over \subseteq rest /\ again \subseteq rest \ over
      /\ \A id \in again : item[id].retries > 0
      /\ \A id \in over : item[id].retries = 0
  BY DEF Retried, Exhausted
<1>3. /\ queued' = rest \ over
      /\ queued \subseteq Ids /\ Service!Open = queued
  BY <1>1, OpenIsQueued DEF queued
<1>4. \A id \in queued : /\ item[id] \in Items
                         /\ item[id].attempts \in Nat /\ item[id].retries \in Nat
                         /\ item[id].attempts + item[id].retries = item[id].granted
  BY DEF QueueInv, TypeOK, BudgetIsExact, Items
<1> HIDE DEF rest, again, over
<1>5. \A id \in again : /\ id \in queued /\ id \in queued'
                        /\ item'[id].attempts = item[id].attempts + 1
                        /\ item'[id].granted = item[id].granted
  <2> SUFFICES ASSUME NEW id \in again
               PROVE  /\ id \in queued /\ id \in queued'
                      /\ item'[id].attempts = item[id].attempts + 1
                      /\ item'[id].granted = item[id].granted
    OBVIOUS
  <2>1. id \in queued /\ id \in queued' /\ item[id] \in Items
    BY <1>2, <1>3, <1>4 DEF rest
  <2>2. item'[id] = Resent(item[id])
    BY <1>1, <1>2
  <2> QED
    BY <2>1, <2>2 DEF Resent, Items
<1>6. \A id \in queued' : id \notin again => item'[id] = item[id]
  BY <1>1, <1>3
<1>7. /\ over \in SUBSET queued
      /\ again \in SUBSET (queued \ over)
      /\ acked \in SUBSET (queued \ (over \cup again))
  BY <1>2 DEF rest
<1>8. /\ \A id \in over : Attempts[id] = Granted[id]
      /\ \A id \in again : Attempts[id] < Granted[id]
  BY <1>2, <1>3, <1>4, <1>7 DEF Attempts, Granted
<1>9. Attempts' = [id \in Ids |-> IF id \in again THEN Attempts[id] + 1
                                  ELSE [i \in Ids |-> IF i \in acked \cup over
                                                      THEN 0 ELSE Attempts[i]][id]]
  <2> SUFFICES ASSUME NEW id \in Ids
               PROVE  Attempts'[id] = IF id \in again THEN Attempts[id] + 1
                                      ELSE IF id \in acked \cup over THEN 0 ELSE Attempts[id]
    BY DEF Attempts
  <2>1. CASE id \in again
    BY <1>5, <2>1 DEF Attempts
  <2>2. CASE id \notin again
    BY <1>3, <1>6, <1>7, <2>2 DEF Attempts, rest
  <2> QED
    BY <2>1, <2>2
<1>10. Granted' = [id \in Ids |-> IF id \in acked \cup over THEN 0 ELSE Granted[id]]
  <2> SUFFICES ASSUME NEW id \in Ids
               PROVE  Granted'[id] = IF id \in acked \cup over THEN 0 ELSE Granted[id]
    BY DEF Granted
  <2>1. CASE id \in again
    BY <1>5, <1>7, <2>1 DEF Granted
  <2>2. CASE id \notin again
    BY <1>3, <1>6, <1>7, <2>2 DEF Granted, rest
  <2> QED
    BY <2>1, <2>2
<1>11. onWire \subseteq onWire' /\ onWire' \subseteq onWire \cup again
  <2>1. \A id \in again : requestID[item[id].trap] = id
    BY <1>5 DEF RetryCarriesOwnId
  <2>2. {requestID[item[id].trap] : id \in again} = again
    BY <2>1
  <2> QED
    BY <1>1, <2>2 DEF Transmit
<1>12. Service!Cardinality(acked) <= 1
  BY SameCardinality
<1> QED
  BY <1>1, <1>3, <1>7, <1>8, <1>9, <1>10, <1>11, <1>12
  DEF Service!Poll, Service!Forget

\* Every step of the queue is a step of the service or leaves it as it is.
LEMMA StepOfService ==
  ASSUME QueueInv, RetryCarriesOwnId, [Next]_vars
  PROVE  [Service!Next]_(Service!vars)
<1> DEFINE Same == UNCHANGED <<fate, Attempts, Granted, onWire>>
<1>1. Same => UNCHANGED Service!vars
  BY DEF Service!vars
<1>2. ASSUME UNCHANGED <<item, fate, onWire>> PROVE Same
  BY <1>2 DEF Attempts, Granted, queued
<1> HIDE DEF Same
<1>3. ASSUME NEW t \in Traps, NEW replace \in ReplaceChoices,
             SendPlainTrap(t, replace) \/ SendInformDropped(t, replace)
      PROVE  Service!Cancel
  <2>1. /\ item' = Keep(Kept(t, replace))
        /\ Refate({}, queued \ Kept(t, replace))
        /\ onWire' = onWire
    BY <1>3 DEF SendPlainTrap, SendInformDropped
  <2>2. Kept(t, replace) \in SUBSET queued
    BY DEF Kept
  <2> QED
    BY <2>1, <2>2, CancellingIsCancel
<1>4. ASSUME NEW t \in Traps, MarkTrapDeleted(t) PROVE Service!Cancel
  <2>1. queued \ (queued \ OfTrap(t)) = OfTrap(t)
    BY DEF OfTrap
  <2>2. /\ item' = Keep(queued \ OfTrap(t))
        /\ Refate({}, queued \ (queued \ OfTrap(t)))
        /\ onWire' = onWire
    BY <1>4, <2>1 DEF MarkTrapDeleted
  <2> QED
    BY <2>2, CancellingIsCancel
<1>5. ASSUME LoopQuiet PROVE Service!Poll
  <2>1. queued \ {} = queued /\ Cardinality({}) = 0 /\ {} \subseteq onWire
    BY FS_EmptySet
  <2>2. HandleInformQueue(queued \ {}, {}) /\ Cardinality({}) <= 1
    BY <1>5, <2>1 DEF LoopQuiet
  <2> QED
    BY <2>1, <2>2, PassIsPoll
<1>6. ASSUME LoopAcknowledge PROVE Service!Poll
  <2> DEFINE acked == queued \cap {acking}
  <2>1. queued \ {acking} = queued \ acked
    OBVIOUS
  <2>2. HandleInformQueue(queued \ acked, acked) /\ acking # 0
    BY <1>6, <2>1 DEF LoopAcknowledge
  <2>3. acked \subseteq onWire
    BY <2>2 DEF QueueInv, AckingIsOpen, AcksAreGenuine
  <2>4. Cardinality(acked) <= 1
    <3>1. acked = {} \/ acked = {acking}
      OBVIOUS
    <3> QED
      BY <3>1, FS_EmptySet, FS_Singleton
  <2> HIDE DEF acked
  <2>5. acked \in SUBSET queued
    BY DEF acked
  <2> QED
    BY <2>2, <2>3, <2>4, <2>5, PassIsPoll
<1>7. ASSUME NEW id \in Ids, LoopResponse(id) PROVE Same
  BY <1>2, <1>7 DEF LoopResponse
<1>8. ASSUME NEW t \in Traps, SendBuildFails(t) PROVE Same
  BY <1>2, <1>8 DEF SendBuildFails
<1>9. ASSUME Tick PROVE Same
  <2>1. /\ item' = [id \in queued |-> [item[id] EXCEPT !.age = @ + 1]]
        /\ UNCHANGED <<fate, onWire>>
    BY <1>9 DEF Tick
  <2>2. queued' = queued
    BY <2>1 DEF queued
  <2>3. \A id \in queued : /\ item'[id].attempts = item[id].attempts
                           /\ item'[id].granted = item[id].granted
    BY <2>1 DEF QueueInv, TypeOK, Items
  <2> QED
    BY <2>1, <2>2, <2>3 DEF Same, Attempts, Granted
<1>10. ASSUME UNCHANGED vars PROVE Same
  BY <1>2, <1>10 DEF vars
<1> QED
  BY <1>1, <1>3, <1>4, <1>5, <1>6, <1>7, <1>8, <1>9, <1>10, SendInformIsSubmit
  DEF Next, SendTrapTo, Service!Next

\* The inform queue keeps the promise of InformService: at most the sends the
\* sketch granted, each under its own request ID, and one end, acknowledged
\* only by an answer to what the network has carried.
THEOREM QueueImplementsService == Disciplined /\ Spec => ImplementsService
<1>1. Init => Service!Init
  BY DEF Init, Service!Init, Attempts, Granted, queued
<1>2. QueueInv /\ RetryCarriesOwnId /\ [Next]_vars => [Service!Next]_(Service!vars)
  BY StepOfService
<1> QED
  BY <1>1, <1>2, QueueInvHolds, RetryIdsMatch, PTL
  DEF Spec, ImplementsService, Service!Spec

-----------------------------------------------------------------------------
(* The loop around the queue, for any number of sockets.  Every step of the *)
(* agent is a step of the queue or leaves it alone, whatever the sockets    *)
(* do, so what is proved of the queue holds of the agent; and a datagram    *)
(* waits only in a socket that is bound and in reach of the scan.           *)

\* The inductive invariant: LoopTypeOK, and the queue's own.
LoopInv ==
  /\ QueueInv
  /\ LoopTypeOK
  /\ DOMAIN inbox = 1 .. MaxUdp

-----------------------------------------------------------------------------
(* The agent and its queue.                                                 *)

\* A step of the agent is one of the queue, or leaves the queue as it is.
LEMMA LoopStepsQueue == TypeOK /\ [LoopNext]_loopVars => [Next]_vars
<1> SUFFICES ASSUME TypeOK, [LoopNext]_loopVars PROVE [Next]_vars
  OBVIOUS
<1>1. CASE restartUDP \/ setUDP \/ stop \/ \E s \in bound : Arrive(s)
  <2>1. UNCHANGED vars
    BY <1>1 DEF restartUDP, setUDP, RestartFirst, stop, Arrive
  <2> QED
    BY <2>1
<1>2. CASE Elsewhere
  BY <1>2 DEF Elsewhere, Next
<1>3. CASE loop
  <2>1. ASSUME NEW s \in 1 .. udpCount, LoopServes(s) PROVE LoopQuiet
    BY <2>1 DEF LoopServes
  <2>2. ASSUME NEW s \in 1 .. udpCount, LoopRefuses(s) PROVE UNCHANGED vars
    BY <2>2 DEF LoopRefuses
  <2>3. ASSUME NEW s \in 1 .. udpCount, LoopAnswered(s)
        PROVE  \E id \in Ids : LoopResponse(id)
    <3>1. LoopResponse(inbox[s].id)
      BY <2>3 DEF LoopAnswered
    <3>2. PICK id : id = inbox[s].id
      OBVIOUS
    <3>3. LoopResponse(id) /\ id \in Ids
      BY <3>1, <3>2 DEF LoopResponse, Pending, TypeOK
    <3> QED
      BY <3>3
  <2> QED
    BY <1>3, <2>1, <2>2, <2>3 DEF loop, LoopNoPacket, Next
<1>4. CASE CallbackReturns
  BY <1>4 DEF CallbackReturns, Next
<1>5. CASE UNCHANGED loopVars
  BY <1>5 DEF loopVars
<1> QED
  BY <1>1, <1>2, <1>3, <1>4, <1>5 DEF LoopNext

\* What has reached the network stays there.
LEMMA WireGrows == [Next]_vars => onWire \subseteq onWire'
<1> SUFFICES ASSUME [Next]_vars PROVE onWire \subseteq onWire'
  OBVIOUS
<1>1. ASSUME NEW ids, Transmit(ids) PROVE onWire \subseteq onWire'
  BY <1>1 DEF Transmit
<1>2. LoopQuiet \/ LoopAcknowledge => onWire \subseteq onWire'
  BY <1>1 DEF LoopQuiet, LoopAcknowledge, HandleInformQueue
<1>3. ASSUME NEW t \in Traps, SendTrapTo(t) \/ MarkTrapDeleted(t)
      PROVE  onWire \subseteq onWire'
  BY <1>1, <1>3 DEF SendTrapTo, MarkTrapDeleted, SendBuildFails, SendPlainTrap,
                    SendInformDropped, SendInform
<1>4. UNCHANGED vars \/ Tick \/ (\E id \in Ids : LoopResponse(id))
        => onWire \subseteq onWire'
  BY DEF vars, Tick, LoopResponse
<1> QED
  BY <1>2, <1>3, <1>4 DEF Next

\* The agent keeps the invariant of its queue.
LEMMA LoopKeepsQueueInv == LoopSpec => []QueueInv
<1>1. LoopInit => QueueInv
  BY InitEstablishesInv DEF LoopInit
<1>2. QueueInv /\ [LoopNext]_loopVars => QueueInv'
  BY LoopStepsQueue, InvIsInductive DEF QueueInv
<1> QED
  BY <1>1, <1>2, PTL DEF LoopSpec

\* The agent runs its queue: every behaviour of the agent is one of the queue.
\* Serving a request, refusing a datagram, and stopping, restarting or adding a
\* socket take nothing from it.
THEOREM LoopRunsQueue == LoopSpec => Spec
<1>1. LoopInit => Init
  BY DEF LoopInit
<1>2. QueueInv /\ [LoopNext]_loopVars => [Next]_vars
  BY LoopStepsQueue DEF QueueInv
<1> QED
  BY <1>1, <1>2, LoopKeepsQueueInv, PTL DEF LoopSpec, Spec

-----------------------------------------------------------------------------
(* The sockets.                                                             *)

\* A step that empties or keeps each socket, or puts a datagram that a manager
\* can send into a bound one, keeps the sockets well typed.
LEMMA SocketsStayTyped ==
  ASSUME LoopInv, TypeOK', onWire \subseteq onWire',
         udpCount' \in 0 .. MaxUdp, bound' \subseteq 1 .. udpCount',
         DOMAIN inbox' = 1 .. MaxUdp,
         \A s \in 1 .. MaxUdp :
           \/ inbox'[s] = Nothing
           \/ inbox'[s] = inbox[s] /\ (s \in bound => s \in bound')
           \/ inbox'[s] \in Datagrams /\ s \in bound'
  PROVE  LoopTypeOK'
<1>1. Datagrams \subseteq Datagrams' /\ Nothing' = Nothing
  BY DEF Datagrams, Nothing
<1>2. ASSUME NEW s \in 1 .. MaxUdp
      PROVE  /\ inbox'[s] # Nothing => s \in bound'
             /\ inbox'[s] \in Datagrams' \cup {Nothing}
  <2>1. (inbox[s] # Nothing => s \in bound) /\ inbox[s] \in Datagrams \cup {Nothing}
    BY DEF LoopInv, LoopTypeOK
  <2> QED
    BY <1>1, <2>1
<1> QED
  BY <1>1, <1>2 DEF LoopTypeOK

\* Every step of the agent keeps the invariant.
LEMMA LoopInvIsInductive == LoopInv /\ [LoopNext]_loopVars => LoopInv'
<1> SUFFICES ASSUME LoopInv, [LoopNext]_loopVars PROVE LoopInv'
  OBVIOUS
<1>1. [Next]_vars
  BY LoopStepsQueue DEF LoopInv, QueueInv
<1>2. QueueInv' /\ TypeOK' /\ onWire \subseteq onWire'
  BY <1>1, InvIsInductive, WireGrows DEF LoopInv, QueueInv
<1>3. /\ udpCount \in 0 .. MaxUdp /\ MaxUdp \in Nat \ {0}
      /\ bound \subseteq 1 .. udpCount
      /\ DOMAIN inbox = 1 .. MaxUdp
  BY LoopAssumption DEF LoopInv, LoopTypeOK
<1> DEFINE Goal == LoopTypeOK' /\ DOMAIN inbox' = 1 .. MaxUdp
<1>4. ASSUME udpCount' \in 0 .. MaxUdp, bound' \subseteq 1 .. udpCount',
             inbox' = [s \in DOMAIN inbox |-> Nothing]
      PROVE  Goal
  <2>1. DOMAIN inbox' = 1 .. MaxUdp /\ \A s \in 1 .. MaxUdp : inbox'[s] = Nothing
    BY <1>3, <1>4
  <2> QED
    BY <1>2, <1>4, <2>1, SocketsStayTyped
<1>5. ASSUME restartUDP PROVE Goal
  <2>1. /\ udpCount' \in 0 .. MaxUdp /\ bound' \subseteq 1 .. udpCount'
        /\ inbox' = [s \in DOMAIN inbox |-> Nothing]
    BY <1>3, <1>5 DEF restartUDP, RestartFirst
  <2> QED
    BY <1>4, <2>1
<1>6. ASSUME setUDP PROVE Goal
  <2>1. /\ udpCount' \in 0 .. MaxUdp /\ bound' \subseteq 1 .. udpCount'
        /\ inbox' = [s \in DOMAIN inbox |-> Nothing]
    BY <1>3, <1>6 DEF setUDP, RestartFirst
  <2> QED
    BY <1>4, <2>1
<1>7. ASSUME stop PROVE Goal
  <2>1. /\ udpCount' \in 0 .. MaxUdp /\ bound' \subseteq 1 .. udpCount'
        /\ inbox' = [s \in DOMAIN inbox |-> Nothing]
    BY <1>3, <1>7 DEF stop
  <2> QED
    BY <1>4, <2>1
<1>8. ASSUME NEW s \in bound, Arrive(s) PROVE Goal
  <2>1. PICK d \in Datagrams : inbox' = [inbox EXCEPT ![s] = d]
    BY <1>8 DEF Arrive
  <2>2. udpCount' = udpCount /\ bound' = bound
    BY <1>8 DEF Arrive
  <2>3. /\ DOMAIN inbox' = 1 .. MaxUdp
        /\ \A q \in 1 .. MaxUdp : inbox'[q] = inbox[q] \/ (inbox'[q] = d /\ q = s)
    BY <1>3, <2>1
  <2> QED
    BY <1>2, <1>3, <2>2, <2>3, SocketsStayTyped
<1>9. ASSUME UNCHANGED sockets PROVE Goal
  <2>1. udpCount' = udpCount /\ bound' = bound /\ inbox' = inbox
    BY <1>9 DEF sockets
  <2> QED
    BY <1>2, <1>3, <2>1, SocketsStayTyped
<1>10. ASSUME NEW s \in 1 .. udpCount, Take(s) PROVE Goal
  <2>1. /\ inbox' = [inbox EXCEPT ![s] = Nothing]
        /\ udpCount' = udpCount /\ bound' = bound
    BY <1>10 DEF Take
  <2>2. /\ DOMAIN inbox' = 1 .. MaxUdp
        /\ \A q \in 1 .. MaxUdp : inbox'[q] = inbox[q] \/ inbox'[q] = Nothing
    BY <1>3, <2>1
  <2> QED
    BY <1>2, <1>3, <2>1, <2>2, SocketsStayTyped
<1> HIDE DEF Goal
<1>11. ASSUME Elsewhere \/ CallbackReturns \/ UNCHANGED loopVars PROVE Goal
  BY <1>9, <1>11 DEF Elsewhere, CallbackReturns, loopVars
<1>12. ASSUME loop PROVE Goal
  BY <1>9, <1>10, <1>12 DEF loop, LoopNoPacket, LoopServes, LoopAnswered, LoopRefuses
<1>13. Goal
  BY <1>5, <1>6, <1>7, <1>8, <1>11, <1>12 DEF LoopNext
<1> QED
  BY <1>2, <1>13 DEF LoopInv, Goal

\* A datagram waits only in a socket that is bound and that the scan over _udp[]
\* reaches, and a waiting answer is to a request that the network has carried.
THEOREM SocketsAreTyped == LoopSpec => []LoopTypeOK
<1>1. LoopInit => LoopInv
  <2> SUFFICES ASSUME LoopInit PROVE LoopInv
    OBVIOUS
  <2>1. QueueInv
    BY InitEstablishesInv DEF LoopInit
  <2>2. DOMAIN inbox = 1 .. MaxUdp /\ \A s \in 1 .. MaxUdp : inbox[s] = Nothing
    BY DEF LoopInit
  <2>3. udpCount \in 0 .. MaxUdp /\ bound \subseteq 1 .. udpCount
    BY LoopAssumption DEF LoopInit
  <2> QED
    BY <2>1, <2>2, <2>3 DEF LoopInv, LoopTypeOK, QueueInv
<1>2. LoopInv => LoopTypeOK
  BY DEF LoopInv
<1> QED
  BY <1>1, <1>2, LoopInvIsInductive, PTL DEF LoopSpec

-----------------------------------------------------------------------------
(* What the queue promises, the agent keeps.                                *)

\* In the agent too, whatever its sockets do, every retry carries the ID its
\* answer is matched by.
THEOREM LoopRetryIdsMatch == Disciplined /\ LoopSpec => []RetryCarriesOwnId
BY LoopRunsQueue, RetryIdsMatch, PTL

\* The agent with its sockets implements the service.
THEOREM LoopImplementsService == Disciplined /\ LoopSpec => ImplementsService
BY LoopRunsQueue, QueueImplementsService, PTL
=============================================================================
