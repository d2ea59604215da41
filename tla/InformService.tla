---------------------------- MODULE InformService ----------------------------
(***************************************************************************)
(* What the inform machinery promises a sketch, with no traps, clocks or   *)
(* queue layout: an accepted inform is sent at most "granted" times, each  *)
(* time under its own request ID, and ends exactly once: acknowledged by   *)
(* an answer to a request the network has carried, expired with its whole  *)
(* budget used, or cancelled by the sketch.  InformQueue implements it.    *)
(***************************************************************************)
EXTENDS Integers, FiniteSets

CONSTANTS Ids, MaxInflight, Budgets

VARIABLES
  fate,       \* fate[id] of the inform with this request ID
  attempts,   \* attempts[id]: sends made for an open inform, 0 for others
  granted,    \* granted[id]: sends allowed for an open inform, 0 for others
  onWire      \* request IDs that have reached the network

vars == <<fate, attempts, granted, onWire>>

Open == {id \in Ids : fate[id] = "queued"}

Init ==
  /\ fate = [id \in Ids |-> "none"]
  /\ attempts = [id \in Ids |-> 0]
  /\ granted = [id \in Ids |-> 0]
  /\ onWire = {}

\* the informs in "gone" are settled: their counts are forgotten
Forget(f, gone) == [id \in Ids |-> IF id \in gone THEN 0 ELSE f[id]]

\* A new inform; the sketch may have it replace earlier ones.
Submit(id) ==
  /\ fate[id] = "none"
  /\ \E gone \in SUBSET Open, budget \in Budgets :
       /\ Cardinality(Open \ gone) < MaxInflight
       /\ fate' = [i \in Ids |-> IF i = id THEN "queued"
                                 ELSE IF i \in gone THEN "cancelled" ELSE fate[i]]
       /\ attempts' = [Forget(attempts, gone) EXCEPT ![id] = 1]
       /\ granted' = [Forget(granted, gone) EXCEPT ![id] = budget]
  /\ onWire' \in {onWire, onWire \cup {id}}

Cancel ==
  \E gone \in SUBSET Open :
    /\ fate' = [i \in Ids |-> IF i \in gone THEN "cancelled" ELSE fate[i]]
    /\ attempts' = Forget(attempts, gone)
    /\ granted' = Forget(granted, gone)
    /\ UNCHANGED onWire

\* One poll: at most one answer, then some informs expire or are sent again.
Poll ==
  \E expired \in SUBSET Open : \E again \in SUBSET (Open \ expired) :
  \E acked \in SUBSET (Open \ (expired \cup again)) :
    /\ Cardinality(acked) <= 1
    /\ acked \subseteq onWire
    /\ \A id \in expired : attempts[id] = granted[id]
    /\ \A id \in again : attempts[id] < granted[id]
    /\ fate' = [id \in Ids |-> IF id \in acked THEN "acked"
                               ELSE IF id \in expired THEN "expired"
                               ELSE fate[id]]
    /\ attempts' = [id \in Ids |-> IF id \in again THEN attempts[id] + 1
                                   ELSE Forget(attempts, acked \cup expired)[id]]
    /\ granted' = Forget(granted, acked \cup expired)
    /\ onWire \subseteq onWire' /\ onWire' \subseteq onWire \cup again

Next == Cancel \/ Poll \/ \E id \in Ids : Submit(id)

Spec == Init /\ [][Next]_vars
=============================================================================
