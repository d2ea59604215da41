----------------------------- MODULE MCAgentTick -----------------------------
(***************************************************************************)
(* Fleets for AgentTick: a plain v1 trap and two v2c informs.  One fleet   *)
(* keeps to the reserve; in the other, one build misses a leaf and another *)
(* a container.                                                            *)
(***************************************************************************)
EXTENDS AgentTick

CONSTANTS v1trap, inform1, inform2

MCTraps == {v1trap, inform1, inform2}

Fleet(varbinds) ==
  [t \in MCTraps |->
     [version |-> IF t = v1trap THEN 1 ELSE 2,
      varbinds |-> varbinds[t],
      inform |-> t # v1trap]]

Modest == Fleet(v1trap :> Reserve @@ inform1 :> 0 @@ inform2 :> Reserve)
Greedy == Fleet(v1trap :> 0 @@ inform1 :> 4 @@ inform2 :> 5)

MCFleets == {Modest, Greedy}

\* defs.h: the pool a build derives from its caps, with traps compiled in
SNMP_TRAP_TREE_SLOTS == 16 + 3 * Reserve
SNMP_WORST_TICK_TRANSIENTS ==
  IF SNMP_TRAP_TREE_SLOTS > 2 * MaxVarBinds
  THEN SNMP_TRAP_TREE_SLOTS ELSE 2 * MaxVarBinds
SNMP_POOL_IDLE_MARGIN == 4
SNMP_POOL_ASN_OBJECTS ==
  SNMP_WORST_TICK_TRANSIENTS + SNMP_POOL_IDLE_MARGIN + Handlers
=============================================================================
