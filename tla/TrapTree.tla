------------------------------ MODULE TrapTree ------------------------------
(***************************************************************************)
(* The object tree of one notification: how _build_pdu_envelope() and the  *)
(* fillers allocate it slot by slot, what a failed allocation leaves       *)
(* behind, how it is destroyed, and the stateless SNMPTrap::sendTo().      *)
(* Everything is an operator on a pool record of PoolOps and on the trap's *)
(* "packet" pointer.                                                       *)
(*                                                                         *)
(* A build is a script of allocations.  What differs between two objects   *)
(* of a tree is only what happens when their slot is missing: without a    *)
(* container ("node") the build fails, without a leaf it goes on.          *)
(***************************************************************************)
EXTENDS PoolOps, SequencesExt

\* A trap's packet pointer: NoTree (nullptr), or the root's slot, the slots of
\* the tree, and whether the tree is still there (ghost: FALSE once resetAll()
\* has freed the root's slot)
NoTree == [root |-> {}, nodes |-> {}, live |-> FALSE]

\* A trap: its SNMP version (1 or 2), its varbinds, whether it is an inform
Notifications == [version : {1, 2}, varbinds : Nat, inform : BOOLEAN]

-----------------------------------------------------------------------------
(* The script of a build.                                                   *)

Node(part) == [kind |-> "node", part |-> part]
Leaf(part) == [kind |-> "leaf", part |-> part]

\* an AsnPtr from getValueForCallback(), cloned into a leaf, then destroyed
ClonedValue(part) == <<Leaf("temp"), Leaf(part), [kind |-> "drop", part |-> "temp"]>>

\* root, version, community, then the PDU container
Envelope == <<Node("root"), Leaf("root"), Leaf("root"), Node("pdu")>>

\* _packet_build_fill_pdu(): request ID, error status, error index
FillPdu == <<Leaf("pdu"), Leaf("pdu"), Leaf("pdu")>>

\* _trap_build_fill_pdu(): trap OID, agent address, generic, specific, uptime
FillTrapPdu ==
  <<Leaf("pdu"), Leaf("pdu"), Leaf("pdu"), Leaf("pdu")>> \o ClonedValue("pdu")

\* the sysUpTime.0 and snmpTrapOID.0 varbinds of a v2c notification
MandatoryVarBinds ==
  <<Node("list"), Leaf("list")>> \o ClonedValue("list")
    \o <<Node("list"), Leaf("list"), Leaf("list")>>

\* the varbind of one callback the sketch added
CallbackVarBind == <<Node("list"), Leaf("list")>> \o ClonedValue("list")

\* everything before the sketch's own varbinds
Script(n) ==
  Envelope
    \o (IF n.version = 1 THEN FillTrapPdu ELSE FillPdu)
    \o <<Node("list")>>
    \o (IF n.version = 1 THEN << >> ELSE MandatoryVarBinds)

-----------------------------------------------------------------------------
(* Running the script.  A build in progress: the pool, the slots of each    *)
(* part (the temporary is one), "ok" while no container is missing, and "whole"     *)
(* while no leaf is.                                                        *)

\* asn_delete() of every slot in S
ReleaseAll(p, S) == FoldSet(LAMBDA s, q : Release(q, s), p, S)

\* nullptr: without a leaf the build goes on; without a container it ends, and
\* generateVarBindListRaw() destroys the list, nobody the PDU
Missing(b, step) ==
  IF step.kind = "leaf" THEN [b EXCEPT !.whole = FALSE]
  ELSE [b EXCEPT !.ok = FALSE, !.pool = ReleaseAll(@, b.list)]

BuildStep(b, step) ==
  CASE ~b.ok -> b
    [] b.ok /\ step.kind = "drop" ->
         [b EXCEPT !.pool = ReleaseAll(@, b.temp), !.temp = {}]
    [] b.ok /\ step.kind # "drop" ->
         IF CanAlloc(b.pool)
         THEN [b EXCEPT !.pool = Alloc(@), ![step.part] = @ \cup {FirstFree(b.pool)}]
         ELSE Missing([b EXCEPT !.pool = Alloc(@)], step)

NewBuild(p) ==
  [pool |-> p, root |-> {}, pdu |-> {}, list |-> {}, temp |-> {},
   ok |-> TRUE, whole |-> TRUE]

Run(b, script) == FoldLeft(BuildStep, b, script)

\* generateVarBindListRaw()'s loop over the callbacks
AddVarBinds(b, k) ==
  LET with[i \in 0 .. k] == IF i = 0 THEN b ELSE Run(with[i - 1], CallbackVarBind)
  IN  with[k]

\* the packet pointer after a build from pool p that ended as b
PacketOf(p, b) ==
  IF ~CanAlloc(p) THEN NoTree
  ELSE [root |-> {FirstFree(p)}, live |-> TRUE,
        nodes |-> IF b.ok THEN b.root \cup b.pdu \cup b.list ELSE b.root]

Built(p, b) == [pool |-> b.pool, tree |-> PacketOf(p, b), ok |-> b.ok, whole |-> b.whole]

\* _build_pdu_envelope(): the pool, the new packet pointer, and the verdict
Build(p, n) == Built(p, AddVarBinds(Run(NewBuild(p), Script(n)), n.varbinds))

-----------------------------------------------------------------------------
(* Destroying and sending.                                                  *)

\* asn_delete(packet): an unoccupied root slot ends it, else ~ComplexType()
\* destroys the children
Destroy(p, tree) ==
  IF tree.root \subseteq p.occupied
  THEN ReleaseAll(p, tree.nodes)
  ELSE ReleaseAll(p, tree.root)

\* what resetAll() does to a pointer kept across it
AfterReset(p, tree) == [tree EXCEPT !.live = @ /\ tree.root \subseteq ResetAll(p).occupied]

\* buildForSending(): the old packet is destroyed, then the new one built
BuildForSending(p, tree, n) == Build(Destroy(p, tree), n)

\* Mutant: the packet is destroyed but the pointer to it is kept.
ReleaseKeepsPointer(p, tree) == [pool |-> Destroy(p, tree), tree |-> tree]

\* releasePoolState(): the packet is destroyed and forgotten
ReleasePoolState(p, tree) == [pool |-> Destroy(p, tree), tree |-> NoTree]

\* sendTo() after its build: transmit if it succeeded, release all
Sent(b) ==
  [pool |-> ReleasePoolState(b.pool, b.tree).pool,
   tree |-> ReleasePoolState(b.pool, b.tree).tree,
   partial |-> b.ok /\ ~b.whole]

\* sendTo(): reset, rebuild, send
SendTo(p, tree, n) == Sent(BuildForSending(ResetAll(p), AfterReset(p, tree), n))
=============================================================================
