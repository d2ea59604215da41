--------------------------- MODULE MCPduProcessing ---------------------------
(***************************************************************************)
(* Requests for PduProcessing: every PDU type, both versions, the three    *)
(* communities, and lists of one or two varbinds (and one too long) over   *)
(* OIDs that are registered, above a registered one, and neither.          *)
(***************************************************************************)
EXTENDS PduProcessing

CONSTANTS fixed, integer, string, badoid, forced, counter, opaque

MCArcs ==
  fixed :> <<1, 1>> @@ integer :> <<1, 2>> @@ string :> <<1, 300>> @@
  badoid :> <<2, 1>> @@ forced :> <<2, 2>> @@ counter :> <<2, 3>> @@ opaque :> <<2, 4>>

MCTable == <<fixed, integer, string, badoid, forced, counter, opaque>>

MCClass ==
  fixed :> "fixed" @@ integer :> "integer" @@ string :> "string" @@
  badoid :> "badoid" @@ forced :> "fixed" @@ counter :> "counter" @@
  opaque :> "opaque"

Oid(arcs) == EncodeOid(arcs)

\* what a manager asks for: the handlers, an ancestor of three, a gap
ReadOids ==
  {Data[fixed], Data[string], Data[badoid], Data[counter], Data[opaque], Oid(<<1>>), Oid(<<1, 7>>)}

Asked(oid, type, v, len, slot) ==
  [oid |-> oid, type |-> type, v |-> v, len |-> len, slot |-> slot]

Number(oid, type, v) == Asked(oid, type, v, 0, 0)

Ask(oid) == Number(oid, "NULL", 0)

ReadLists ==
  {<<Ask(a)>> : a \in ReadOids} \cup {<<Ask(a), Ask(b)>> : a \in ReadOids, b \in ReadOids}
    \cup {[i \in 1 .. MaxVarBinds + 1 |-> Ask(Data[fixed])]}

\* texts that fit, with a NUL inside, and too long; opaque data in full, short
\* (with the slot's rest in two versions) and too long; and values of other types
Writes ==
  {Number(Data[integer], "INTEGER", 1), Number(Data[integer], "INTEGER", 2),
   Asked(Data[string], "STRING", MaxLen - 1, MaxLen - 1, 0),
   Asked(Data[string], "STRING", 1, 2, 0),
   Asked(Data[string], "STRING", MaxLen, MaxLen, 0),
   Asked(Data[opaque], "OPAQUE", 1, DataLen, 0),
   Asked(Data[opaque], "OPAQUE", 1, DataLen - 1, 2),
   Asked(Data[opaque], "OPAQUE", 1, DataLen - 1, 3),
   Asked(Data[opaque], "OPAQUE", 1, DataLen + 1, 0),
   Number(Data[counter], "COUNTER32", 0), Number(Data[counter], "COUNTER32", 1),
   Asked(Data[integer], "STRING", 1, 1, 0),
   Number(Data[fixed], "INTEGER", 1), Number(Data[forced], "INTEGER", 1),
   Number(Oid(<<1, 7>>), "INTEGER", 1)}

WriteLists ==
  {<<a>> : a \in Writes} \cup {<<a, b>> : a \in Writes, b \in Writes}

\* a SET names a handler twice only if it is the integer and both are accepted:
\* a refusal, or a counter that has the value, lowers the flag raised before it
MayRepeat == {vb \in Writes : vb.oid = Data[integer] /\ vb.type = "INTEGER"}

PoliteWrites ==
  {vbs \in WriteLists :
     Len(vbs) = 2 => vbs[1].oid # vbs[2].oid \/ {vbs[1], vbs[2]} \subseteq MayRepeat}

Req(version, from, pdu, vbs, nonRepeaters, maxRepetitions) ==
  [version |-> version, community |-> from, pdu |-> pdu, vbs |-> vbs,
   nonRepeaters |-> nonRepeaters, maxRepetitions |-> maxRepetitions]

Reads ==
  {Req(v, readOnlyCommunity, pdu, vbs, 0, 0) :
     v \in {1, 2}, pdu \in {"Get", "GetNext"}, vbs \in ReadLists}
  \cup {Req(2, community, "GetBulk", vbs, n, r) :
     vbs \in ReadLists, n \in 0 .. 3, r \in {0, 1, 2, 4}}
  \cup {Req(1, community, "GetBulk", <<Ask(Data[fixed])>>, 0, 1),
        Req(2, community, "Other", <<Ask(Data[fixed])>>, 0, 0)}
  \cup {Req(2, "elsewhere", pdu, <<Ask(Data[fixed])>>, 0, 0) :
     pdu \in {"Get", "Set"}}

Sets(lists) ==
  {Req(v, community, "Set", vbs, 0, 0) : v \in {1, 2}, vbs \in lists}
  \cup {Req(2, readOnlyCommunity, "Set", <<w>>, 0, 0) : w \in Writes}

MCPolite == Reads \cup Sets(PoliteWrites)
=============================================================================
