--------------------------- MODULE MCMessageParsers ---------------------------
(***************************************************************************)
(* TLC instance of MessageParsers: values at the edges of their widths,    *)
(* lengths at the edges of the length field, one message of each kind.     *)
(***************************************************************************)
EXTENDS MessageParsers

Small(n) == <<0, 0, 0, n>>

Row(tag, data) == [oid |-> <<43, 6, 1>>, value |-> [tag |-> tag, data |-> data]]

Message(version, pduType, vbs) ==
  [version |-> Small(version), community |-> <<112>>, pduType |-> pduType,
   requestID |-> <<127, 255, 0, 200>>, errorStatus |-> Small(0),
   errorIndex |-> <<255, 255, 255, 127>>, vbs |-> vbs]

\* 0, the ends of one, two, three and four bytes, and the signs around them
EdgeWords ==
  {Small(0), Small(127), Small(128), Small(255), <<0, 0, 1, 0>>,
   <<0, 0, 127, 255>>, <<0, 0, 128, 0>>, <<0, 128, 0, 0>>, <<0, 255, 255, 255>>,
   <<127, 255, 255, 255>>, <<128, 0, 0, 0>>, <<255, 255, 255, 255>>,
   <<255, 255, 255, 128>>, <<255, 255, 255, 127>>, <<255, 255, 127, 255>>,
   <<255, 127, 255, 255>>}

Octets(n) == [i \in 1 .. n |-> i % 251]

EdgeValues ==
  [tag : Words, data : EdgeWords] \cup
  [tag : {COUNTER64}, data : {w \o Small(9) : w \in EdgeWords}
                        \cup {Small(0) \o w : w \in EdgeWords}] \cup
  [tag : {OCTETS, OPAQUE}, data : {Octets(n) : n \in {0, 127, 128, 255, 256}}] \cup
  [tag : Nulls, data : {<<>>}] \cup
  {[tag |-> OID, data |-> <<43>> \o Octets(n)] : n \in {0, 32}}

\* a SET of two rows, a v1 GET, an answer to an inform, one row too many
Set == Message(1, SetRequestPDU, <<Row(INTEGER, Small(1)), Row(OCTETS, <<6>>)>>)
Get == Message(0, GetRequestPDU, <<Row(NULLTYPE, <<>>)>>)
Response == Message(1, GetResponsePDU, <<>>)
Long == Message(1, GetNextRequestPDU, [i \in 1 .. 3 |-> Row(NULLTYPE, <<>>)])

MCMessages ==
  {Set, Get, Response, Long} \cup
  {Message(1, SetRequestPDU, <<Row(v.tag, v.data)>>) : v \in EdgeValues} \cup
  {Message(0, type, <<>>) : type \in PDUs \ {TrapPDU}}

MCMaxFaults ==
  [m \in MCMessages |-> CASE m = Response -> 2
                          [] m \in {Set, Get} -> 1
                          [] OTHER -> 0]

MCBytes == {0, 1, 2, 4, 5, 6, 48, 64, 129, 130, 160, 164, 255}
=============================================================================
