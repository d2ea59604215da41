---------------------------- MODULE MessageParsers ----------------------------
(***************************************************************************)
(* The two decoders of a received packet: the walk over views that the     *)
(* in-place request path uses (src/src/BERView.cpp, the value pass of      *)
(* src/src/SNMPZeroCopy.cpp) and the tree of containers of the classic     *)
(* path (ComplexType::fromBuffer, src/src/SNMPPacket.cpp).  A manager      *)
(* sends a message in one of the encodings BER allows, and the datagram    *)
(* arrives whole, cut off, with bytes after its end, or with bytes of it   *)
(* replaced.                                                               *)
(***************************************************************************)
EXTENDS BerCodec, SequencesExt

CONSTANTS
  MaxVarBinds,   \* SNMP_MAX_VARBINDS
  MaxChildren,   \* SNMP_MAX_COMPLEX_CHILDREN
  Messages,      \* what managers send
  MaxFaults,     \* bound: MaxFaults[m] bytes of the datagram of m are replaced
  Bytes          \* the bytes damage may put in the place of another

ASSUME ParserAssumption ==
  /\ MaxVarBinds \in Nat /\ MaxChildren \in Nat
  /\ MaxFaults \in [Messages -> Nat]
  /\ Bytes \subseteq Byte

VARIABLES
  message,     \* the message that was sent
  packet,      \* the bytes that arrived
  faults,      \* how many of them were replaced
  extent,      \* "whole", "cut" or "padded"
  inPlace,     \* what the in-place path reads
  container    \* what the container path reads

vars == <<message, packet, faults, extent, inPlace, container>>

\* SNMP_VERSION_MAX: versions 0 and 1 are known
Versions == {<<0, 0, 0, 0>>, <<0, 0, 0, 1>>}

-----------------------------------------------------------------------------
(* The manager's encodings.  "canonical" is the shortest form of standard   *)
(* BER, "library" that of this library's serialise(), with integers of four *)
(* bytes, and "long" has every length of a constructed value in two bytes.  *)

Encodings == {"canonical", "library", "long"}

\* standard BER drops leading bytes that only repeat the sign
Shortest(word) ==
  LET Keeps(n) == \A i \in 1 .. n :
        /\ word[i] = word[1] /\ word[1] \in {0, 255}
        /\ (word[i + 1] >= 128) = (word[1] = 255)
      n == CHOOSE n \in 0 .. Len(word) - 1 :
             Keeps(n) /\ \A more \in n + 1 .. Len(word) - 1 : ~Keeps(more)
  IN  SubSeq(word, n + 1, Len(word))

\* an unsigned number is the positive integer that standard BER makes of it
Number(tag, word, encoding) ==
  IF encoding = "library" THEN word
  ELSE IF tag = INTEGER THEN Shortest(word) ELSE Shortest(<<0>> \o word)

Value(v, encoding) ==
  Tlv(v.tag, IF v.tag \in Words \cup {COUNTER64}
             THEN Number(v.tag, v.data, encoding) ELSE v.data)

Constructed(tag, parts, encoding) ==
  LET content == FlattenSeq(parts)
  IN  IF encoding = "long"
      THEN <<tag, 130, Len(content) \div 256, Len(content) % 256>> \o content
      ELSE Tlv(tag, content)

Integer(word, encoding) == Value([tag |-> INTEGER, data |-> word], encoding)

VarBindBytes(vb, encoding) ==
  Constructed(STRUCTURE, <<Tlv(OID, vb.oid), Value(vb.value, encoding)>>, encoding)

Encode(m, encoding) ==
  LET rows == Constructed(STRUCTURE,
                [i \in DOMAIN m.vbs |-> VarBindBytes(m.vbs[i], encoding)], encoding)
      pdu == Constructed(m.pduType,
               <<Integer(m.requestID, encoding), Integer(m.errorStatus, encoding),
                 Integer(m.errorIndex, encoding), rows>>, encoding)
  IN  Constructed(STRUCTURE,
        <<Integer(m.version, encoding), Tlv(OCTETS, m.community), pdu>>, encoding)

-----------------------------------------------------------------------------
(* The container path: every TLV becomes an object, then parsePacket()      *)
(* looks at the tree.                                                       *)

\* createObjectForType() makes a ComplexType of these; not of a TrapPDU
Constructs == {STRUCTURE} \cup (PDUs \ {TrapPDU})

RECURSIVE Children(_, _, _, _, _), ObjectFrom(_, _, _)

\* ComplexType::fromBuffer(), the loop: "remaining" bytes of the parent are
\* left, and a child may use what is left of the parent's whole buffer
Children(buf, p, remaining, room, read) ==
  IF remaining <= 0 THEN [used |-> 0, data |-> read]
  ELSE IF Len(read) >= MaxChildren \/ buf[p] \notin Constructs \cup Primitives
  THEN Refused
  ELSE LET child == ObjectFrom(buf, p, room)
       IN  IF child.used < 0 THEN Refused
           ELSE Children(buf, p + child.used, remaining - child.used,
                         room - child.used,
                         Append(read, [tag |-> buf[p], data |-> child.data]))

ComplexFrom(buf, p, h, max) ==
  IF h.header = 0 THEN Refused
  ELSE LET read == Children(buf, p + h.header, h.len, max - h.header, <<>>)
       IN  IF read.used < 0 THEN Refused
           ELSE [used |-> h.header + h.len, data |-> read.data]

ObjectFrom(buf, p, max) ==
  IF buf[p] \in Constructs \cup {TrapPDU}
  THEN ComplexFrom(buf, p, Header(buf, p, max), max)
  ELSE fromBuffer(buf, p, max)

Rejected == [ok |-> FALSE]

\* parsePacket() checks the objects that are there, in their order
Typed(objects, n, tags) == n \in DOMAIN objects => objects[n].tag \in tags

\* the fields of SNMPPacket start as zero
NumberOf(objects, n) ==
  IF n \in DOMAIN objects THEN objects[n].data ELSE <<0, 0, 0, 0>>

RowsOf(pdu) == IF 4 \in DOMAIN pdu THEN pdu[4].data ELSE <<>>

\* cloneValueOrNull(): a constructed value becomes a NULL
Cloned(v) ==
  IF v.tag \in Primitives THEN v ELSE [tag |-> NULLTYPE, data |-> <<>>]

IsVarBind(object) ==
  /\ object.tag = STRUCTURE
  /\ Len(object.data) = 2
  /\ object.data[1].tag = OID

\* states REQUESTID to VARBIND, over the PDU's objects
PduParsed(root, pdu, rows) ==
  IF /\ \A n \in 1 .. 3 : Typed(pdu, n, {INTEGER})
     /\ Typed(pdu, 4, {STRUCTURE})
     /\ \A n \in DOMAIN rows : IsVarBind(rows[n])
     /\ Len(rows) <= MaxVarBinds
  THEN [ok |-> TRUE, version |-> root[1].data, community |-> root[2].data,
        pduType |-> root[3].tag, requestID |-> NumberOf(pdu, 1),
        errorStatus |-> NumberOf(pdu, 2), errorIndex |-> NumberOf(pdu, 3),
        vbs |-> [n \in DOMAIN rows |-> [oid   |-> rows[n].data[1].data,
                                        value |-> Cloned(rows[n].data[2])]]]
  ELSE Rejected

\* a root that ends before its PDU is accepted as it is
ParsePacket(root) ==
  IF /\ Typed(root, 1, {INTEGER})
     /\ 1 \in DOMAIN root => root[1].data \in Versions
     /\ Typed(root, 2, {OCTETS})
     /\ Typed(root, 3, PDUs)
  THEN IF 3 \in DOMAIN root
       THEN PduParsed(root, root[3].data, RowsOf(root[3].data))
       ELSE [ok |-> TRUE]
  ELSE Rejected

ParseTree(tree) == IF tree.used <= 0 THEN Rejected ELSE ParsePacket(tree.data)

\* SNMPPacket::parseFrom()
parseFrom(buf) ==
  IF buf[1] # STRUCTURE THEN Rejected ELSE ParseTree(ObjectFrom(buf, 1, Len(buf)))

-----------------------------------------------------------------------------
(* The in-place path: views of the packet, then one object per value.       *)

\* ber_peek(): a TLV of which max bytes may be read, as a view
ViewOf(buf, p, h) ==
  [ok |-> h.header # 0, at |-> p, tag |-> buf[p],
   value |-> p + h.header, len |-> h.len, total |-> h.header + h.len]

NoView == [ok |-> FALSE]

ber_peek(buf, p, max) ==
  IF max < 2 THEN NoView ELSE ViewOf(buf, p, Header(buf, p, max))

RECURSIVE Views(_, _, _, _)

\* Scope::next(), at most n times: the views of the TLVs in the rem bytes from
\* p, ending before one that is malformed
Views(buf, p, rem, n) ==
  LET v == ber_peek(buf, p, rem)
  IN  IF n = 0 \/ ~v.ok THEN <<>>
      ELSE <<v>> \o Views(buf, p + v.total, rem - v.total, n - 1)

Within(buf, v, n) == Views(buf, v.value, v.len, n)

\* nothing is left of the scope v after these views
Fills(views, v) == FoldLeft(LAMBDA sum, w : sum + w.total, 0, views) = v.len

Slice(buf, v) == SubSeq(buf, v.value, v.value + v.len - 1)

Tags(views) == [i \in DOMAIN views |-> views[i].tag]

\* ber_view_decode_varbind() on the views within a varbind
IsVarBindView(buf, vb, parts) ==
  /\ vb.tag = STRUCTURE
  /\ Len(parts) = 2 /\ Fills(parts, vb)
  /\ parts[1].tag = OID
  /\ parts[1].len \in 1 .. MaxOidBytes
  /\ buf[parts[1].value] = 43

\* makeValueForTag() and the value's fromBuffer(), bounded by its own TLV
ValueObject(buf, v) ==
  IF v.tag \in Primitives THEN fromBuffer(buf, v.at, v.total)
  ELSE IF v.tag \in Constructs \cup {TrapPDU} THEN ObjectFrom(buf, v.at, v.total)
  ELSE Refused

\* Mutant: a value need not use its TLV to the last byte.
ValuesReadInPart(buf, header, rows, values) ==
  IF \A n \in DOMAIN rows : values[n].used > 0
  THEN [header EXCEPT !.vbs = [n \in DOMAIN rows |->
         [oid   |-> Slice(buf, rows[n][1]),
          value |-> [tag |-> rows[n][2].tag, data |-> values[n].data]]]]
  ELSE Rejected

\* decodeRequestValues(): every value must use its TLV to the last byte
ValuesRead(buf, header, rows, values) ==
  IF \A n \in DOMAIN rows : values[n].used = rows[n][2].total
  THEN [header EXCEPT !.vbs = [n \in DOMAIN rows |->
         [oid   |-> Slice(buf, rows[n][1]),
          value |-> [tag |-> rows[n][2].tag, data |-> values[n].data]]]]
  ELSE Rejected

VarBindsPeeked(buf, header, list, vbs, rows) ==
  IF /\ Fills(vbs, list)
     /\ \A n \in DOMAIN vbs : IsVarBindView(buf, vbs[n], rows[n])
     /\ Len(vbs) <= MaxVarBinds
  THEN ValuesRead(buf, header, rows,
                  [n \in DOMAIN rows |-> ValueObject(buf, rows[n][2])])
  ELSE Rejected

ListPeeked(buf, header, list, vbs) ==
  VarBindsPeeked(buf, header, list, vbs,
                 [n \in DOMAIN vbs |-> Within(buf, vbs[n], 3)])

\* Mutant: the error index is taken from the integer before it.
PduPeekedTwice(buf, root, pdu) ==
  IF Tags(pdu) = <<INTEGER, INTEGER, INTEGER, STRUCTURE>>
  THEN ListPeeked(buf,
         [ok |-> TRUE, version |-> WordOf(Slice(buf, root[1])),
          community |-> Slice(buf, root[2]), pduType |-> root[3].tag,
          requestID |-> WordOf(Slice(buf, pdu[1])),
          errorStatus |-> WordOf(Slice(buf, pdu[2])),
          errorIndex |-> WordOf(Slice(buf, pdu[2])), vbs |-> <<>>],
         pdu[4], Within(buf, pdu[4], Len(buf)))
  ELSE Rejected

PduPeeked(buf, root, pdu) ==
  IF Tags(pdu) = <<INTEGER, INTEGER, INTEGER, STRUCTURE>>
  THEN ListPeeked(buf,
         [ok |-> TRUE, version |-> WordOf(Slice(buf, root[1])),
          community |-> Slice(buf, root[2]), pduType |-> root[3].tag,
          requestID |-> WordOf(Slice(buf, pdu[1])),
          errorStatus |-> WordOf(Slice(buf, pdu[2])),
          errorIndex |-> WordOf(Slice(buf, pdu[3])), vbs |-> <<>>],
         pdu[4], Within(buf, pdu[4], Len(buf)))
  ELSE Rejected

RootPeeked(buf, root) ==
  IF /\ Len(root) = 3
     /\ root[1].tag = INTEGER /\ WordOf(Slice(buf, root[1])) \in Versions
     /\ root[2].tag = OCTETS
     /\ root[3].tag \in PDUs
  THEN PduPeeked(buf, root, Within(buf, root[3], 4))
  ELSE Rejected

\* snmp_ber_peek_packet(), and what handlePacketInPlace() does before it acts
peekPacket(buf, packetView) ==
  IF packetView.ok /\ packetView.tag = STRUCTURE
  THEN RootPeeked(buf, Within(buf, packetView, 3))
  ELSE Rejected

-----------------------------------------------------------------------------
Decoded ==
  /\ inPlace' = peekPacket(packet', ber_peek(packet', 1, Len(packet')))
  /\ container' = parseFrom(packet')

Init ==
  /\ message \in Messages
  /\ \E encoding \in Encodings : packet = Encode(message, encoding)
  /\ faults = 0
  /\ extent = "whole"
  /\ inPlace = peekPacket(packet, ber_peek(packet, 1, Len(packet)))
  /\ container = parseFrom(packet)

\* a byte of the datagram is replaced
Damage ==
  /\ extent = "whole" /\ faults < MaxFaults[message]
  /\ \E i \in DOMAIN packet, b \in Bytes :
       b # packet[i] /\ packet' = [packet EXCEPT ![i] = b]
  /\ faults' = faults + 1
  /\ Decoded
  /\ UNCHANGED <<message, extent>>

\* the datagram ends early
Cut ==
  /\ extent = "whole" /\ faults = 0
  /\ \E n \in 1 .. Len(packet) - 1 : packet' = SubSeq(packet, 1, n)
  /\ extent' = "cut"
  /\ Decoded
  /\ UNCHANGED <<message, faults>>

\* bytes follow the message
Pad ==
  /\ extent = "whole" /\ faults = 0
  /\ \E b \in Bytes : packet' = Append(packet, b)
  /\ extent' = "padded"
  /\ Decoded
  /\ UNCHANGED <<message, faults>>

Next == Damage \/ Cut \/ Pad

Spec == Init /\ [][Next]_vars

-----------------------------------------------------------------------------
(* Properties                                                               *)

\* a value as the container path hands it on
Handed(r) == [r EXCEPT !.vbs = [n \in DOMAIN @ |->
                                  [@[n] EXCEPT !.value = Cloned(@)]]]

Complete(r) == "vbs" \in DOMAIN r

\* Whatever encoding of BER the manager chooses, both paths read the message it
\* sent: every number with its sign and all its bits, every length on both
\* sides of 127, 128, 255 and 256.  Bytes after the message change nothing.  A
\* message of too many varbinds is refused whole by both, and never shortened.
\* (handlePacketInPlace(), src/src/SNMPZeroCopy.cpp 469-478; parsePacket().)
MessageIsRead ==
  faults = 0 /\ extent # "cut" =>
    \A read \in {inPlace, container} :
      IF Len(message.vbs) <= MaxVarBinds
      THEN read = message @@ [ok |-> TRUE]
      ELSE read = Rejected

\* No message that ends early is taken for a shorter one, by either path.
CutIsRejected == extent = "cut" => ~inPlace.ok /\ ~container.ok

\* SNMP_Embedded.cpp 295-298: the in-place handler is "wire-identical" to the
\* container path.  For damaged datagrams too: when both accept one, they read
\* the same header, OIDs and values in it.
PathsReadAlike ==
  inPlace.ok /\ Complete(container) => Handed(inPlace) = container

\* The views ignore what follows the PDU in the root and the varbind list in the
\* PDU, and take a TrapPDU for any PDU; the containers do neither.
Exceptional ==
  LET root == Within(packet, ber_peek(packet, 1, Len(packet)), 3)
      pdu == Within(packet, root[3], 4)
  IN  \/ ~Fills(root, ber_peek(packet, 1, Len(packet)))
      \/ ~Fills(pdu, root[3])
      \/ TrapPDU \in {inPlace.pduType} \cup Range(
           [n \in DOMAIN inPlace.vbs |-> inPlace.vbs[n].value.tag])

\* SNMPZeroCopy.cpp 72-75: the value pass keeps the containers' rejections, so
\* that no SET takes effect that the container path would have refused.
InPlaceIsStricter == inPlace.ok => container.ok \/ Exceptional

=============================================================================
