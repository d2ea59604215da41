------------------------------- MODULE BerCodec -------------------------------
(***************************************************************************)
(* BER values as bytes: the length field, and what each container class    *)
(* reads and writes (src/src/BERDecode.cpp, src/src/BEREncode.cpp,         *)
(* src/src/include/BER.h).                                                 *)
(*                                                                         *)
(* A 32-bit value is its four bytes, most significant first, and a 64-bit  *)
(* value its eight: what the shifts of the code and its casts to int8_t,   *)
(* int16_t and int32_t compute is then which bytes are kept and which are  *)
(* filled in.  Positions count from 1.                                     *)
(***************************************************************************)
EXTENDS Integers, Sequences

CONSTANTS
  MaxOidBytes,  \* SNMP_MAX_OID_SUBIDENTIFIERS + 1
  MaxOctets     \* OCTET_TYPE_MAX_LENGTH

ASSUME CodecAssumption == MaxOidBytes \in Nat \ {0} /\ MaxOctets \in Nat \ {0}

Byte == 0 .. 255

\* ASN_TYPE
INTEGER == 2
OCTETS == 4
NULLTYPE == 5
OID == 6
STRUCTURE == 48
COUNTER32 == 65
GAUGE32 == 66
TIMESTAMP == 67
OPAQUE == 68
COUNTER64 == 70
NETWORK_ADDRESS == 64
NOSUCHOBJECT == 128
NOSUCHINSTANCE == 129
ENDOFMIBVIEW == 130
GetRequestPDU == 160
GetNextRequestPDU == 161
GetResponsePDU == 162
SetRequestPDU == 163
TrapPDU == 164
GetBulkRequestPDU == 165
InformRequestPDU == 166
Trapv2PDU == 167

\* the classes derived from IntegerType and from NullType
Words == {INTEGER, COUNTER32, GAUGE32, TIMESTAMP}
Nulls == {NULLTYPE, NOSUCHOBJECT, NOSUCHINSTANCE, ENDOFMIBVIEW}
PDUs == GetRequestPDU .. Trapv2PDU

-----------------------------------------------------------------------------
(* Lengths                                                                  *)

\* encode_ber_length_integer(): one, two or three bytes
EncodeLength(n) ==
  IF n < 128 THEN <<n>>
  ELSE IF n < 256 THEN <<129, n>>
  ELSE <<130, (n \div 256) % 256, n % 256>>

\* the number that up to four bytes spell, most significant first
BigEndian(bytes) ==
  LET fromLast(k) == IF k < Len(bytes) THEN bytes[Len(bytes) - k] ELSE 0
  IN  fromLast(0) + 256 * fromLast(1) + 65536 * fromLast(2) + 16777216 * fromLast(3)

\* the largest length an int holds
INT_MAX == 2147483647

NoLength == [used |-> 0, len |-> 0]

\* The length field at p, of which max bytes may be read.  Refused are the
\* indefinite form, a field that runs off the buffer and one of more than four
\* bytes.  (Four bytes with the top bit set, which do not fit the int they are
\* read into, are outside the model.)
DecodeLength(buf, p, max) ==
  LET numBytes == buf[p] - 128
  IN  IF max < 1 THEN NoLength
      ELSE IF buf[p] < 128 THEN [used |-> 1, len |-> buf[p]]
      ELSE IF numBytes \in 1 .. 4 /\ numBytes < max
      THEN [used |-> numBytes + 1,
            len  |-> BigEndian(SubSeq(buf, p + 1, p + numBytes))]
      ELSE NoLength

\* BER_CONTAINER::serialise(buf, max_len, known_length) and the content
Tlv(tag, content) == <<tag>> \o EncodeLength(Len(content)) \o content

NoHeader == [header |-> 0, len |-> 0]

\* Mutant: a length that runs off the buffer is cut down to what is there.
HeaderClipped(buf, p, max) ==
  IF max < 2 THEN NoHeader
  ELSE LET length == DecodeLength(buf, p + 1, max - 1)
           rest == max - 1 - length.used
       IN  IF length.used = 0 THEN NoHeader
           ELSE [header |-> 1 + length.used,
                 len |-> IF length.len > rest THEN rest ELSE length.len]

\* BER_CONTAINER::fromBuffer(): the bytes of tag and length field, the length
Header(buf, p, max) ==
  IF max < 2 THEN NoHeader
  ELSE LET length == DecodeLength(buf, p + 1, max - 1)
       IN  IF length.used = 0 \/ 1 + length.used + length.len > max THEN NoHeader
           ELSE [header |-> 1 + length.used, len |-> length.len]

-----------------------------------------------------------------------------
(* Values.  A decoded value is [used, data]: what fromBuffer() returns, and *)
(* the bytes of the number, the string or the OID.                          *)

Refused == [used |-> -1, data |-> <<>>]

\* the last n bytes of content, after as many of "fill" as are wanting
LastBytes(n, fill, content) ==
  SubSeq([i \in 1 .. n |-> fill] \o content, Len(content) + 1, Len(content) + n)

\* Mutant: numbers of three bytes are not extended by their sign.
WordOfUnsigned3(content) ==
  LastBytes(4, IF Len(content) \in 1 .. 2 /\ content[1] >= 128 THEN 255 ELSE 0, content)

\* IntegerType::fromBuffer(): one to three bytes are extended by their sign,
\* of more than four the lowest are kept
WordOf(content) ==
  LastBytes(4, IF Len(content) \in 1 .. 3 /\ content[1] >= 128 THEN 255 ELSE 0, content)

\* a NullType takes two bytes, whatever its length field says
NullFrom == [used |-> 2, data |-> <<>>]

\* OIDType::fromBuffer(); an empty OID is judged by the byte after it
OidFrom(whole, content, next) ==
  IF Len(content) > MaxOidBytes THEN Refused
  ELSE IF (IF content = <<>> THEN next ELSE content[1]) # 43 THEN Refused
  ELSE [used |-> whole, data |-> content]

\* fromBuffer() of every class but ComplexType.  NetworkAddress alone returns
\* the length of its header without that of its content.
ContentFrom(tag, header, content, next) ==
  LET whole == header + Len(content)
  IN  CASE tag \in Words -> [used |-> whole, data |-> WordOf(content)]
      [] tag = COUNTER64 -> [used |-> whole, data |-> LastBytes(8, 0, content)]
      [] tag \in {OCTETS, OPAQUE} ->
           IF Len(content) > MaxOctets THEN Refused
           ELSE [used |-> whole, data |-> content]
      [] tag = OID -> OidFrom(whole, content, next)
      [] tag = NETWORK_ADDRESS -> [used |-> header, data |-> content]

\* the byte at p; the packet buffer was cleared before the datagram was read
ByteAt(buf, p) == IF p <= Len(buf) THEN buf[p] ELSE 0

PrimitiveFrom(buf, p, h) ==
  IF h.header = 0 THEN Refused
  ELSE ContentFrom(buf[p], h.header,
                   SubSeq(buf, p + h.header, p + h.header + h.len - 1),
                   ByteAt(buf, p + h.header + h.len))

\* the classes of createObjectForType() that are not ComplexType
Primitives == Words \cup Nulls \cup
  {OCTETS, OPAQUE, OID, COUNTER64, NETWORK_ADDRESS}

fromBuffer(buf, p, max) ==
  IF buf[p] \in Nulls THEN NullFrom ELSE PrimitiveFrom(buf, p, Header(buf, p, max))
=============================================================================
