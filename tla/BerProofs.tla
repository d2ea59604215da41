------------------------------ MODULE BerProofs ------------------------------
(***************************************************************************)
(* Proofs about the BER encoding: the length field and the header of a TLV *)
(* as the container classes write and read them, for every buffer, place   *)
(* and limit (src/src/BERDecode.cpp, src/src/BEREncode.cpp); the writer of *)
(* the in-place path, for a buffer of any capacity, TLVs of any length and *)
(* scopes nested to any depth (src/src/include/BERView.h); and that both   *)
(* take a value to the same number of bytes.                               *)
(***************************************************************************)
EXTENDS BerCodec, BerWriter, Induction

-----------------------------------------------------------------------------
(* The codec of the container classes.                                      *)

\* a byte is a number below 256
LEMMA ByteIsNat == \A b \in Byte : b \in Nat /\ b <= 255
  BY DEF Byte

\* the fields of a decoded length
LEMMA LengthFields ==
  \A r, u, n : r = [used |-> u, len |-> n] => r.used = u /\ r.len = n
  OBVIOUS

\* what the shifts of decode_ber_length_integer() put together is a number
LEMMA BigEndianIsNat ==
  ASSUME NEW bytes \in Seq(Byte)
  PROVE  BigEndian(bytes) \in Nat
<1> DEFINE fromLast(k) == IF k < Len(bytes) THEN bytes[Len(bytes) - k] ELSE 0
<1>1. ASSUME NEW k \in 0 .. 3
      PROVE  fromLast(k) \in Nat
  <2>1. CASE k < Len(bytes)
    <3>1. Len(bytes) - k \in 1 .. Len(bytes)
      BY <2>1
    <3>2. bytes[Len(bytes) - k] \in Byte
      BY <3>1
    <3>3. bytes[Len(bytes) - k] \in Nat
      BY <3>2, ByteIsNat, Zenon
    <3> QED
      BY <2>1, <3>3, Zenon
  <2>2. CASE ~(k < Len(bytes))
    BY <2>2
  <2> QED
    BY <2>1, <2>2
<1>2. BigEndian(bytes) = fromLast(0) + 256 * fromLast(1) + 65536 * fromLast(2)
                           + 16777216 * fromLast(3)
  BY DEF BigEndian
<1>3. /\ fromLast(0) \in Nat /\ fromLast(1) \in Nat
      /\ fromLast(2) \in Nat /\ fromLast(3) \in Nat
  BY <1>1
<1> HIDE DEF fromLast
<1> QED
  BY <1>2, <1>3, SMTT(30)

\* A length field lies within the limit it is read under, and the length it
\* gives is not negative.
LEMMA LengthFieldInLimit ==
  ASSUME NEW buf \in Seq(Byte), NEW p \in Nat \ {0}, NEW max \in Nat,
         max >= 1, p + max - 1 <= Len(buf)
  PROVE  LET length == DecodeLength(buf, p, max)
         IN  length.used \in 0 .. max /\ length.len \in Nat
<1> DEFINE numBytes == buf[p] - 128
           field == SubSeq(buf, p + 1, p + numBytes)
<1>1. buf[p] \in Byte
  OBVIOUS
<1>2. ~(max < 1)
  OBVIOUS
<1>3. CASE buf[p] < 128
  <2>1. DecodeLength(buf, p, max) = [used |-> 1, len |-> buf[p]]
    BY <1>2, <1>3, Zenon DEF DecodeLength
  <2>2. buf[p] \in Nat
    BY <1>1, ByteIsNat, Zenon
  <2>3. 1 \in 0 .. max
    OBVIOUS
  <2> QED
    BY <2>1, <2>2, <2>3, LengthFields, Zenon
<1>4. CASE ~(buf[p] < 128) /\ numBytes \in 1 .. 4 /\ numBytes < max
  <2>1. DecodeLength(buf, p, max) = [used |-> numBytes + 1, len |-> BigEndian(field)]
    BY <1>2, <1>4, Zenon DEF DecodeLength
  <2>2. field \in Seq(Byte)
    BY <1>4
  <2>3. BigEndian(field) \in Nat
    BY <2>2, BigEndianIsNat
  <2>4. numBytes + 1 \in 0 .. max
    <3> HIDE DEF numBytes
    <3> QED
      BY <1>4
  <2> HIDE DEF numBytes, field
  <2>5. /\ DecodeLength(buf, p, max).used = numBytes + 1
        /\ DecodeLength(buf, p, max).len = BigEndian(field)
    BY <2>1, LengthFields, Zenon
  <2> QED
    BY <2>3, <2>4, <2>5, Zenon
<1>5. CASE ~(buf[p] < 128) /\ ~(numBytes \in 1 .. 4 /\ numBytes < max)
  <2>1. DecodeLength(buf, p, max) = [used |-> 0, len |-> 0]
    BY <1>2, <1>5, Zenon DEF DecodeLength, NoLength
  <2>2. 0 \in 0 .. max /\ 0 \in Nat
    OBVIOUS
  <2> QED
    BY <2>1, <2>2, LengthFields, Zenon
<1> QED
  BY <1>3, <1>4, <1>5, Zenon

(***************************************************************************)
(* BERView.h 39-40: "the view walk must never read past the buffer".  A    *)
(* header that is accepted has at least two bytes, so that a walk moves    *)
(* on, and its content ends within the limit, whatever the bytes are.  The *)
(* premise leaves out four-byte lengths with the top bit set: DecodeLength *)
(* reads them as unsigned, BER_CONTAINER::fromBuffer() as negative ints.   *)
(***************************************************************************)
THEOREM HeaderStaysInBuffer ==
  ASSUME NEW buf \in Seq(Byte), NEW p \in Nat \ {0}, NEW max \in Nat,
         p + max - 1 <= Len(buf),
         DecodeLength(buf, p + 1, max - 1).len <= INT_MAX,
         Header(buf, p, max) # NoHeader
  PROVE  /\ Header(buf, p, max).header >= 2
         /\ Header(buf, p, max).len \in Nat
         /\ Header(buf, p, max).header + Header(buf, p, max).len <= max
<1> DEFINE length == DecodeLength(buf, p + 1, max - 1)
<1>1. ~(max < 2)
  BY Zenon DEF Header
<1>2. length.used \in 0 .. max - 1 /\ length.len \in Nat
  <2>1. p + 1 \in Nat \ {0} /\ max - 1 \in Nat /\ max - 1 >= 1
    BY <1>1
  <2>2. (p + 1) + (max - 1) - 1 <= Len(buf)
    OBVIOUS
  <2> QED
    BY <2>1, <2>2, LengthFieldInLimit, Zenon
<1>3. ~(length.used = 0 \/ 1 + length.used + length.len > max)
  BY <1>1, Zenon DEF Header
<1>4. Header(buf, p, max) = [header |-> 1 + length.used, len |-> length.len]
  BY <1>1, <1>3, Zenon DEF Header
<1> HIDE DEF length
<1>5. /\ Header(buf, p, max).header = 1 + length.used
      /\ Header(buf, p, max).len = length.len
  BY <1>4
<1>6. 1 + length.used >= 2 /\ 1 + length.used + length.len <= max
  BY <1>2, <1>3
<1> QED
  BY <1>2, <1>5, <1>6, Zenon

(***************************************************************************)
(* BERDecode.cpp 166-169: "a length field that runs off the buffer" is not *)
(* read.  What a header is taken for depends on the max bytes at p and  *)
(* on no other: two buffers that agree there give the same.                *)
(***************************************************************************)
THEOREM HeaderReadsWithinLimit ==
  ASSUME NEW buf1 \in Seq(Byte), NEW buf2 \in Seq(Byte),
         NEW p \in Nat \ {0}, NEW max \in Nat,
         p + max - 1 <= Len(buf1), p + max - 1 <= Len(buf2),
         \A i \in p .. p + max - 1 : buf1[i] = buf2[i]
  PROVE  Header(buf1, p, max) = Header(buf2, p, max)
<1> DEFINE numBytes == buf1[p + 1] - 128
           field(buf) == SubSeq(buf, p + 1 + 1, p + 1 + numBytes)
<1>1. CASE max < 2
  BY <1>1, Zenon DEF Header
<1>2. CASE ~(max < 2)
  <2>1. buf1[p + 1] = buf2[p + 1]
    <3>1. p + 1 \in p .. p + max - 1
      BY <1>2
    <3> QED
      BY <3>1, Zenon
  <2>2. CASE numBytes \in 1 .. 4 /\ numBytes < max - 1
    <3>1. field(buf1) = field(buf2)
      <4> HIDE DEF numBytes
      <4>1. \A i \in p + 1 + 1 .. p + 1 + numBytes : i \in p .. p + max - 1
        BY <1>2, <2>2
      <4>2. \A i \in p + 1 + 1 .. p + 1 + numBytes : buf1[i] = buf2[i]
        BY <4>1, Zenon
      <4> QED
        BY <1>2, <2>2, <4>2
    <3>2. DecodeLength(buf1, p + 1, max - 1) = DecodeLength(buf2, p + 1, max - 1)
      BY <2>1, <2>2, <3>1, ZenonT(60) DEF DecodeLength
    <3> QED
      BY <3>2, Zenon DEF Header
  <2>3. CASE ~(numBytes \in 1 .. 4 /\ numBytes < max - 1)
    <3>1. DecodeLength(buf1, p + 1, max - 1) = DecodeLength(buf2, p + 1, max - 1)
      BY <2>1, <2>3, Zenon DEF DecodeLength
    <3> QED
      BY <3>1, Zenon DEF Header
  <2> QED
    BY <2>2, <2>3, Zenon
<1> QED
  BY <1>1, <1>2, Zenon

\* the number two bytes spell, and one
LEMMA BigEndianShort ==
  ASSUME NEW bytes \in Seq(Byte)
  PROVE  /\ Len(bytes) = 1 => BigEndian(bytes) = bytes[1]
         /\ Len(bytes) = 2 => BigEndian(bytes) = bytes[2] + 256 * bytes[1]
<1>1. \A i \in 1 .. Len(bytes) : bytes[i] \in Nat
  <2>1. \A i \in 1 .. Len(bytes) : bytes[i] \in Byte
    OBVIOUS
  <2> QED
    BY <2>1, ByteIsNat, Zenon
<1>2. CASE Len(bytes) = 1
  <2>1. bytes[1] \in Nat
    BY <1>1, <1>2
  <2> QED
    BY <1>2, <2>1 DEF BigEndian
<1>3. CASE Len(bytes) = 2
  <2>1. bytes[1] \in Nat /\ bytes[2] \in Nat
    BY <1>1, <1>3
  <2> QED
    BY <1>3, <2>1 DEF BigEndian
<1> QED
  BY <1>2, <1>3

\* a long-form length field of k bytes that lies within the limit
LEMMA LongForm ==
  ASSUME NEW buf, NEW p, NEW max \in Nat, NEW k \in 1 .. 4,
         buf[p] = 128 + k, k < max
  PROVE  DecodeLength(buf, p, max) =
           [used |-> k + 1, len |-> BigEndian(SubSeq(buf, p + 1, p + k))]
<1>1. ~(max < 1) /\ ~(buf[p] < 128) /\ buf[p] - 128 = k
  OBVIOUS
<1> QED
  BY <1>1, Zenon DEF DecodeLength

\* tuples of one, two and three bytes
LEMMA Tuples ==
  \A t, a, b, c :
    /\ t = <<a>> => Len(t) = 1 /\ t[1] = a
    /\ t = <<a, b>> => Len(t) = 2 /\ t[1] = a /\ t[2] = b
    /\ t = <<a, b, c>> => Len(t) = 3 /\ t[1] = a /\ t[2] = b /\ t[3] = c
  OBVIOUS

\* the arithmetic of the three-byte form
LEMMA TwoBytes ==
  ASSUME NEW n \in Nat, n \div 256 \in Byte
  PROVE  /\ (n \div 256) % 256 \in Byte /\ n % 256 \in Byte
         /\ n = (n % 256) + 256 * ((n \div 256) % 256)
  BY DEF Byte

\* the three forms of encode_ber_length_integer()
LEMMA EncodedForms ==
  ASSUME NEW n \in Nat, n \div 256 \in Byte
  PROVE  LET e == EncodeLength(n)
         IN  \/ n < 128 /\ Len(e) = 1 /\ e[1] = n
             \/ ~(n < 128) /\ n \in Byte /\ Len(e) = 2 /\ e[1] = 129 /\ e[2] = n
             \/ /\ Len(e) = 3 /\ e[1] = 130 /\ e[2] \in Byte /\ e[3] \in Byte
                /\ n = e[3] + 256 * e[2]
<1>1. CASE n < 128
  BY <1>1, Tuples, Zenon DEF EncodeLength
<1>2. CASE ~(n < 128) /\ n < 256
  <2>1. n \in Byte
    BY <1>2 DEF Byte
  <2> QED
    BY <1>2, <2>1, Tuples, ZenonT(60) DEF EncodeLength
<1>3. CASE ~(n < 128) /\ ~(n < 256)
  <2> DEFINE hi == (n \div 256) % 256
             lo == n % 256
  <2>1. EncodeLength(n) = <<130, hi, lo>>
    BY <1>3, Zenon DEF EncodeLength
  <2>2. hi \in Byte /\ lo \in Byte /\ n = lo + 256 * hi
    BY TwoBytes
  <2> HIDE DEF hi, lo
  <2>3. /\ Len(EncodeLength(n)) = 3 /\ EncodeLength(n)[1] = 130
        /\ EncodeLength(n)[2] = hi /\ EncodeLength(n)[3] = lo
    BY <2>1, Tuples, SMT
  <2>4. hi \in Nat /\ lo \in Nat
    BY <2>2, ByteIsNat, Zenon
  <2>5. n = EncodeLength(n)[3] + 256 * EncodeLength(n)[2]
    BY <2>2, <2>3, <2>4, SMT
  <2>6. EncodeLength(n)[2] \in Byte /\ EncodeLength(n)[3] \in Byte
    BY <2>2, <2>3, SMT
  <2> QED
    BY <2>3, <2>5, <2>6, Zenon
<1> QED
  BY <1>1, <1>2, <1>3, Zenon

(***************************************************************************)
(* decode_ber_length_integer() reads back what encode_ber_length_integer() *)
(* wrote, in each of its three forms, for every length below 65536 and     *)
(* whatever stands around the field.                                       *)
(***************************************************************************)
THEOREM LengthRoundTrip ==
  ASSUME NEW n \in Nat, n \div 256 \in Byte,
         NEW buf \in Seq(Byte), NEW p \in Nat \ {0}, NEW max \in Nat,
         Len(EncodeLength(n)) <= max, p + max - 1 <= Len(buf),
         \A i \in 1 .. Len(EncodeLength(n)) : buf[p + i - 1] = EncodeLength(n)[i]
  PROVE  DecodeLength(buf, p, max) = [used |-> Len(EncodeLength(n)), len |-> n]
<1> DEFINE e == EncodeLength(n)
           size == Len(e)
<1>1. \/ n < 128 /\ size = 1 /\ e[1] = n
      \/ ~(n < 128) /\ n \in Byte /\ size = 2 /\ e[1] = 129 /\ e[2] = n
      \/ /\ size = 3 /\ e[1] = 130 /\ e[2] \in Byte /\ e[3] \in Byte
         /\ n = e[3] + 256 * e[2]
  BY EncodedForms, Zenon
<1>2. size <= max /\ \A i \in 1 .. size : buf[p + i - 1] = e[i]
  OBVIOUS
<1>3. SUFFICES DecodeLength(buf, p, max) = [used |-> size, len |-> n]
  OBVIOUS
<1> HIDE DEF e, size
<1>4. CASE n < 128 /\ size = 1 /\ e[1] = n
  <2>1. buf[p] = n /\ ~(max < 1)
    BY <1>2, <1>4
  <2> QED
    BY <1>4, <2>1, Zenon DEF DecodeLength
<1>5. CASE ~(n < 128) /\ n \in Byte /\ size = 2 /\ e[1] = 129 /\ e[2] = n
  <2> DEFINE field == SubSeq(buf, p + 1, p + 1)
  <2>1. buf[p] = 129 /\ buf[p + 1] = n /\ 1 < max
    BY <1>2, <1>5
  <2>2. DecodeLength(buf, p, max) = [used |-> 1 + 1, len |-> BigEndian(field)]
    BY <2>1, LongForm
  <2>3. field \in Seq(Byte) /\ Len(field) = 1 /\ field[1] = n
    BY <2>1
  <2>4. BigEndian(field) = n
    BY <2>3, BigEndianShort, Zenon
  <2>5. 1 + 1 = size
    BY <1>5
  <2> QED
    BY <2>2, <2>4, <2>5, Zenon
<1>6. CASE /\ size = 3 /\ e[1] = 130 /\ e[2] \in Byte /\ e[3] \in Byte
           /\ n = e[3] + 256 * e[2]
  <2> DEFINE field == SubSeq(buf, p + 1, p + 2)
  <2>1. buf[p] = 130 /\ buf[p + 1] = e[2] /\ buf[p + 2] = e[3] /\ 2 < max
    BY <1>2, <1>6, SMTT(30)
  <2>2. DecodeLength(buf, p, max) = [used |-> 2 + 1, len |-> BigEndian(field)]
    BY <2>1, LongForm
  <2>3. field \in Seq(Byte) /\ Len(field) = 2 /\ field[1] = e[2] /\ field[2] = e[3]
    BY <2>1
  <2>4. BigEndian(field) = e[3] + 256 * e[2]
    BY <2>3, BigEndianShort, ZenonT(60)
  <2>5. 2 + 1 = size
    BY <1>6
  <2> QED
    BY <1>6, <2>2, <2>4, <2>5, Zenon
<1> QED
  BY <1>1, <1>4, <1>5, <1>6, Zenon

-----------------------------------------------------------------------------
(* The writer of the in-place path.                                         *)

WriterType ==
  /\ pos \in Nat
  /\ failed \in BOOLEAN
  /\ markers \in Seq(Nat)
  /\ content \in Seq(Nat)
  /\ Len(content) = Len(markers) + 1
  /\ wanted \in Nat

\* The inductive invariant: what endScope() measures in the buffer is what the
\* caller has written, which keeps the content it moves inside the buffer.
WriterInv == WriterType /\ StaysInBuffer /\ LengthIsExact

-----------------------------------------------------------------------------
\* A TLV takes at least two bytes and at most four more than its content.
LEMMA TlvSize ==
  ASSUME NEW n \in Nat
  PROVE  /\ LengthBytes(n) \in 1 .. 3
         /\ TlvBytes(n) \in Nat
         /\ n + 2 <= TlvBytes(n) /\ TlvBytes(n) <= n + 4
BY DEF TlvBytes, LengthBytes

\* What a sequence of numbers is made of, and its first n members.
LEMMA SequenceFront ==
  ASSUME NEW s \in Seq(Nat), NEW n \in Nat, n <= Len(s)
  PROVE  /\ Len(s) \in Nat
         /\ \A k \in 1 .. Len(s) : s[k] \in Nat
         /\ SubSeq(s, 1, n) \in Seq(Nat)
         /\ Len(SubSeq(s, 1, n)) = n
         /\ \A k \in 1 .. n : SubSeq(s, 1, n)[k] = s[k]
OBVIOUS

\* The types of the cursor, the markers and the contents.
LEMMA WriterFacts ==
  ASSUME WriterType
  PROVE  /\ pos \in Nat
         /\ markers \in Seq(Nat) /\ content \in Seq(Nat)
         /\ Len(markers) \in Nat /\ Len(content) = Len(markers) + 1
         /\ \A k \in 1 .. Len(markers) : markers[k] \in Nat
         /\ \A k \in 1 .. Len(content) : content[k] \in Nat
<1>1. pos \in Nat /\ markers \in Seq(Nat) /\ content \in Seq(Nat) /\ Len(content) = Len(markers) + 1
  BY DEF WriterType
<1>2. ASSUME NEW s \in Seq(Nat)
      PROVE  Len(s) \in Nat /\ \A k \in 1 .. Len(s) : s[k] \in Nat
  OBVIOUS
<1> QED
  BY <1>1, <1>2

\* A put that fits keeps the invariant.
LEMMA WroteKeepsInv ==
  ASSUME WriterInv, NEW n \in Nat, ~failed, pos + n <= Cap, Wrote(n)
  PROVE  WriterInv'
<1> DEFINE top == Len(content)
<1>1. /\ pos' = pos + n
      /\ content' = [content EXCEPT ![top] = content[top] + n]
      /\ UNCHANGED <<failed, markers, wanted>>
  BY DEF Wrote
<1>2. /\ top \in 1 .. Len(content) /\ top = Len(markers) + 1
      /\ Len(markers) \in Nat
      /\ \A k \in 1 .. Len(content) : content[k] \in Nat
      /\ \A k \in 1 .. Len(markers) : markers[k] \in Nat
      /\ content \in Seq(Nat) /\ pos \in Nat
  BY WriterFacts DEF WriterInv
<1> HIDE DEF top
<1>3. /\ content' \in Seq(Nat) /\ Len(content') = Len(content)
      /\ content'[top] = content[top] + n
      /\ \A k \in 1 .. Len(content) : k # top => content'[k] = content[k]
  BY <1>1, <1>2
<1>4. WriterType'
  BY <1>1, <1>2, <1>3 DEF WriterInv, WriterType
<1>5. StaysInBuffer'
  <2>1. \A k \in 1 .. Len(markers) : markers[k] + Reserved <= pos
    BY DEF WriterInv, StaysInBuffer
  <2>2. \A j, k \in 1 .. Len(markers) : j < k => markers[j] + Reserved <= markers[k]
    BY DEF WriterInv, StaysInBuffer
  <2>3. ASSUME NEW k \in 1 .. Len(markers) PROVE markers[k] + Reserved <= pos + n
    <3>1. markers[k] + Reserved <= pos /\ markers[k] \in Nat /\ pos \in Nat
      BY <1>2, <2>1
    <3> QED
      BY <3>1 DEF Reserved
  <2> QED
    BY <1>1, <2>2, <2>3 DEF StaysInBuffer
<1>6. LengthIsExact'
  <2> SUFFICES ASSUME NEW k \in 1 .. Len(content)
               PROVE  content'[k] =
                        (IF k > Len(markers) THEN pos' ELSE markers[k])
                          - (IF k = 1 THEN 0 ELSE markers[k - 1] + Reserved)
    BY <1>1, <1>3 DEF LengthIsExact
  <2>1. content[k] = (IF k > Len(markers) THEN pos ELSE markers[k])
                       - (IF k = 1 THEN 0 ELSE markers[k - 1] + Reserved)
    BY DEF WriterInv, LengthIsExact
  <2>2. k - 1 \in 1 .. Len(markers) \/ k = 1
    BY <1>2 DEF WriterInv, WriterType
  <2>3. CASE k = top
    <3>1. content'[k] = content[k] + n /\ k > Len(markers)
      BY <1>2, <1>3, <2>3
    <3>2. k = 1 \/ markers[k - 1] \in Nat
      BY <1>2, <2>2
    <3>3. content[k] = pos - (IF k = 1 THEN 0 ELSE markers[k - 1] + Reserved)
      BY <2>1, <3>1
    <3>4. k = 1 \/ markers[k - 1] + Reserved \in Nat
      BY <3>2 DEF Reserved
    <3>5. content'[k] = (pos - (IF k = 1 THEN 0 ELSE markers[k - 1] + Reserved)) + n
          /\ pos' = pos + n /\ pos \in Nat
      BY <1>1, <1>2, <3>1, <3>3
    <3> QED
      BY <3>1, <3>4, <3>5
  <2>4. CASE k # top
    <3>1. k <= Len(markers)
      BY <1>2, <2>4 DEF WriterInv, WriterType
    <3> QED
      BY <1>3, <2>1, <2>4, <3>1
  <2> QED
    BY <2>3, <2>4
<1> QED
  BY <1>4, <1>5, <1>6 DEF WriterInv

\* A put that fails leaves the cursor in the buffer.
LEMMA FailingKeepsInv ==
  ASSUME WriterInv, NEW at \in Nat, NEW n \in Nat, pos <= at, at <= Cap, FailsAt(at, n)
  PROVE  WriterInv'
<1>1. /\ pos' = at /\ failed' = TRUE /\ wanted' = n
      /\ UNCHANGED <<markers, content>>
  BY DEF FailsAt
<1>2. WriterType'
  BY <1>1 DEF WriterInv, WriterType
<1>3. StaysInBuffer'
  <2>1. \A k \in 1 .. Len(markers) : markers[k] \in Nat
    BY WriterFacts DEF WriterInv
  <2> QED
    <3>1. /\ pos \in Nat
          /\ \A k \in 1 .. Len(markers) : markers[k] + 4 <= pos
          /\ \A j, k \in 1 .. Len(markers) : j < k => markers[j] + 4 <= markers[k]
      BY DEF WriterInv, WriterType, StaysInBuffer, Reserved
    <3>2. \A k \in 1 .. Len(markers) : markers[k] + 4 <= at
      BY <2>1, <3>1
    <3> QED
      BY <1>1, <3>1, <3>2 DEF StaysInBuffer, Reserved
<1>4. LengthIsExact'
  BY <1>1 DEF LengthIsExact
<1> QED
  BY <1>2, <1>3, <1>4 DEF WriterInv

\* Opening a scope reserves its window, or fails with the cursor unmoved.
LEMMA BeginKeepsInv ==
  ASSUME WriterInv, beginScope
  PROVE  WriterInv'
<1>1. CASE pos + Reserved > Cap
  <2>1. FailsAt(pos, TlvBytes(0)) /\ pos \in Nat /\ pos <= Cap /\ pos <= pos
    BY <1>1 DEF beginScope, WriterInv, WriterType, StaysInBuffer
  <2>2. TlvBytes(0) \in Nat
    BY TlvSize
  <2> QED
    BY <2>1, <2>2, FailingKeepsInv
<1>2. CASE pos + Reserved <= Cap
  <2> DEFINE m == Len(markers)
  <2>1. /\ pos' = pos + Reserved
        /\ markers' = Append(markers, pos)
        /\ content' = Append(content, 0)
        /\ UNCHANGED <<failed, wanted>>
        /\ ~failed
    BY <1>2, WriterAssumption DEF beginScope, WriterInv, WriterType, Reserved
  <2>2. /\ m \in Nat /\ Len(content) = m + 1
        /\ \A k \in 1 .. m : markers[k] \in Nat
        /\ \A k \in 1 .. m + 1 : content[k] \in Nat
        /\ pos \in Nat
    BY WriterFacts DEF WriterInv
  <2>3. /\ markers' \in Seq(Nat) /\ Len(markers') = m + 1
        /\ markers'[m + 1] = pos
        /\ \A k \in 1 .. m : markers'[k] = markers[k]
    BY <2>1, <2>2 DEF WriterInv, WriterType
  <2>4. /\ content' \in Seq(Nat) /\ Len(content') = m + 2
        /\ content'[m + 2] = 0
        /\ \A k \in 1 .. m + 1 : content'[k] = content[k]
    BY <2>1, <2>2 DEF WriterInv, WriterType
  <2> HIDE DEF m
  <2>5. WriterType'
    BY <2>1, <2>2, <2>3, <2>4 DEF WriterInv, WriterType, Reserved
  <2>6. StaysInBuffer'
    <3>1. pos <= Cap
          /\ (\A k \in 1 .. m : markers[k] + Reserved <= pos)
          /\ (\A j, k \in 1 .. m : j < k => markers[j] + Reserved <= markers[k])
      BY DEF WriterInv, StaysInBuffer, m
    <3>2. \A k \in 1 .. m + 1 : k = m + 1 \/ k \in 1 .. m
      BY <2>2
    <3>3. \A k \in 1 .. m + 1 : markers'[k] + Reserved <= pos'
      <4> SUFFICES ASSUME NEW k \in 1 .. m + 1 PROVE markers'[k] + 4 <= pos'
        BY DEF Reserved
      <4>1. pos' = pos + 4
        BY <2>1 DEF Reserved
      <4>2. ASSUME k \in 1 .. m PROVE markers'[k] + 4 <= pos /\ markers'[k] \in Nat
        BY <2>2, <2>3, <3>1, <4>2 DEF Reserved
      <4> QED
        BY <2>2, <2>3, <3>2, <4>1, <4>2
    <3>4. \A j, k \in 1 .. m + 1 : j < k => markers'[j] + Reserved <= markers'[k]
      <4> SUFFICES ASSUME NEW j \in 1 .. m + 1, NEW k \in 1 .. m + 1, j < k
                   PROVE  markers'[j] + Reserved <= markers'[k]
        OBVIOUS
      <4>1. j \in 1 .. m
        BY <2>2
      <4> QED
        BY <2>3, <3>1, <3>2, <4>1
    <3> QED
      BY <1>2, <2>1, <2>2, <2>3, <3>3, <3>4, WriterAssumption DEF StaysInBuffer, Reserved
  <2>7. LengthIsExact'
    <3> SUFFICES ASSUME NEW k \in 1 .. m + 2
                 PROVE  content'[k] =
                          (IF k > m + 1 THEN pos' ELSE markers'[k])
                            - (IF k = 1 THEN 0 ELSE markers'[k - 1] + Reserved)
      BY <2>3, <2>4 DEF LengthIsExact
    <3>1. CASE k = m + 2
      <4>1. k # 1 /\ k - 1 = m + 1 /\ k > m + 1
        BY <2>2, <3>1
      <4> QED
        BY <2>1, <2>2, <2>3, <2>4, <3>1, <4>1 DEF Reserved
    <3>2. CASE k \in 1 .. m + 1
      <4>1. content[k] = (IF k > m THEN pos ELSE markers[k])
                           - (IF k = 1 THEN 0 ELSE markers[k - 1] + Reserved)
        BY <2>1, <2>2, <3>2 DEF WriterInv, LengthIsExact, m
      <4>2. k = 1 \/ markers'[k - 1] = markers[k - 1]
        BY <2>2, <2>3, <3>2
      <4>3. ~(k > m + 1)
        BY <2>2, <3>2
      <4>4. markers'[k] = IF k > m THEN pos ELSE markers[k]
        BY <2>2, <2>3, <3>2
      <4> QED
        BY <2>4, <3>2, <4>1, <4>2, <4>3, <4>4
    <3> QED
      BY <2>2, <3>1, <3>2
  <2> QED
    BY <2>5, <2>6, <2>7 DEF WriterInv
<1> QED
  BY <1>1, <1>2, WriterAssumption DEF WriterInv, WriterType, Reserved

\* Closing a scope: what is measured is what was written, so the content moves
\* left by the bytes its header has not used and the cursor with it.
LEMMA EndKeepsInv ==
  ASSUME WriterInv, endScope
  PROVE  WriterInv'
<1> DEFINE m == Len(markers)
           len == pos - markers[m] - Reserved
<1>1. /\ ~failed
      /\ m # 0
      /\ pos' = pos - (Reserved - 1 - LengthBytes(len))
      /\ markers' = SubSeq(markers, 1, m - 1)
      /\ content' = [SubSeq(content, 1, m) EXCEPT ![m] = SubSeq(content, 1, m)[m] + TlvBytes(content[m + 1])]
      /\ UNCHANGED <<failed, wanted>>
  BY DEF endScope, WriterInv, WriterType
<1>2. /\ m \in Nat /\ m >= 1 /\ Len(content) = m + 1
      /\ \A k \in 1 .. m : markers[k] \in Nat
      /\ \A k \in 1 .. m + 1 : content[k] \in Nat
      /\ pos \in Nat
      /\ markers \in Seq(Nat) /\ content \in Seq(Nat)
  <2>1. markers \in Seq(Nat) /\ content \in Seq(Nat) /\ pos \in Nat /\ Len(content) = m + 1
    BY DEF WriterInv, WriterType
  <2>2. m \in Nat /\ m >= 1 /\ m + 1 \in Nat /\ m + 1 <= Len(content)
    <3>1. Len(markers) \in Nat
      BY <2>1
    <3>2. m # 0
      BY <1>1
    <3> HIDE DEF m
    <3>3. m \in Nat
      BY <3>1 DEF m
    <3> QED
      BY <2>1, <3>2, <3>3
  <2> HIDE DEF m
  <2>3. /\ \A k \in 1 .. Len(markers) : markers[k] \in Nat
        /\ \A k \in 1 .. Len(content) : content[k] \in Nat
    BY <2>1
  <2> QED
    BY <2>1, <2>2, <2>3 DEF m
<1>3. /\ markers' \in Seq(Nat) /\ Len(markers') = m - 1
      /\ \A k \in 1 .. m - 1 : markers'[k] = markers[k]
  <2>1. markers' = SubSeq(markers, 1, m - 1) /\ markers \in Seq(Nat)
    BY <1>1, <1>2
  <2>2. m - 1 \in Nat /\ m - 1 <= Len(markers)
    BY <1>2
  <2> HIDE DEF m
  <2> QED
    BY <2>1, <2>2, SequenceFront
<1> DEFINE closed == SubSeq(content, 1, m)
<1>4. /\ closed \in Seq(Nat) /\ Len(closed) = m
      /\ \A k \in 1 .. m : closed[k] = content[k]
  <2> HIDE DEF m
  <2> QED
    BY <1>2
<1>5. content[m + 1] = len /\ len \in Nat /\ pos = markers[m] + Reserved + len
  <2>1. /\ m + 1 \in 1 .. Len(content) /\ m + 1 > Len(markers)
        /\ m + 1 # 1 /\ (m + 1) - 1 = m
    BY <1>2
  <2>2. content[m + 1] = pos - (markers[m] + Reserved)
    BY <1>1, <2>1 DEF WriterInv, LengthIsExact
  <2>3. content[m + 1] \in Nat /\ markers[m] \in Nat /\ pos \in Nat
    BY <1>2
  <2> HIDE DEF m
  <2> QED
    BY <2>2, <2>3 DEF Reserved
<1> HIDE DEF m, len
<1>6. /\ TlvBytes(len) \in Nat /\ LengthBytes(len) \in 1 .. 3
      /\ TlvBytes(len) = 1 + LengthBytes(len) + len
  BY <1>5, TlvSize DEF TlvBytes
<1>7. /\ content' \in Seq(Nat) /\ Len(content') = m
      /\ content'[m] = content[m] + TlvBytes(len)
      /\ \A k \in 1 .. m : k # m => content'[k] = content[k]
  <2> HIDE DEF closed
  <2>1. m \in 1 .. m /\ closed[m] = content[m] /\ content[m] \in Nat
    BY <1>2, <1>4
  <2>2. content' = [closed EXCEPT ![m] = content[m] + TlvBytes(len)]
    BY <1>1, <1>5, <2>1 DEF closed
  <2> QED
    BY <1>4, <1>6, <2>1, <2>2
<1>8. /\ pos' \in Nat /\ pos' = markers[m] + TlvBytes(len) /\ pos' <= pos
  <2>1. markers[m] \in Nat /\ m \in 1 .. m
    BY <1>2
  <2>2. pos' = pos - (3 - LengthBytes(len)) /\ pos = markers[m] + 4 + len
    BY <1>1, <1>5 DEF Reserved
  <2> QED
    BY <1>5, <1>6, <2>1, <2>2
<1>9. WriterType'
  <2>1. Len(content') = Len(markers') + 1
    BY <1>2, <1>3, <1>7
  <2> QED
    BY <1>1, <1>3, <1>7, <1>8, <2>1 DEF WriterInv, WriterType
<1>10. /\ pos <= Cap
       /\ \A j, k \in 1 .. m : j < k => markers[j] + Reserved <= markers[k]
  BY DEF WriterInv, StaysInBuffer, m
<1>11. StaysInBuffer'
  <2>1. \A k \in 1 .. m - 1 : k \in 1 .. m /\ m \in 1 .. m /\ k < m
    BY <1>2
  <2>2. \A k \in 1 .. m - 1 : markers[k] + Reserved <= pos'
    <3> SUFFICES ASSUME NEW k \in 1 .. m - 1 PROVE markers[k] + 4 <= pos'
      BY DEF Reserved
    <3>1. markers[k] + 4 <= markers[m] /\ markers[k] \in Nat /\ markers[m] \in Nat
      BY <1>2, <1>10, <2>1 DEF Reserved
    <3> QED
      BY <1>6, <1>8, <3>1
  <2>3. pos' <= Cap
    BY <1>2, <1>8, <1>10, WriterAssumption
  <2> QED
    BY <1>3, <1>10, <2>1, <2>2, <2>3 DEF StaysInBuffer
<1>12. LengthIsExact'
  <2> SUFFICES ASSUME NEW k \in 1 .. m
               PROVE  content'[k] =
                        (IF k > m - 1 THEN pos' ELSE markers'[k])
                          - (IF k = 1 THEN 0 ELSE markers'[k - 1] + Reserved)
    BY <1>3, <1>7 DEF LengthIsExact
  <2>1. content[k] = markers[k] - (IF k = 1 THEN 0 ELSE markers[k - 1] + Reserved)
    BY <1>1, <1>2 DEF WriterInv, LengthIsExact, m
  <2>2. k = 1 \/ (markers'[k - 1] = markers[k - 1] /\ markers[k - 1] \in Nat)
    BY <1>2, <1>3
  <2>3. CASE k = m
    <3>1. markers[k] \in Nat /\ k > m - 1
      BY <1>2, <2>3
    <3>2. content'[k] = content[k] + TlvBytes(len) /\ pos' = markers[k] + TlvBytes(len)
      BY <1>7, <1>8, <2>3
    <3>3. k = 1 \/ (markers'[k - 1] + Reserved = markers[k - 1] + Reserved
                       /\ markers[k - 1] + Reserved \in Nat)
      BY <2>2 DEF Reserved
    <3> QED
      BY <1>6, <2>1, <3>1, <3>2, <3>3
  <2>4. CASE k # m
    <3>1. k \in 1 .. m - 1 /\ ~(k > m - 1)
      BY <1>2, <2>4
    <3> QED
      BY <1>3, <1>7, <2>1, <2>2, <2>4, <3>1
  <2> QED
    BY <2>3, <2>4
<1> QED
  BY <1>9, <1>11, <1>12 DEF WriterInv

-----------------------------------------------------------------------------
(* What a message takes once its scopes are closed.                          *)

\* where the content of the k-th scope starts in the buffer
Base(k) == IF k = 1 THEN 0 ELSE markers[k - 1] + Reserved

\* what is measured of the k-th scope, in terms of where the next one starts
LEMMA ContentBetweenBases ==
  ASSUME WriterInv, ~failed
  PROVE  /\ Len(content) \in Nat \ {0}
         /\ Base(1) = 0
         /\ content[Len(content)] = pos - Base(Len(content))
         /\ \A k \in 1 .. Len(content) : Base(k) \in Nat /\ content[k] \in Nat
         /\ \A k \in 1 .. Len(content) - 1 :
              content[k] = Base(k + 1) - Reserved - Base(k)
<1> DEFINE m == Len(markers)
<1>1. /\ m \in Nat /\ Len(content) = m + 1
      /\ \A k \in 1 .. m : markers[k] \in Nat
      /\ \A k \in 1 .. m + 1 : content[k] \in Nat
      /\ pos \in Nat
  BY DEF WriterInv, WriterType
<1>2. \A k \in 1 .. m + 1 :
        content[k] = (IF k > m THEN pos ELSE markers[k]) - Base(k)
  BY <1>1 DEF WriterInv, LengthIsExact, Base
<1> HIDE DEF m
<1>3. ASSUME NEW k \in 1 .. m + 1 PROVE Base(k) \in Nat
  <2>1. k = 1 \/ k - 1 \in 1 .. m
    BY <1>1
  <2> QED
    BY <1>1, <2>1 DEF Base, Reserved
<1>4. ASSUME NEW k \in 1 .. m PROVE content[k] = Base(k + 1) - Reserved - Base(k)
  <2>1. k + 1 # 1 /\ (k + 1) - 1 = k /\ ~ (k > m) /\ k \in 1 .. m + 1
    BY <1>1
  <2>2. Base(k + 1) = markers[k] + 4
    BY <2>1 DEF Base, Reserved
  <2>3. content[k] = markers[k] - Base(k)
    BY <1>2, <2>1
  <2>4. markers[k] \in Nat /\ Base(k) \in Nat
    BY <1>1, <1>3, <2>1
  <2> QED
    BY <2>2, <2>3, <2>4 DEF Reserved
<1>5. content[m + 1] = pos - Base(m + 1)
  BY <1>1, <1>2
<1> QED
  BY <1>1, <1>3, <1>4, <1>5 DEF Base

\* The equation of the function that ClosedAfter() is the first value of.
Closes(c, n) ==
  c = [k \in 1 .. Len(content) |->
         IF k = Len(content) THEN content[k] + n ELSE content[k] + TlvBytes(c[k + 1])]

\* That function exists, so ClosedAfter() is a value of it.
LEMMA ClosingExists ==
  ASSUME WriterInv, ~failed, NEW n \in Nat
  PROVE  \E c : Closes(c, n) /\ ClosedAfter(n) = c[1]
<1> DEFINE top == Len(content)
           start == content[top] + n
           step == [j \in Nat |-> [v \in Nat |->
                      IF j < top - 1 THEN content[top - 1 - j] + TlvBytes(v) ELSE v]]
<1>1. top \in Nat \ {0} /\ \A k \in 1 .. top : content[k] \in Nat
  BY ContentBetweenBases
<1> HIDE DEF top
<1>2. start \in Nat
  BY <1>1
<1>3. step \in [Nat -> [Nat -> Nat]]
  <2> SUFFICES ASSUME NEW j \in Nat, NEW v \in Nat
               PROVE  (IF j < top - 1 THEN content[top - 1 - j] + TlvBytes(v) ELSE v) \in Nat
    OBVIOUS
  <2>1. TlvBytes(v) \in Nat
    BY TlvSize
  <2>2. ASSUME j < top - 1 PROVE content[top - 1 - j] \in Nat
    BY <1>1, <2>2
  <2> QED
    BY <2>1, <2>2
<1> HIDE DEF start
<1>4. PICK f : Iterates(f, Nat, start, step)
  <2> HIDE DEF step
  <2> QED
    BY <1>2, <1>3, Iteration, Zenon
<1> DEFINE c == [k \in 1 .. top |-> f[top - k]]
<1>5. ASSUME NEW k \in 1 .. top, k # top PROVE c[k] = content[k] + TlvBytes(c[k + 1])
  <2> DEFINE j == top - k - 1
  <2>1. /\ j \in Nat /\ j < top - 1 /\ top - 1 - j = k
        /\ top - k = j + 1 /\ top - (k + 1) = j /\ k + 1 \in 1 .. top
    BY <1>1, <1>5
  <2> HIDE DEF j
  <2>2. f[j] \in Nat /\ f[j + 1] = step[j][f[j]]
    BY <1>4, <2>1 DEF Iterates
  <2>3. step[j][f[j]] = content[k] + TlvBytes(f[j])
    BY <2>1, <2>2
  <2>4. c[k] = f[j + 1] /\ c[k + 1] = f[j]
    BY <2>1
  <2> QED
    BY <2>2, <2>3, <2>4
<1>6. top \in 1 .. top /\ c[top] = content[top] + n
  <2>1. top \in 1 .. top /\ top - top = 0
    BY <1>1
  <2> QED
    BY <1>4, <2>1 DEF start, Iterates
<1>7. Closes(c, n)
  <2>1. DOMAIN c = 1 .. top /\ c = [k \in 1 .. top |-> c[k]]
    OBVIOUS
  <2> HIDE DEF c
  <2>2. \A k \in 1 .. top : c[k] = IF k = top THEN content[k] + n ELSE content[k] + TlvBytes(c[k + 1])
    BY <1>5, <1>6
  <2> QED
    BY <2>1, <2>2 DEF Closes, top
<1> DEFINE close == CHOOSE d : Closes(d, n)
<1>8. Closes(close, n)
  BY <1>7
<1>9. ClosedAfter(n) = close[1]
  BY DEF ClosedAfter, Closes
<1> QED
  BY <1>8, <1>9

\* Closing the open scopes gives back two bytes of each window at most.
LEMMA WindowCost ==
  ASSUME WriterInv, ~failed, NEW n \in Nat
  PROVE  ClosedAfter(n) \in Nat /\ pos + n <= ClosedAfter(n) + 2 * Len(markers)
<1> DEFINE top == Len(content)
<1>1. PICK c : Closes(c, n) /\ ClosedAfter(n) = c[1]
  BY ClosingExists
<1>2. /\ top \in Nat \ {0} /\ pos \in Nat /\ Len(markers) \in Nat
      /\ Base(1) = 0 /\ top = Len(markers) + 1
      /\ content[top] = pos - Base(top)
      /\ \A k \in 1 .. top : Base(k) \in Nat /\ content[k] \in Nat
      /\ \A k \in 1 .. top - 1 : content[k] = Base(k + 1) - Reserved - Base(k)
  BY ContentBetweenBases DEF WriterInv, WriterType
<1>3. /\ \A k \in 1 .. top :
           c[k] = IF k = top THEN content[k] + n ELSE content[k] + TlvBytes(c[k + 1])
  BY <1>1 DEF Closes
<1> HIDE DEF top
<1> DEFINE Bound(j) == j < top => /\ c[top - j] \in Nat
                                  /\ pos + n <= c[top - j] + Base(top - j) + 2 * j
           S == {j \in Nat : Bound(j)}
<1>4. 0 \in S
  <2>1. top - 0 = top /\ top \in 1 .. top
    BY <1>2
  <2>2. c[top] = content[top] + n /\ content[top] \in Nat /\ Base(top) \in Nat
    BY <1>2, <1>3, <2>1
  <2>3. c[top] \in Nat /\ pos + n <= c[top] + Base(top) + 2 * 0
    BY <1>2, <2>2
  <2> QED
    BY <2>1, <2>3
<1>5. ASSUME NEW j \in Nat, j \in S PROVE j + 1 \in S
  <2> SUFFICES ASSUME j + 1 < top PROVE Bound(j + 1)
    OBVIOUS
  <2> DEFINE k == top - (j + 1)
  <2>1. k \in 1 .. top - 1 /\ k \in 1 .. top /\ k # top /\ k + 1 = top - j /\ k + 1 \in 1 .. top
    BY <1>2
  <2>2. c[k + 1] \in Nat /\ pos + n <= c[k + 1] + Base(k + 1) + 2 * j
    BY <1>5, <1>2, <2>1
  <2> HIDE DEF k
  <2>3. c[k] = content[k] + TlvBytes(c[k + 1])
    BY <1>3, <2>1
  <2>4. /\ content[k] = Base(k + 1) - 4 - Base(k) /\ content[k] \in Nat
        /\ Base(k) \in Nat /\ Base(k + 1) \in Nat
    BY <1>2, <2>1 DEF Reserved
  <2>5. TlvBytes(c[k + 1]) \in Nat /\ c[k + 1] + 2 <= TlvBytes(c[k + 1])
    BY <2>2, TlvSize
  <2>6. pos \in Nat
    BY <1>2
  <2>7. c[k] \in Nat /\ c[k] = Base(k + 1) - 4 - Base(k) + TlvBytes(c[k + 1])
    BY <2>3, <2>4, <2>5
  <2>8. pos + n <= c[k] + Base(k) + 2 * (j + 1)
    <3>1. c[k + 1] + Base(k + 1) + 2 * j <= c[k] + Base(k) + 2 * (j + 1)
      BY <2>2, <2>4, <2>5, <2>7
    <3> QED
      BY <2>2, <2>4, <2>6, <2>7, <3>1
  <2> QED
    BY <2>7, <2>8 DEF k
<1>6. Nat \subseteq S
  <2> HIDE DEF S
  <2> QED
    BY <1>4, <1>5, SetInduction
<1>7. top - 1 \in Nat /\ top - 1 < top /\ top - (top - 1) = 1
  BY <1>2
<1>8. c[1] \in Nat /\ pos + n <= c[1] + Base(1) + 2 * (top - 1)
  <2>1. Bound(top - 1)
    BY <1>6, <1>7
  <2> HIDE DEF S
  <2> QED
    BY <1>7, <2>1
<1> QED
  BY <1>1, <1>2, <1>8

-----------------------------------------------------------------------------
\* A put that fails did not fit in the buffer, or it fails for a new window.
LEMMA FailingIsForWindows ==
  ASSUME WriterInv, ~failed, NEW at, NEW n \in Nat, FailsAt(at, n), pos + n + 2 > Cap
  PROVE  FailsOnlyForWindows'
<1>1. UNCHANGED <<markers, content>> /\ wanted' = n
  BY DEF FailsAt
<1>2. ClosedAfter(wanted)' = ClosedAfter(n)
  BY <1>1 DEF ClosedAfter
<1>3. ClosedAfter(n) \in Nat /\ pos + n <= ClosedAfter(n) + 2 * Len(markers)
  BY WindowCost
<1>4. pos \in Nat /\ Len(markers) \in Nat
  BY DEF WriterInv, WriterType
<1> QED
  BY <1>1, <1>2, <1>3, <1>4, WriterAssumption DEF FailsOnlyForWindows

\* Every step keeps the invariant, and fails only for the windows.
LEMMA WriterStep ==
  ASSUME WriterInv, Next
  PROVE  WriterInv' /\ FailsOnlyForWindows'
<1> DEFINE Goal == WriterInv' /\ FailsOnlyForWindows'
<1>1. pos \in Nat /\ pos <= Cap /\ Cap \in Nat
  BY WriterAssumption DEF WriterInv, WriterType, StaysInBuffer
<1>2. ASSUME NEW n \in Nat, ~failed, Wrote(n), pos + n <= Cap PROVE Goal
  <2>1. ~failed'
    BY <1>2 DEF Wrote
  <2> QED
    BY <1>2, <2>1, WroteKeepsInv DEF FailsOnlyForWindows
<1>3. ASSUME NEW at \in Nat, NEW n \in Nat, ~failed, FailsAt(at, n),
             pos <= at, at <= Cap, pos + n + 2 > Cap
      PROVE  Goal
  BY <1>3, FailingKeepsInv, FailingIsForWindows
<1>4. ASSUME NEW n \in Nat, putBytes(n) \/ putByteByByte(n) PROVE Goal
  <2>1. CASE pos + n > Cap
    <3>1. ~failed /\ (FailsAt(pos, n) \/ FailsAt(Cap, n))
      BY <1>4, <2>1 DEF putBytes, putByteByByte
    <3>2. pos + n + 2 > Cap /\ pos <= pos /\ Cap <= Cap
      BY <1>1, <2>1
    <3> HIDE DEF Goal
    <3> QED
      BY <1>1, <1>3, <3>1, <3>2
  <2>2. CASE ~ (pos + n > Cap)
    <3>1. ~failed /\ Wrote(n)
      BY <1>4, <2>2 DEF putBytes, putByteByByte
    <3>2. pos + n <= Cap
      BY <1>1, <2>2
    <3> HIDE DEF Goal
    <3> QED
      BY <1>2, <3>1, <3>2
  <2> QED
    BY <2>1, <2>2
<1>5. ASSUME NEW len \in Nat, putTLV(len) PROVE Goal
  <2> DEFINE headerLen == 2 + (IF len >= 256 THEN 1 ELSE 0)
             header == TlvBytes(len) - len
  <2>1. /\ ~failed
        /\ IF pos + headerLen + len > Cap THEN FailsAt(pos, TlvBytes(len))
           ELSE IF pos + TlvBytes(len) > Cap THEN FailsAt(Smaller(pos + header, Cap), TlvBytes(len))
           ELSE Wrote(TlvBytes(len))
    BY <1>5 DEF putTLV
  <2>2. headerLen \in Nat /\ headerLen + len <= TlvBytes(len) /\ TlvBytes(len) \in Nat
    BY DEF TlvBytes, LengthBytes
  <2>3. header \in Nat
    BY TlvSize
  <2> HIDE DEF headerLen, header
  <2>4. CASE pos + headerLen + len > Cap
    <3>1. pos + TlvBytes(len) + 2 > Cap /\ pos <= pos
      BY <1>1, <2>2, <2>4
    <3> HIDE DEF Goal
    <3> QED
      BY <1>1, <1>3, <2>1, <2>2, <2>4, <3>1
  <2>5. CASE ~ (pos + headerLen + len > Cap) /\ pos + TlvBytes(len) > Cap
    <3> DEFINE at == Smaller(pos + header, Cap)
    <3>1. at \in Nat /\ pos <= at /\ at <= Cap
      BY <1>1, <2>3 DEF Smaller
    <3>2. pos + TlvBytes(len) + 2 > Cap
      BY <1>1, <2>2, <2>5
    <3>3. ~failed /\ FailsAt(at, TlvBytes(len))
      BY <2>1, <2>5
    <3> HIDE DEF Goal, at
    <3> QED
      BY <1>3, <2>2, <3>1, <3>2, <3>3
  <2>6. CASE ~ (pos + headerLen + len > Cap) /\ ~ (pos + TlvBytes(len) > Cap)
    <3>1. pos + TlvBytes(len) <= Cap
      BY <1>1, <2>2, <2>6
    <3> HIDE DEF Goal
    <3> QED
      BY <1>2, <2>1, <2>2, <2>6, <3>1
  <2> QED
    BY <2>4, <2>5, <2>6
<1>6. CASE beginScope
  <2>1. WriterInv'
    BY <1>6, BeginKeepsInv
  <2>2. CASE pos + Reserved > Cap
    <3>1. ~failed /\ FailsAt(pos, TlvBytes(0))
      BY <1>6, <2>2 DEF beginScope
    <3>2. TlvBytes(0) = 2
      BY DEF TlvBytes, LengthBytes
    <3>3. pos + TlvBytes(0) + 2 > Cap /\ TlvBytes(0) \in Nat
      BY <1>1, <2>2, <3>2 DEF Reserved
    <3> QED
      BY <2>1, <3>1, <3>3, FailingIsForWindows
  <2>3. CASE ~ (pos + Reserved > Cap)
    <3>1. ~failed'
      BY <1>6, <2>3 DEF beginScope
    <3> QED
      BY <2>1, <3>1 DEF FailsOnlyForWindows
  <2> QED
    BY <2>2, <2>3
<1>7. CASE endScope
  <2>1. ~failed'
    BY <1>7 DEF endScope
  <2> QED
    BY <1>7, <2>1, EndKeepsInv DEF FailsOnlyForWindows
<1>8. TlvBytes(4) \in Nat /\ TlvBytes(0) \in Nat /\ Lengths \subseteq Nat
  BY TlvSize, WriterAssumption
<1> HIDE DEF Goal
<1>9. Goal
  <2>1. \A n \in Lengths : n \in Nat
    BY <1>8
  <2>2. CASE \E n \in Lengths : putBytes(n) \/ putTLV(n)
    BY <1>4, <1>5, <2>1, <2>2
  <2>3. CASE putInteger \/ putNull
    BY <1>4, <1>8, <2>3 DEF putInteger, putNull
  <2>4. CASE beginScope \/ endScope
    BY <1>6, <1>7, <2>4 DEF Goal
  <2> QED
    BY <2>2, <2>3, <2>4 DEF Next
<1> QED
  BY <1>9 DEF Goal

\* The first state has an empty buffer, no open scope and no failure.
LEMMA WriterInit == Init => WriterInv /\ FailsOnlyForWindows
<1> SUFFICES ASSUME Init PROVE WriterInv /\ FailsOnlyForWindows
  OBVIOUS
<1>1. pos = 0 /\ ~failed /\ failed \in BOOLEAN /\ wanted = 0
  BY DEF Init
<1>2. /\ Len(markers) = 0 /\ Len(content) = 1 /\ content[1] = 0
      /\ markers \in Seq(Nat) /\ content \in Seq(Nat)
  <2>1. markers = <<>> /\ content = <<0>>
    BY DEF Init
  <2> QED
    BY <2>1
<1>3. WriterType
  BY <1>1, <1>2 DEF WriterType
<1>4. StaysInBuffer /\ FailsOnlyForWindows
  <2>1. pos <= Cap
    BY <1>1, WriterAssumption
  <2>2. 1 .. Len(markers) = {}
    BY <1>2
  <2> QED
    BY <1>1, <2>1, <2>2 DEF StaysInBuffer, FailsOnlyForWindows
<1>5. LengthIsExact
  BY <1>1, <1>2 DEF LengthIsExact
<1> QED
  BY <1>3, <1>4, <1>5 DEF WriterInv

\* The inductive invariant holds in every state of the writer.
THEOREM WriterInvHolds == Spec => [](WriterInv /\ FailsOnlyForWindows)
<1>1. WriterInv /\ FailsOnlyForWindows /\ [Next]_vars => WriterInv' /\ FailsOnlyForWindows'
  <2>1. ASSUME WriterInv, FailsOnlyForWindows, UNCHANGED vars
        PROVE  WriterInv' /\ FailsOnlyForWindows'
    BY <2>1 DEF vars, WriterInv, WriterType, StaysInBuffer, LengthIsExact,
                FailsOnlyForWindows, ClosedAfter
  <2> QED
    BY <2>1, WriterStep
<1> QED
  BY <1>1, WriterInit, PTL DEF Spec

\* putBytes(), putTLV() and endScope() never write outside the buffer, for any
\* capacity and any nesting.
THEOREM CursorStaysInBuffer == Spec => []StaysInBuffer
<1>1. WriterInv => StaysInBuffer
  BY DEF WriterInv
<1> QED
  BY <1>1, WriterInvHolds, PTL

\* length() is the length of the encoding of what was put, plus a window for
\* each scope that is still open.
THEOREM LengthOfWhatWasPut == Spec => []LengthIsExact
<1>1. WriterInv => LengthIsExact
  BY DEF WriterInv
<1> QED
  BY <1>1, WriterInvHolds, PTL

\* A message that fits is refused only when it comes within the windows of its
\* open scopes of the end of the buffer.
THEOREM RefusalsAreForWindows == Spec => []FailsOnlyForWindows
BY WriterInvHolds, PTL

-----------------------------------------------------------------------------
(* The codec and the writer.                                                *)

(***************************************************************************)
(* The sizes that BerWriter counts, from the header lengths of             *)
(* putTLVHeader() and endScope(), are those of the bytes that serialise()  *)
(* of the container classes writes: a value takes the same room on both    *)
(* paths, for every tag and every content below 65536 bytes.               *)
(***************************************************************************)
THEOREM WriterCountsTheBytes ==
  ASSUME NEW tag \in Byte, NEW data \in Seq(Byte), Len(data) \div 256 \in Byte
  PROVE  Len(Tlv(tag, data)) = TlvBytes(Len(data))
<1> DEFINE n == Len(data)
           e == EncodeLength(n)
<1>1. n \in Nat /\ n \div 256 \in Byte
  OBVIOUS
<1>2. e \in Seq(Nat) /\ Len(e) = LengthBytes(n)
  <2> HIDE DEF n
  <2>1. CASE n < 128
    <3>1. <<n>> \in Seq(Nat) /\ Len(<<n>>) = 1
      BY <1>1
    <3> QED
      BY <2>1, <3>1 DEF EncodeLength, LengthBytes
  <2>2. CASE ~(n < 128) /\ n < 256
    <3>1. <<129, n>> \in Seq(Nat) /\ Len(<<129, n>>) = 2
      BY <1>1
    <3> QED
      BY <2>2, <3>1 DEF EncodeLength, LengthBytes
  <2>3. CASE ~(n < 128) /\ ~(n < 256)
    <3> DEFINE hi == (n \div 256) % 256
               lo == n % 256
    <3>1. hi \in Byte /\ lo \in Byte
      BY <1>1, TwoBytes
    <3>2. hi \in Nat /\ lo \in Nat
      BY <3>1, ByteIsNat
    <3>3. EncodeLength(n) = <<130, hi, lo>>
      BY <2>3 DEF EncodeLength
    <3> HIDE DEF hi, lo
    <3>4. <<130, hi, lo>> \in Seq(Nat) /\ Len(<<130, hi, lo>>) = 3
      BY <3>2
    <3> QED
      BY <2>3, <3>3, <3>4 DEF LengthBytes
  <2> QED
    BY <2>1, <2>2, <2>3
<1>3. Tlv(tag, data) = (<<tag>> \o e) \o data
  BY DEF Tlv
<1>4. <<tag>> \in Seq(Nat) /\ Len(<<tag>>) = 1 /\ data \in Seq(Nat)
  <2>1. tag \in Nat
    BY ByteIsNat
  <2>2. data = [i \in 1 .. n |-> data[i]] /\ \A i \in 1 .. n : data[i] \in Byte
    OBVIOUS
  <2>3. \A i \in 1 .. n : data[i] \in Nat
    BY <2>2, ByteIsNat
  <2>4. data \in Seq(Nat)
    BY <1>1, <2>2, <2>3
  <2> QED
    BY <2>1, <2>4
<1> HIDE DEF e
<1>5. <<tag>> \o e \in Seq(Nat) /\ Len(<<tag>> \o e) = 1 + LengthBytes(n)
  BY <1>2, <1>4
<1> DEFINE head == <<tag>> \o e
<1>6. head \in Seq(Nat) /\ Len(head) = 1 + LengthBytes(n)
  BY <1>5
<1> HIDE DEF head
<1>7. Len(head \o data) = Len(head) + Len(data)
  BY <1>4, <1>6
<1>8. Len(Tlv(tag, data)) = 1 + LengthBytes(n) + n
  BY <1>3, <1>6, <1>7 DEF head
<1> QED
  BY <1>8 DEF TlvBytes
==============================================================================
