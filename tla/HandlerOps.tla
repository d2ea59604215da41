----------------------------- MODULE HandlerOps -----------------------------
(***************************************************************************)
(* The handler table of an agent as pure operators: how an OID becomes the *)
(* bytes handlers are matched by, how two OIDs are ordered, and how the    *)
(* handler that answers a request is found.  A table is the sequence of    *)
(* registered handlers, callbacks[0 .. callbacksCount - 1] in the code;    *)
(* positions here start at 1 and 0 stands for nullptr.                     *)
(*                                                                         *)
(* An OID .1.3.a.b. ... is given as its arcs <<a, b, ...>>.                *)
(***************************************************************************)
EXTENDS Integers, FiniteSets, SequencesExt

CONSTANTS
  Handler,        \* the ValueCallback objects a sketch may register
  Arcs            \* Arcs[h]: the sub-identifiers of h's OID after .1.3

FirstByte == 43   \* 0x2b, the encoding of .1.3

\* what a 32-bit long holds: strtol() makes no larger sub-identifier
LongMax == 2147483647

ASSUME ArcsAssumption == Arcs \in [Handler -> Seq(0 .. LongMax)]

-----------------------------------------------------------------------------
(* Base-128 encoding: all but the last byte of a sub-identifier carry 0x80. *)

\* recurse_longform(): the bytes before the last one, most significant first
Longform(arc) ==
  LET bytes[n \in 0 .. arc] ==
        IF n < 128 THEN <<>>
        ELSE Append(bytes[n \div 128], 128 + ((n \div 128) % 128))
  IN  bytes[arc]

\* encode_ber_longform_integer(), written after the bytes before it
AddArc(data, arc) == data \o Longform(arc) \o <<arc % 128>>

EncodeOid(arcs) == FoldLeft(AddArc, <<FirstByte>>, arcs)

ReadByte(read, byte) ==
  IF byte >= 128 THEN [read EXCEPT !.acc = @ * 128 + (byte - 128)]
  ELSE [subs |-> Append(read.subs, read.acc * 128 + byte), acc |-> 0]

\* the sub-identifiers a comparison reads back, .1.3 being the single one 43
SubIds(data) == FoldLeft(ReadByte, [subs |-> <<>>, acc |-> 0], data).subs

\* the order of the MIB: the first difference decides, an ancestor comes first
LexLess(a, b) ==
  \/ IsStrictPrefix(a, b)
  \/ \E i \in DOMAIN a \cap DOMAIN b :
        a[i] < b[i] /\ \A j \in 1 .. i - 1 : a[j] = b[j]

\* Mutant: the encoded bytes are compared.
sort_bytes(data1, data2) == LexLess(data1, data2)

sort_oids(data1, data2) == LexLess(SubIds(data1), SubIds(data2))

\* Data[h]: the encoded bytes of h's OID
Data == [h \in Handler |-> EncodeOid(Arcs[h])]

\* compare_callbacks(): the comparison std::sort is given
compare_callbacks ==
  [g \in Handler |-> [h \in Handler |-> sort_oids(Data[g], Data[h])]]

\* data1 lies strictly below data2; both are compared as bytes
isSubTreeOf(data1, data2) == IsStrictPrefix(data2, data1)

-----------------------------------------------------------------------------
(* Finding the handler that answers for an OID.                             *)

Least(S) == CHOOSE i \in S : \A j \in S : i <= j

\* the hit both scans return: an exact hit of a walk ("useNext") gives way to
\* the handler after it
Answerer(table, oid, walk, first) ==
  IF ~(walk /\ Data[table[first]] = oid) THEN first
  ELSE IF first < Len(table) THEN first + 1
  ELSE 0

FirstHit(table, oid, walk, hits) ==
  IF hits = {} THEN 0 ELSE Answerer(table, oid, walk, Least(hits))

OidMatches(data, oid, walk) == data = oid \/ (walk /\ isSubTreeOf(data, oid))

\* findCallback(), on the OID object of a request
findCallback(table, oid, walk, startAt) ==
  FirstHit(table, oid, walk,
    {i \in startAt .. Len(table) : OidMatches(Data[table[i]], oid, walk)})

\* Mutant: a walk from above a handler finds nothing.
SliceMatchesExact(data, slice, walk) == data = slice

\* memcmp() of a handler's bytes over the length of the slice
SliceMatches(data, slice, walk) ==
  /\ Len(data) = Len(slice) \/ (walk /\ Len(data) > Len(slice))
  /\ SubSeq(data, 1, Len(slice)) = slice

\* its twin on a slice of the packet buffer
findCallbackForSlice(table, slice, walk, startAt) ==
  FirstHit(table, slice, walk,
    {i \in startAt .. Len(table) : SliceMatches(Data[table[i]], slice, walk)})

-----------------------------------------------------------------------------
(* Changing the table.                                                      *)

\* remove_handler(): the handlers after the removed one move up
remove_handler(table, h) == RemoveFirst(table, h)

Precedes(g, h) == compare_callbacks[g][h]

InOrder(table) ==
  \A i, j \in 1 .. Len(table) : i < j => ~Precedes(table[j], table[i])

\* Mutant: the range given to std::sort ends before the last handler.
sort_but_last(table) ==
  {t \in [DOMAIN table -> ToSet(table)] :
     ToSet(t) = ToSet(table) /\ InOrder(Front(t)) /\ Last(t) = Last(table)}

\* what std::sort may make of a table: it leaves equal OIDs in any order
sort_handlers(table) ==
  {t \in [DOMAIN table -> ToSet(table)] : ToSet(t) = ToSet(table) /\ InOrder(t)}
=============================================================================
