------------------------------ MODULE BerWriter ------------------------------
(***************************************************************************)
(* BerWriter of BERView.h: TLVs written one after another into a buffer of *)
(* Cap bytes.  A scope reserves four bytes for its header when it is       *)
(* opened; when it is closed the length is filled in and the content moves *)
(* left over what the header did not need.  Only lengths are modelled.     *)
(*                                                                         *)
(* "content" and "wanted" are history: the length, in the final encoding,  *)
(* of what each open scope holds, and of the put that failed.              *)
(***************************************************************************)
EXTENDS Integers, Sequences

CONSTANTS
  Cap,          \* the capacity of the buffer, MAX_SNMP_PACKET_LENGTH
  Lengths,      \* the content lengths of the TLVs a caller writes
  MaxDepth      \* how deep a caller nests scopes

ASSUME WriterAssumption ==
  Cap \in Nat /\ Lengths \subseteq Nat /\ MaxDepth \in Nat \ {0}

VARIABLES
  pos,          \* bytes written so far
  failed,       \* sticky: a put did not fit
  markers,      \* the pos of each open scope's Marker, the outermost first
  content,      \* content[k + 1]: final length of what marker k's scope holds,
                \* content[1] that of the message
  wanted        \* final length of what failed
vars == <<pos, failed, markers, content, wanted>>

\* the bytes a length takes in a header: short, 0x81 or 0x82 form
LengthBytes(n) == IF n < 128 THEN 1 ELSE IF n < 256 THEN 2 ELSE 3

TlvBytes(n) == 1 + LengthBytes(n) + n

\* Mutant: room for four length bytes.
ReservedForFour == 6

Reserved == 4   \* the header window of a scope

Smaller(a, b) == IF a <= b THEN a ELSE b

-----------------------------------------------------------------------------
(* A put that fits is one more TLV in the innermost scope.                  *)

Wrote(n) ==
  /\ pos' = pos + n
  /\ content' = [content EXCEPT ![Len(content)] = @ + n]
  /\ UNCHANGED <<failed, markers, wanted>>

\* it fails with pos left at "at"
FailsAt(at, n) ==
  /\ pos' = at /\ failed' = TRUE /\ wanted' = n
  /\ UNCHANGED <<markers, content>>

\* putBytes(): all of the bytes or none
putBytes(n) ==
  /\ ~failed
  /\ IF pos + n > Cap THEN FailsAt(pos, n) ELSE Wrote(n)

\* putInteger() and putNull(): byte after byte, until one does not fit
putByteByByte(n) ==
  /\ ~failed
  /\ IF pos + n > Cap THEN FailsAt(Cap, n) ELSE Wrote(n)

putInteger == putByteByByte(TlvBytes(4))
putNull == putByteByByte(TlvBytes(0))

\* Mutant: the check at the start is trusted for every byte that follows.
putTLVTrusting(len) ==
  LET headerLen == 2 + (IF len >= 256 THEN 1 ELSE 0)
  IN  /\ ~failed
      /\ IF pos + headerLen + len > Cap THEN FailsAt(pos, TlvBytes(len)) ELSE Wrote(TlvBytes(len))

\* putTLV(): a check that takes every header for one byte less than it has
\* from 0x80 on, then the header byte by byte, then the content
putTLV(len) ==
  LET headerLen == 2 + (IF len >= 256 THEN 1 ELSE 0)
      header    == TlvBytes(len) - len
  IN  /\ ~failed
      /\ IF pos + headerLen + len > Cap THEN FailsAt(pos, TlvBytes(len))
         ELSE IF pos + TlvBytes(len) > Cap THEN FailsAt(Smaller(pos + header, Cap), TlvBytes(len))
         ELSE Wrote(TlvBytes(len))

beginScope ==
  /\ ~failed /\ Len(markers) < MaxDepth
  /\ IF pos + Reserved > Cap
     THEN FailsAt(pos, TlvBytes(0))
     ELSE /\ pos' = pos + Reserved
          /\ markers' = Append(markers, pos)
          /\ content' = Append(content, 0)
          /\ UNCHANGED <<failed, wanted>>

\* Mutant: the content moves left and the cursor stays.
endScopeUnmoved ==
  LET innermost == Len(markers)
      closed    == SubSeq(content, 1, innermost)
  IN  /\ ~failed /\ markers # <<>>
      /\ markers' = SubSeq(markers, 1, innermost - 1)
      /\ content' = [closed EXCEPT ![innermost] = @ + TlvBytes(content[innermost + 1])]
      /\ UNCHANGED <<pos, failed, wanted>>

\* the scope's content is measured in the buffer, not taken from the history
endScope ==
  LET innermost  == Len(markers)
      contentLen == pos - markers[innermost] - Reserved
      closed     == SubSeq(content, 1, innermost)
  IN  /\ ~failed /\ markers # <<>>
      /\ pos' = pos - (Reserved - 1 - LengthBytes(contentLen))
      /\ markers' = SubSeq(markers, 1, innermost - 1)
      /\ content' = [closed EXCEPT ![innermost] = @ + TlvBytes(content[innermost + 1])]
      /\ UNCHANGED <<failed, wanted>>

Init ==
  /\ pos = 0 /\ failed = FALSE
  /\ markers = <<>> /\ content = <<0>> /\ wanted = 0

Next ==
  \/ \E n \in Lengths : putBytes(n) \/ putTLV(n)
  \/ putInteger
  \/ putNull
  \/ beginScope
  \/ endScope

Spec == Init /\ [][Next]_vars

-----------------------------------------------------------------------------
(* Properties.                                                              *)

\* the length of the message if every open scope were closed after n more bytes
ClosedAfter(n) ==
  LET close[k \in 1 .. Len(content)] ==
        IF k = Len(content) THEN content[k] + n
        ELSE content[k] + TlvBytes(close[k + 1])
  IN  close[1]

(***************************************************************************)
(* The cursor never leaves the buffer, also after the content of a scope   *)
(* has been moved, and a scope's window lies before it: base[pos++] and    *)
(* the memmove of endScope() stay inside what the caller handed over.      *)
(***************************************************************************)
StaysInBuffer ==
  /\ pos <= Cap
  /\ \A k \in 1 .. Len(markers) : markers[k] + Reserved <= pos
  /\ \A j, k \in 1 .. Len(markers) : j < k => markers[j] + Reserved <= markers[k]

(***************************************************************************)
(* length() is exact: while nothing has failed, the buffer holds what the  *)
(* caller wrote, with a four-byte window for each scope still open, and    *)
(* exactly its encoding once all scopes are closed.                        *)
(***************************************************************************)
LengthIsExact ==
  ~failed =>
    \A k \in 1 .. Len(content) :
      content[k] =
        (IF k > Len(markers) THEN pos ELSE markers[k])
          - (IF k = 1 THEN 0 ELSE markers[k - 1] + Reserved)

(***************************************************************************)
(* A put fails although the message would have fitted only for the windows *)
(* of the scopes that are open: two bytes each, and two for one that is    *)
(* being opened.  That close is the tooBig answer to being "genuinely      *)
(* true", as the comment of the class has it.                              *)
(***************************************************************************)
FailsOnlyForWindows ==
  failed => ClosedAfter(wanted) + 2 * Len(markers) + 2 > Cap

=============================================================================
