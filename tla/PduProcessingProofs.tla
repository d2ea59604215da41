------------------------ MODULE PduProcessingProofs ------------------------
(***************************************************************************)
(* Theorems of PduProcessing, for every table of handlers, every request   *)
(* and every value the handlers hold.                                      *)
(*                                                                         *)
(* First what the callbacks and the look-ups return; then the plan of the  *)
(* in-place path, which carries its own correctness from one varbind to    *)
(* the next; then the two paths side by side, one varbind at a time, which *)
(* makes their outcomes equal; then what a SET leaves behind; then the     *)
(* ticks.  MibWalkProofs has the lemmas about OIDs that are used here.     *)
(***************************************************************************)
EXTENDS PduProcessing, MibWalkProofs

-----------------------------------------------------------------------------
(* What the operators work on.                                              *)

\* The types of what a handler answers with.
AnswerTypes == {"INTEGER", "STRING", "OPAQUE", "COUNTER32", "OID"}

\* A value, one of the rows of a response, and what the handlers hold: a string
\* is shorter than the buffer it stands in.
Value ==
  [type : AnswerTypes \cup {"NULL", "NOSUCHOBJECT", "ENDOFMIBVIEW", "nullptr"}, v : Nat]

Row == [oid : Seq(Nat), val : Value]

Held == {f \in [Handler -> Nat] : \A h \in Handler : Class[h] = "string" => f[h] < MaxLen}

States == [value : Held, flag : [Handler -> BOOLEAN]]

\* The numbers a varbind carries; a text is no longer than what it came in.
LEMMA VarBindFields ==
  ASSUME NEW vb \in VarBind
  PROVE  /\ vb.oid \in Seq(Nat) /\ vb.v \in Nat /\ vb.len \in Nat /\ vb.slot \in Nat
         /\ vb.type = "STRING" => vb.v <= vb.len
BY DEF VarBind

\* The fields of a request and of a varbind.
LEMMA RequestFields ==
  ASSUME NEW req \in Request
  PROVE  /\ Len(req.vbs) \in Nat /\ DOMAIN req.vbs = 1 .. Len(req.vbs)
         /\ req.vbs \in Seq(VarBind)
         /\ \A i \in 1 .. Len(req.vbs) :
              req.vbs[i] \in VarBind /\ req.vbs[i].oid \in Seq(Nat) /\ req.vbs[i].v \in Nat
         /\ req.version \in Nat /\ req.maxRepetitions \in Nat /\ req.nonRepeaters \in Nat
<1>1. /\ req.vbs \in Seq(VarBind) /\ req.version \in Nat
      /\ req.maxRepetitions \in Nat /\ req.nonRepeaters \in Nat
  BY DEF Request
<1>2. ASSUME NEW i \in 1 .. Len(req.vbs) PROVE req.vbs[i] \in VarBind
  BY <1>1
<1>3. ASSUME NEW vb \in VarBind PROVE vb.oid \in Seq(Nat) /\ vb.v \in Nat
  BY VarBindFields
<1>4. Len(req.vbs) \in Nat /\ DOMAIN req.vbs = 1 .. Len(req.vbs)
  BY <1>1
<1> QED
  BY <1>1, <1>2, <1>3, <1>4

\* The six classes of callback and the types they answer with.
LEMMA Classes ==
  ASSUME NEW h \in Handler
  PROVE  /\ Class[h] \in {"integer", "fixed", "string", "opaque", "counter", "badoid"}
         /\ TypeOf[Class[h]] \in AnswerTypes
<1>1. Class[h] \in DOMAIN TypeOf
  BY PduAssumption
<1>2. DOMAIN TypeOf = {"integer", "fixed", "string", "opaque", "counter", "badoid"}
  BY DEF TypeOf
<1>3. ASSUME NEW c \in DOMAIN TypeOf PROVE TypeOf[c] \in AnswerTypes
  BY DEF TypeOf, AnswerTypes
<1> QED
  BY <1>1, <1>2, <1>3

\* What stands in the fields of the handlers' state.
LEMMA StateFields ==
  ASSUME NEW st \in States, NEW h \in Handler
  PROVE  /\ st.value[h] \in Nat /\ st.flag[h] \in BOOLEAN
         /\ st.value \in Held /\ st.flag \in [Handler -> BOOLEAN]
         /\ st.value \in [Handler -> Nat]
BY DEF States, Held

\* The values that are answered without a handler are values, and different.
LEMMA Exceptions ==
  /\ Null \in Value /\ NoSuchObject \in Value /\ EndOfMibView \in Value /\ Nullptr \in Value
  /\ NoSuchObject # Null /\ EndOfMibView # Null /\ Nullptr # Null
BY DEF Null, NoSuchObject, EndOfMibView, Nullptr, Value, AnswerTypes

\* A handler answers with a value, never with Null.
LEMMA AnswersValue ==
  ASSUME NEW h \in Handler, NEW st \in States
  PROVE  getValueForCallback(h, st) \in Value /\ getValueForCallback(h, st) # Null
<1> DEFINE type == TypeOf[Class[h]]
           v == st.value[h]
<1>1. type \in AnswerTypes /\ v \in Nat
  BY Classes, StateFields
<1> HIDE DEF type, v
<1>2. [type |-> type, v |-> v] \in Value
  BY <1>1 DEF Value
<1>3. [type |-> type, v |-> v] # Null
  BY <1>1 DEF Null, AnswerTypes
<1> QED
  BY <1>2, <1>3, Exceptions DEF getValueForCallback, type, v

\* The errors of SETs are numbers, and none becomes noError on its way out.
LEMMA ErrorCodes ==
  ASSUME NEW version \in Nat
  PROVE  /\ NO_ERROR = 0 /\ NO_ERROR \in Nat
         /\ GEN_ERR \in Nat \ {0} /\ TOO_BIG \in Nat \ {0} /\ NO_ACCESS \in Nat \ {0}
         /\ \A e \in Nat \ {0} : SNMP_ERROR_VERSION_CTRL(e, version) \in Nat \ {0}
         /\ \A e \in Nat \ {0}, f \in Nat \ {0} :
              SNMP_ERROR_VERSION_CTRL_DEF(e, version, f) \in Nat \ {0}
         /\ {NOT_WRITABLE, NO_SUCH_NAME, WRONG_TYPE, BAD_VALUE, READ_ONLY} \subseteq Nat \ {0}
BY DEF NO_ERROR, GEN_ERR, TOO_BIG, NO_ACCESS, NOT_WRITABLE, NO_SUCH_NAME, WRONG_TYPE,
       BAD_VALUE, READ_ONLY, SNMP_ERROR_VERSION_CTRL, SNMP_ERROR_VERSION_CTRL_DEF

\* What setTypeWithValue() of a class decides and stores: a text shorter than its
\* buffer, and the value asked for if that came whole.
LEMMA SetErrors ==
  ASSUME NEW h \in Handler, NEW vb \in VarBind, TypeOf[Class[h]] = vb.type
  PROVE  /\ SetError(h, vb) \in Nat /\ Copied(h, vb) \in Nat
         /\ Class[h] = "badoid" => SetError(h, vb) # NO_ERROR
         /\ Class[h] = "string" /\ SetError(h, vb) = NO_ERROR => Copied(h, vb) < MaxLen
         /\ Whole(vb) => Copied(h, vb) = vb.v
<1>1. /\ Class[h] \in {"integer", "fixed", "string", "opaque", "counter", "badoid"}
      /\ MaxLen \in Nat /\ DataLen \in Nat
  BY Classes, PduAssumption
<1>2. /\ vb.v \in Nat /\ vb.len \in Nat /\ vb.slot \in Nat
      /\ vb.type = "STRING" => vb.v <= vb.len
  BY VarBindFields
<1>3. /\ Class[h] = "string" => vb.type = "STRING"
      /\ Class[h] = "opaque" => vb.type = "OPAQUE"
  BY DEF TypeOf
<1>4. SetError(h, vb) \in Nat /\ (Class[h] = "badoid" => SetError(h, vb) # NO_ERROR)
  BY <1>1, <1>2 DEF SetError, NO_ERROR, NO_ACCESS, WRONG_LENGTH
<1>5. Class[h] = "string" /\ SetError(h, vb) = NO_ERROR => vb.len < MaxLen
  BY <1>1, <1>2 DEF SetError, NO_ERROR, WRONG_LENGTH
<1>6. Copied(h, vb) \in Nat /\ (Class[h] # "opaque" => Copied(h, vb) = vb.v)
  BY <1>2 DEF Copied
<1>7. Class[h] = "string" /\ SetError(h, vb) = NO_ERROR => Copied(h, vb) < MaxLen
  BY <1>1, <1>2, <1>3, <1>5, <1>6
<1>8. Class[h] = "opaque" /\ Whole(vb) => Copied(h, vb) = vb.v
  <2>1. Class[h] = "opaque" /\ Whole(vb) => vb.len = DataLen
    BY <1>3 DEF Whole
  <2> QED
    BY <1>1, <2>1 DEF Copied
<1> QED
  BY <1>4, <1>6, <1>7, <1>8

\* What a SET of a settable handler changes, and that nothing else does.
LEMMA SetEffect ==
  ASSUME NEW h \in Handler, NEW vb \in VarBind, NEW st \in States,
         TypeOf[Class[h]] = vb.type
  PROVE  LET after == setValueForCallback(h, vb, st)
         IN  /\ after \in States
             /\ \A g \in Handler : g # h => /\ after.value[g] = st.value[g]
                                            /\ after.flag[g] = st.flag[g]
             /\ h \notin Settable => after = st
             /\ h \in Settable =>
                  /\ after.value[h] = IF SetError(h, vb) = NO_ERROR THEN Copied(h, vb) ELSE st.value[h]
                  /\ after.flag[h] = Flagged(h, vb, st)
<1> DEFINE after == setValueForCallback(h, vb, st)
           stored == IF SetError(h, vb) = NO_ERROR
                     THEN [st.value EXCEPT ![h] = Copied(h, vb)] ELSE st.value
           flags == [st.flag EXCEPT ![h] = Flagged(h, vb, st)]
<1>1. CASE h \notin Settable
  <2>1. after = st
    BY <1>1 DEF setValueForCallback
  <2> QED
    BY <1>1, <2>1
<1>2. CASE h \in Settable
  <2>1. after = [value |-> stored, flag |-> flags]
    BY <1>2 DEF setValueForCallback
  <2>2. after.value = stored /\ after.flag = flags
    BY <2>1
  <2>3. st.value \in [Handler -> Nat] /\ st.flag \in [Handler -> BOOLEAN]
    BY StateFields
  <2>a. Copied(h, vb) \in Nat
    BY SetErrors
  <2>4. /\ stored \in [Handler -> Nat]
        /\ stored[h] = IF SetError(h, vb) = NO_ERROR THEN Copied(h, vb) ELSE st.value[h]
        /\ \A g \in Handler : g # h => stored[g] = st.value[g]
    BY <2>3, <2>a
  <2>5. /\ flags \in [Handler -> BOOLEAN]
        /\ flags[h] = Flagged(h, vb, st)
        /\ \A g \in Handler : g # h => flags[g] = st.flag[g]
    <3>1. Flagged(h, vb, st) \in BOOLEAN
      BY DEF Flagged
    <3> QED
      BY <2>3, <3>1
  <2> HIDE DEF stored, flags
  <2>6. stored \in Held
    <3>1. ASSUME NEW g \in Handler, Class[g] = "string" PROVE stored[g] < MaxLen
      <4>1. st.value[g] < MaxLen
        BY <3>1, StateFields DEF Held
      <4>2. CASE g = h /\ SetError(h, vb) = NO_ERROR
        BY <2>4, <3>1, <4>2, SetErrors
      <4> QED
        BY <2>4, <4>1, <4>2
    <3> QED
      BY <2>4, <3>1 DEF Held
  <2>7. after \in States
    BY <2>1, <2>5, <2>6 DEF States
  <2> HIDE DEF after
  <2> QED
    BY <1>2, <2>2, <2>4, <2>5, <2>7 DEF after
<1> QED
  BY <1>1, <1>2

-----------------------------------------------------------------------------
(* The look-ups.                                                            *)

\* The encoded OIDs of handlers are sequences of numbers, one for each handler.
LEMMA HandlerBytes ==
  /\ \A h \in Handler : Data[h] \in Seq(Nat)
  /\ \A g, h \in Handler : Data[g] = Data[h] => g = h
<1>1. \A h \in Handler : Data[h] \in Seq(Nat)
  BY ByArcs, EncodeOidSteps DEF Bytes
<1>2. ASSUME NEW g \in Handler, NEW h \in Handler, Data[g] = Data[h] PROVE g = h
  <2>1. Arcs[g] = Arcs[h]
    BY <1>2, ByArcs, SameBytes
  <2> QED
    BY <2>1, PduAssumption
<1> QED
  BY <1>1, <1>2

\* Both look-ups compare an OID alike.
LEMMA SameMatches ==
  ASSUME NEW data \in Seq(Nat), NEW oid \in Seq(Nat), NEW onward \in BOOLEAN
  PROVE  SliceMatches(data, oid, onward) <=> OidMatches(data, oid, onward)
<1>1. /\ Len(data) \in Nat /\ Len(oid) \in Nat
      /\ SubSeq(oid, 1, Len(oid)) = oid /\ SubSeq(data, 1, Len(data)) = data
  OBVIOUS
<1>2. IsPrefix(oid, data) <=> Len(oid) <= Len(data) /\ SubSeq(data, 1, Len(oid)) = oid
  BY <1>1 DEF IsPrefix
<1>3. isSubTreeOf(data, oid) <=> IsPrefix(oid, data) /\ data # oid
  BY DEF isSubTreeOf, IsStrictPrefix
<1> DEFINE longer == Len(data) > Len(oid)
           begins == SubSeq(data, 1, Len(oid)) = oid
           same == Len(data) = Len(oid)
<1>4. same => (begins <=> data = oid)
  BY <1>1
<1>5. longer => data # oid
  BY <1>1
<1>6. /\ Len(oid) <= Len(data) <=> longer \/ same
      /\ ~(longer /\ same) /\ (data = oid => same)
  <2> DEFINE m == Len(oid)
             n == Len(data)
  <2>1. m \in Nat /\ n \in Nat /\ (data = oid => m = n)
    BY <1>1
  <2> HIDE DEF m, n
  <2>2. (m <= n <=> n > m \/ n = m) /\ ~(n > m /\ n = m)
    BY <2>1
  <2> QED
    BY <2>1, <2>2 DEF m, n
<1>7. /\ data = oid <=> same /\ begins
      /\ isSubTreeOf(data, oid) <=> longer /\ begins
  <2>1. IsPrefix(oid, data) <=> Len(oid) <= Len(data) /\ begins
    BY <1>2
  <2> HIDE DEF longer, begins, same
  <2> QED
    BY <1>3, <1>4, <1>5, <1>6, <2>1
<1>8. SliceMatches(data, oid, onward) <=> (same \/ (onward /\ longer)) /\ begins
  BY DEF SliceMatches
<1> HIDE DEF longer, begins, same
<1> QED
  BY <1>7, <1>8 DEF OidMatches

\* The position a look-up returns: 0, or one of the table; without a walk the
\* handler there has the OID.
LookupResult(hit, oid, onward) ==
  /\ hit \in 0 .. Len(Table)
  /\ hit # 0 => /\ hit \in Nat \ {0} /\ Table[hit] \in Handler
                /\ Data[Table[hit]] \in Seq(Nat)
                /\ onward \/ Data[Table[hit]] = oid

\* What both look-ups make of their hits.
LEMMA FirstHitResult ==
  ASSUME NEW oid \in Seq(Nat), NEW onward \in BOOLEAN,
         NEW S, S \subseteq 1 .. Len(Table),
         ~onward => \A i \in S : Data[Table[i]] = oid
  PROVE  LookupResult(FirstHit(Table, oid, onward, S), oid, onward)
<1>1. Len(Table) \in Nat /\ 0 \in 0 .. Len(Table) /\ Table \in Seq(Handler)
  BY PduAssumption
<1>2. ASSUME NEW i \in 1 .. Len(Table)
      PROVE  Table[i] \in Handler /\ Data[Table[i]] \in Seq(Nat) /\ i \in Nat \ {0}
  BY <1>1, HandlerBytes
<1>3. CASE S = {}
  <2>1. FirstHit(Table, oid, onward, S) = 0
    BY <1>3 DEF FirstHit
  <2> QED
    BY <1>1, <2>1 DEF LookupResult
<1>4. CASE S # {}
  <2> DEFINE m == Least(S)
  <2>1. m \in S
    <3>1. \E i \in S : \A j \in S : i <= j
      <4>1. S \subseteq Nat
        BY <1>2
      <4> QED
        BY <1>4, <4>1, LeastNat
    <3> QED
      BY <3>1 DEF Least
  <2>2. FirstHit(Table, oid, onward, S) = Answerer(Table, oid, onward, m)
    BY <1>4 DEF FirstHit
  <2>3. m \in 1 .. Len(Table) /\ (~onward => Data[Table[m]] = oid)
    BY <2>1
  <2> HIDE DEF m
  <2> DEFINE hit == Answerer(Table, oid, onward, m)
  <2>4. hit = m \/ (onward /\ hit = 0) \/ (onward /\ hit = m + 1 /\ m < Len(Table))
    BY DEF Answerer
  <2>5. hit \in 0 .. Len(Table) /\ (hit # 0 => hit \in 1 .. Len(Table))
    <3> HIDE DEF hit
    <3> QED
      BY <1>1, <2>3, <2>4
  <2>6. ~onward => hit = m
    BY <2>4
  <2> HIDE DEF hit
  <2>7. LookupResult(hit, oid, onward)
    BY <1>2, <2>3, <2>5, <2>6 DEF LookupResult
  <2> QED
    BY <2>2, <2>7 DEF hit
<1> QED
  BY <1>3, <1>4

\* findCallback() and its twin on a slice return the same handler.
LEMMA Lookups ==
  ASSUME NEW oid \in Seq(Nat), NEW onward \in BOOLEAN, NEW from \in Nat \ {0}
  PROVE  /\ findCallbackForSlice(Table, oid, onward, from)
              = findCallback(Table, oid, onward, from)
         /\ LookupResult(findCallback(Table, oid, onward, from), oid, onward)
<1> DEFINE A == {i \in from .. Len(Table) : SliceMatches(Data[Table[i]], oid, onward)}
           B == {i \in from .. Len(Table) : OidMatches(Data[Table[i]], oid, onward)}
<1>1. Len(Table) \in Nat /\ Table \in Seq(Handler)
  BY PduAssumption
<1>2. \A i \in from .. Len(Table) : i \in 1 .. Len(Table)
  BY <1>1
<1>3. ASSUME NEW i \in from .. Len(Table)
      PROVE  /\ SliceMatches(Data[Table[i]], oid, onward) <=> OidMatches(Data[Table[i]], oid, onward)
             /\ ~onward /\ OidMatches(Data[Table[i]], oid, onward) => Data[Table[i]] = oid
  <2>1. Table[i] \in Handler
    BY <1>1, <1>2
  <2>2. Data[Table[i]] \in Seq(Nat)
    BY <2>1, HandlerBytes
  <2>3. ~onward /\ OidMatches(Data[Table[i]], oid, onward) => Data[Table[i]] = oid
    BY DEF OidMatches
  <2> QED
    BY <2>2, <2>3, SameMatches
<1>4. A = B
  BY <1>3
<1>5. B \subseteq 1 .. Len(Table) /\ (~onward => \A i \in B : Data[Table[i]] = oid)
  BY <1>2, <1>3
<1>6. /\ findCallbackForSlice(Table, oid, onward, from) = FirstHit(Table, oid, onward, A)
      /\ findCallback(Table, oid, onward, from) = FirstHit(Table, oid, onward, B)
  BY DEF findCallbackForSlice, findCallback
<1> HIDE DEF A, B
<1>7. LookupResult(FirstHit(Table, oid, onward, B), oid, onward)
  BY <1>5, FirstHitResult
<1> QED
  BY <1>4, <1>6, <1>7
-----------------------------------------------------------------------------
(* Plans and lists of items.                                                *)

\* A row without a value is one that was refused, and carries an error.
Items ==
  {it \in [oid : Seq(Nat), val : Value, error : Nat] :
     it.val = Null <=> it.error # NO_ERROR}

\* What appendResponseVarBind() may have made of the list.
Lists == {out \in Seq(Items) : Len(out) <= MaxVarBinds}

\* The status is set if a row was refused, and the index points at the last.
ErrorsPointed(rows, error, index) ==
  /\ error = NO_ERROR <=> \A i \in 1 .. Len(rows) : rows[i].val # Null
  /\ error # NO_ERROR =>
       /\ index \in 1 .. Len(rows) /\ rows[index].val = Null
       /\ \A i \in 1 .. Len(rows) : rows[i].val = Null => i <= index

\* What planVarBind() may have made of the plan.
Plans ==
  {p \in [rows : Seq(Row), lastError : Nat, lastErrorIndex : Nat, full : BOOLEAN] :
     /\ Len(p.rows) <= MaxVarBinds
     /\ ErrorsPointed(p.rows, p.lastError, p.lastErrorIndex)}

\* The row of an item.
RowOf(item) == [oid |-> item.oid, val |-> item.val]

\* What planVarBind() makes of an item.
AddItem(plan, item) == Add(plan, item.oid, item.val, item.error)

\* The fields of an item.
LEMMA ItemFields ==
  ASSUME NEW item \in Items
  PROVE  /\ item.oid \in Seq(Nat) /\ item.val \in Value /\ item.error \in Nat
         /\ item.val = Null <=> item.error # NO_ERROR
         /\ RowOf(item) \in Row /\ RowOf(item).val = item.val
BY DEF Items, RowOf, Row

\* The fields of a plan.
LEMMA PlanFields ==
  ASSUME NEW plan \in Plans
  PROVE  /\ plan.rows \in Seq(Row) /\ Len(plan.rows) \in Nat
         /\ plan.lastError \in Nat /\ plan.lastErrorIndex \in Nat /\ plan.full \in BOOLEAN
         /\ Len(plan.rows) <= MaxVarBinds
         /\ ErrorsPointed(plan.rows, plan.lastError, plan.lastErrorIndex)
<1>1. plan \in [rows : Seq(Row), lastError : Nat, lastErrorIndex : Nat, full : BOOLEAN]
  BY DEF Plans
<1>2. plan.rows \in Seq(Row)
  BY <1>1
<1> QED
  BY <1>1, <1>2 DEF Plans

\* What Add does, in its two cases.
LEMMA AddCases ==
  ASSUME NEW plan \in Plans, NEW item \in Items
  PROVE  LET next == AddItem(plan, item)
             room == ~plan.full /\ Len(plan.rows) < MaxVarBinds
         IN  /\ ~room => /\ next.rows = plan.rows /\ next.full = TRUE
                         /\ next.lastError = plan.lastError
                         /\ next.lastErrorIndex = plan.lastErrorIndex
             /\ room => /\ next.rows = Append(plan.rows, RowOf(item)) /\ next.full = FALSE
                        /\ next.lastError = IF item.error # NO_ERROR THEN item.error
                                            ELSE plan.lastError
                        /\ next.lastErrorIndex = IF item.error # NO_ERROR
                                                 THEN Len(plan.rows) + 1
                                                 ELSE plan.lastErrorIndex
             /\ next = [rows |-> next.rows, lastError |-> next.lastError,
                        lastErrorIndex |-> next.lastErrorIndex, full |-> next.full]
<1> DEFINE next == AddItem(plan, item)
           rows == Append(plan.rows, RowOf(item))
<1>1. plan = [rows |-> plan.rows, lastError |-> plan.lastError,
              lastErrorIndex |-> plan.lastErrorIndex, full |-> plan.full]
  BY DEF Plans
<1>2. /\ Len(plan.rows) \in Nat /\ MaxVarBinds \in Nat /\ plan.full \in BOOLEAN
      /\ plan.rows \in Seq(Row) /\ RowOf(item) \in Row
  BY PlanFields, ItemFields, PduAssumption
<1>3. CASE plan.full \/ Len(plan.rows) >= MaxVarBinds
  <2>1. next = [plan EXCEPT !.full = TRUE]
    BY <1>3 DEF Add, AddItem
  <2> HIDE DEF next
  <2>2. next = [rows |-> plan.rows, lastError |-> plan.lastError,
                lastErrorIndex |-> plan.lastErrorIndex, full |-> TRUE]
    BY <1>1, <2>1
  <2>3. ~(~plan.full /\ Len(plan.rows) < MaxVarBinds)
    BY <1>2, <1>3
  <2> QED
    BY <2>2, <2>3 DEF next
<1>4. CASE ~(plan.full \/ Len(plan.rows) >= MaxVarBinds)
  <2>1. next = [plan EXCEPT !.rows = rows,
                  !.lastError = IF item.error # NO_ERROR THEN item.error ELSE @,
                  !.lastErrorIndex = IF item.error # NO_ERROR THEN Len(rows) ELSE @]
    BY <1>4 DEF Add, AddItem, RowOf
  <2>2. Len(rows) = Len(plan.rows) + 1
    BY <1>2
  <2> HIDE DEF next, rows
  <2>3. next = [rows |-> rows,
                lastError |-> IF item.error # NO_ERROR THEN item.error ELSE plan.lastError,
                lastErrorIndex |-> IF item.error # NO_ERROR THEN Len(plan.rows) + 1
                                   ELSE plan.lastErrorIndex,
                full |-> plan.full]
    BY <1>1, <2>1, <2>2
  <2>4. ~plan.full /\ Len(plan.rows) < MaxVarBinds
    BY <1>2, <1>4
  <2> QED
    BY <2>3, <2>4, <1>2 DEF next, rows
<1> QED
  BY <1>3, <1>4

\* What Add does when there is room.
LEMMA AddWithRoom ==
  ASSUME NEW plan \in Plans, NEW item \in Items, NEW next, next = AddItem(plan, item),
         ~plan.full, Len(plan.rows) < MaxVarBinds
  PROVE  /\ next.rows = Append(plan.rows, RowOf(item)) /\ next.full = FALSE
         /\ next.lastError = IF item.error # NO_ERROR THEN item.error ELSE plan.lastError
BY AddCases

\* The errors stay pointed at when a row is added.
LEMMA ErrorsStayPointed ==
  ASSUME NEW rows \in Seq(Row), NEW error \in Nat, NEW index \in Nat,
         ErrorsPointed(rows, error, index), NEW item \in Items
  PROVE  ErrorsPointed(Append(rows, RowOf(item)),
                       IF item.error # NO_ERROR THEN item.error ELSE error,
                       IF item.error # NO_ERROR THEN Len(rows) + 1 ELSE index)
<1> DEFINE n == Len(rows)
           more == Append(rows, RowOf(item))
<1>1. RowOf(item) \in Row /\ RowOf(item).val = item.val /\ NO_ERROR = 0
  BY ItemFields DEF NO_ERROR
<1>2. n \in Nat /\ Len(more) = n + 1
  BY <1>1
<1>3. more[n + 1] = RowOf(item) /\ \A i \in 1 .. n : more[i] = rows[i]
  BY <1>1
<1>4. /\ error = NO_ERROR <=> \A i \in 1 .. n : rows[i].val # Null
      /\ error # NO_ERROR => /\ index \in 1 .. n /\ rows[index].val = Null
                             /\ \A i \in 1 .. n : rows[i].val = Null => i <= index
  BY DEF ErrorsPointed
<1> HIDE DEF n, more
<1>5. 1 .. (n + 1) = (1 .. n) \cup {n + 1} /\ n + 1 \in 1 .. (n + 1)
  BY <1>2
<1>6. \A i \in 1 .. n : more[i].val = rows[i].val
  BY <1>3
<1>7. more[n + 1].val = item.val /\ (item.val = Null <=> item.error # NO_ERROR)
  BY <1>1, <1>3, ItemFields
<1>8. CASE item.error # NO_ERROR
  <2>1. ~ (\A i \in 1 .. Len(more) : more[i].val # Null)
    BY <1>2, <1>5, <1>7, <1>8
  <2>2. \A i \in 1 .. Len(more) : i <= n + 1
    BY <1>2
  <2>3. n + 1 \in 1 .. Len(more) /\ more[n + 1].val = Null
    BY <1>2, <1>5, <1>7, <1>8
  <2>4. ErrorsPointed(more, item.error, n + 1)
    BY <1>8, <2>1, <2>2, <2>3 DEF ErrorsPointed
  <2> QED
    BY <1>8, <2>4 DEF n, more
<1>9. CASE item.error = NO_ERROR
  <2>1. \A i \in 1 .. (n + 1) : i \in 1 .. n \/ more[i].val # Null
    BY <1>5, <1>7, <1>9
  <2>2. \A i \in 1 .. n : i \in 1 .. (n + 1)
    BY <1>5
  <2>3. error = NO_ERROR <=> \A i \in 1 .. (n + 1) : more[i].val # Null
    BY <1>4, <1>6, <2>1, <2>2
  <2>4. error # NO_ERROR =>
          /\ index \in 1 .. (n + 1) /\ more[index].val = Null
          /\ \A i \in 1 .. (n + 1) : more[i].val = Null => i <= index
    BY <1>4, <1>6, <2>1, <2>2
  <2>5. ErrorsPointed(more, error, index)
    BY <1>2, <2>3, <2>4 DEF ErrorsPointed
  <2> QED
    BY <1>9, <2>5 DEF n, more
<1> QED
  BY <1>8, <1>9

\* What makes a plan.
LEMMA PlanOf ==
  ASSUME NEW rows \in Seq(Row), NEW error \in Nat, NEW index \in Nat, NEW full \in BOOLEAN,
         Len(rows) <= MaxVarBinds, ErrorsPointed(rows, error, index)
  PROVE  [rows |-> rows, lastError |-> error, lastErrorIndex |-> index, full |-> full] \in Plans
BY DEF Plans

\* A plan stays a plan when an item is added.
LEMMA AddKeeps ==
  /\ EmptyPlan \in Plans
  /\ \A plan \in Plans, item \in Items : AddItem(plan, item) \in Plans
<1>1. EmptyPlan \in Plans
  <2>1. /\ Len(<< >>) = 0 /\ << >> \in Seq(Row) /\ NO_ERROR = 0 /\ 0 <= MaxVarBinds
        /\ 1 .. 0 = {}
    BY PduAssumption DEF NO_ERROR
  <2> QED
    BY <2>1 DEF EmptyPlan, Plans, ErrorsPointed
<1>2. ASSUME NEW plan \in Plans, NEW item \in Items PROVE AddItem(plan, item) \in Plans
  <2> DEFINE next == AddItem(plan, item)
  <2>1. /\ plan.rows \in Seq(Row) /\ Len(plan.rows) \in Nat
        /\ plan.lastError \in Nat /\ plan.lastErrorIndex \in Nat
        /\ Len(plan.rows) <= MaxVarBinds
        /\ ErrorsPointed(plan.rows, plan.lastError, plan.lastErrorIndex)
    BY PlanFields
  <2>2. item.error \in Nat /\ RowOf(item) \in Row
    BY ItemFields
  <2> DEFINE built == [rows |-> next.rows, lastError |-> next.lastError,
                       lastErrorIndex |-> next.lastErrorIndex, full |-> next.full]
  <2>3. next = built
    BY AddCases
  <2>4. CASE ~(~plan.full /\ Len(plan.rows) < MaxVarBinds)
    <3>1. /\ next.rows = plan.rows /\ next.full = TRUE
          /\ next.lastError = plan.lastError /\ next.lastErrorIndex = plan.lastErrorIndex
      BY <2>4, AddCases
    <3>2. TRUE \in BOOLEAN
      OBVIOUS
    <3> HIDE DEF next
    <3>3. built \in Plans
      BY <2>1, <3>1, <3>2, PlanOf
    <3> HIDE DEF built
    <3> QED
      BY <2>3, <3>3 DEF next
  <2>5. CASE ~plan.full /\ Len(plan.rows) < MaxVarBinds
    <3>1. /\ next.rows = Append(plan.rows, RowOf(item)) /\ next.full = FALSE
          /\ next.lastError = IF item.error # NO_ERROR THEN item.error ELSE plan.lastError
          /\ next.lastErrorIndex = IF item.error # NO_ERROR THEN Len(plan.rows) + 1
                                   ELSE plan.lastErrorIndex
      BY <2>5, AddCases
    <3> HIDE DEF next
    <3>2. ErrorsPointed(next.rows, next.lastError, next.lastErrorIndex)
      BY <2>1, <3>1, ErrorsStayPointed
    <3>3. /\ next.rows \in Seq(Row) /\ Len(next.rows) <= MaxVarBinds
          /\ next.lastError \in Nat /\ next.lastErrorIndex \in Nat /\ next.full \in BOOLEAN
      <4>1. next.rows \in Seq(Row) /\ Len(next.rows) = Len(plan.rows) + 1
        BY <2>1, <2>2, <3>1
      <4>2. Len(plan.rows) + 1 <= MaxVarBinds
        BY <2>1, <2>5, PduAssumption
      <4>3. next.full \in BOOLEAN
        BY <3>1
      <4>4. next.lastError \in Nat
        BY <2>1, <2>2, <3>1
      <4>5. next.lastErrorIndex \in Nat
        <5>1. Len(plan.rows) + 1 \in Nat
          BY <2>1
        <5> QED
          BY <2>1, <3>1, <5>1
      <4> QED
        BY <4>1, <4>2, <4>3, <4>4, <4>5
    <3>4. built \in Plans
      BY <3>2, <3>3, PlanOf
    <3> HIDE DEF built
    <3> QED
      BY <2>3, <3>4 DEF next
  <2> QED
    BY <2>4, <2>5
<1> QED
  BY <1>1, <1>2

\* A list stays a list when an item is appended to it, if there is room.
LEMMA AppendKeeps ==
  /\ << >> \in Lists /\ Len(<< >>) = 0
  /\ \A out \in Lists, item \in Items :
       LET more == appendResponseVarBind(out, item)
       IN  /\ more \in Lists /\ Len(out) \in Nat /\ out \in Seq(Items)
           /\ Len(out) < MaxVarBinds => more = Append(out, item) /\ Len(more) = Len(out) + 1
           /\ Len(out) >= MaxVarBinds => more = out
<1>1. MaxVarBinds \in Nat
  BY PduAssumption
<1>2. << >> \in Lists /\ Len(<< >>) = 0
  BY <1>1 DEF Lists
<1>3. ASSUME NEW out \in Lists, NEW item \in Items
      PROVE  LET more == appendResponseVarBind(out, item)
             IN  /\ more \in Lists /\ Len(out) \in Nat /\ out \in Seq(Items)
                 /\ Len(out) < MaxVarBinds => more = Append(out, item) /\ Len(more) = Len(out) + 1
                 /\ Len(out) >= MaxVarBinds => more = out
  <2> DEFINE more == appendResponseVarBind(out, item)
             n == Len(out)
  <2>1. out \in Seq(Items) /\ n \in Nat /\ n <= MaxVarBinds
    BY DEF Lists
  <2>2. CASE n < MaxVarBinds
    <3>1. more = Append(out, item) /\ ~(n >= MaxVarBinds)
      BY <1>1, <2>1, <2>2 DEF appendResponseVarBind
    <3>2. Append(out, item) \in Seq(Items) /\ Len(Append(out, item)) = n + 1
      BY <2>1
    <3> HIDE DEF more, n
    <3>3. n + 1 <= MaxVarBinds
      BY <1>1, <2>1, <2>2
    <3>4. more \in Lists
      BY <3>1, <3>2, <3>3 DEF Lists
    <3> QED
      BY <2>1, <2>2, <3>1, <3>2, <3>4 DEF more, n
  <2>3. CASE ~(n < MaxVarBinds)
    <3>1. more = out
      BY <2>3 DEF appendResponseVarBind
    <3> QED
      BY <2>1, <2>3, <3>1
  <2> QED
    BY <2>2, <2>3
<1> QED
  BY <1>2, <1>3
-----------------------------------------------------------------------------
(* One varbind at a time: what the container path makes an item of is what  *)
(* the in-place path adds to its plan.                                      *)

\* What is answered with a value carries no error, what is refused does.
LEMMA MakesItem ==
  ASSUME NEW oid \in Seq(Nat)
  PROVE  /\ \A val \in Value : val # Null => Item(oid, val, NO_ERROR) \in Items
         /\ \A error \in Nat \ {0} : Item(oid, Null, error) \in Items
         /\ \A plan, val, error :
              Add(plan, oid, val, error) = AddItem(plan, Item(oid, val, error))
<1>1. NO_ERROR = 0 /\ NO_ERROR \in Nat /\ Null \in Value
  BY Exceptions DEF NO_ERROR
<1>2. ASSUME NEW val \in Value, val # Null PROVE Item(oid, val, NO_ERROR) \in Items
  <2>1. [oid |-> oid, val |-> val, error |-> NO_ERROR]
          \in [oid : Seq(Nat), val : Value, error : Nat]
    BY <1>1
  <2> QED
    BY <1>2, <2>1 DEF Item, Items
<1>3. ASSUME NEW error \in Nat \ {0} PROVE Item(oid, Null, error) \in Items
  <2>1. [oid |-> oid, val |-> Null, error |-> error]
          \in [oid : Seq(Nat), val : Value, error : Nat]
    BY <1>1
  <2>2. error # NO_ERROR
    BY <1>1
  <2> QED
    BY <2>1, <2>2 DEF Item, Items
<1>4. \A plan, val, error : Add(plan, oid, val, error) = AddItem(plan, Item(oid, val, error))
  BY DEF AddItem, Item
<1> QED
  BY <1>2, <1>3, <1>4

\* A look-up that finds a handler gives its OID and what it answers.
LEMMA HitAnswers ==
  ASSUME NEW hit, NEW oid, NEW onward, LookupResult(hit, oid, onward), hit # 0,
         NEW st \in States
  PROVE  /\ Table[hit] \in Handler /\ Data[Table[hit]] \in Seq(Nat) /\ hit \in Nat \ {0}
         /\ getValueForCallback(Table[hit], st) \in Value
         /\ getValueForCallback(Table[hit], st) # Null
BY AnswersValue DEF LookupResult

\* A GET or GETNEXT varbind.
LEMMA GetSteps ==
  ASSUME NEW req \in Request, NEW st \in States, NEW vb \in VarBind, NEW onward \in BOOLEAN
  PROVE  /\ GetItem(vb, req, st, onward) \in Items
         /\ \A plan : PlanGet(plan, vb, req, st, onward)
                        = AddItem(plan, GetItem(vb, req, st, onward))
<1> DEFINE hit == findCallback(Table, vb.oid, onward, 1)
           item == GetItemAt(hit, vb, req, st, onward)
           oid == vb.oid
           val == getValueForCallback(Table[hit], st)
           data == Data[Table[hit]]
           error == SNMP_ERROR_VERSION_CTRL(GEN_ERR, req.version)
<1>1. oid \in Seq(Nat) /\ 1 \in Nat \ {0}
  BY VarBindFields
<1>2. findCallbackForSlice(Table, oid, onward, 1) = hit /\ LookupResult(hit, oid, onward)
  BY <1>1, Lookups
<1>3. /\ GetItem(vb, req, st, onward) = item
      /\ \A plan : PlanGet(plan, vb, req, st, onward)
                     = PlanGetAt(hit, plan, vb, req, st, onward)
  BY <1>2 DEF GetItem, PlanGet
<1>4. error \in Nat \ {0}
  BY ErrorCodes, RequestFields
<1> HIDE DEF hit
<1>5. item \in Items /\ \A plan : PlanGetAt(hit, plan, vb, req, st, onward) = AddItem(plan, item)
  <2>1. CASE hit = 0
    <3> DEFINE none == IF onward THEN EndOfMibView ELSE NoSuchObject
    <3>1. item = Item(oid, none, NO_ERROR)
      BY <2>1 DEF GetItemAt
    <3>2. \A plan : PlanGetAt(hit, plan, vb, req, st, onward) = Add(plan, oid, none, NO_ERROR)
      BY <2>1 DEF PlanGetAt
    <3>3. none \in Value /\ none # Null
      BY Exceptions
    <3> HIDE DEF item, oid, none
    <3> QED
      BY <1>1, <3>1, <3>2, <3>3, MakesItem
  <2>2. CASE hit # 0
    <3>1. data \in Seq(Nat) /\ val \in Value /\ val # Null
      BY <1>2, <2>2, HitAnswers
    <3>2. CASE val = Nullptr
      <4>1. item = Item(data, Null, error)
        BY <2>2, <3>2 DEF GetItemAt
      <4>2. \A plan : PlanGetAt(hit, plan, vb, req, st, onward) = Add(plan, data, Null, error)
        BY <2>2, <3>2 DEF PlanGetAt
      <4> HIDE DEF item, data, error
      <4> QED
        BY <1>4, <3>1, <4>1, <4>2, MakesItem
    <3>3. CASE val # Nullptr
      <4>1. item = Item(data, val, NO_ERROR)
        BY <2>2, <3>3 DEF GetItemAt
      <4>2. \A plan : PlanGetAt(hit, plan, vb, req, st, onward) = Add(plan, data, val, NO_ERROR)
        BY <2>2, <3>3 DEF PlanGetAt
      <4> HIDE DEF item, data, val
      <4> QED
        BY <3>1, <4>1, <4>2, MakesItem
    <3> QED
      BY <3>2, <3>3
  <2> QED
    BY <2>1, <2>2
<1> HIDE DEF item
<1> QED
  BY <1>3, <1>5

\* A non-repeater of a GETBULK.
LEMMA NonRepeaterSteps ==
  ASSUME NEW st \in States, NEW vb \in VarBind
  PROVE  \E item \in Items :
           /\ \A plan : PlanNonRepeater(plan, vb, st) = AddItem(plan, item)
           /\ \A bulk : BulkNonRepeater(bulk, vb, st) = BulkAppend(bulk, item)
<1> DEFINE hit == findCallback(Table, vb.oid, TRUE, 1)
           item == BulkNonRepeaterItem(hit, vb, st)
           oid == vb.oid
           val == getValueForCallback(Table[hit], st)
           data == Data[Table[hit]]
<1>1. oid \in Seq(Nat) /\ 1 \in Nat \ {0}
  BY VarBindFields
<1>2. findCallbackForSlice(Table, oid, TRUE, 1) = hit /\ LookupResult(hit, oid, TRUE)
  BY <1>1, Lookups
<1>3. /\ \A bulk : BulkNonRepeater(bulk, vb, st) = BulkAppend(bulk, item)
      /\ \A plan : PlanNonRepeater(plan, vb, st) = PlanNonRepeaterAt(hit, plan, vb, st)
  BY <1>2 DEF BulkNonRepeater, PlanNonRepeater
<1>4. GEN_ERR \in Nat \ {0}
  BY DEF GEN_ERR
<1> HIDE DEF hit
<1>5. item \in Items /\ \A plan : PlanNonRepeaterAt(hit, plan, vb, st) = AddItem(plan, item)
  <2>1. CASE hit = 0
    <3>1. item = Item(oid, EndOfMibView, NO_ERROR)
      BY <2>1 DEF BulkNonRepeaterItem
    <3>2. \A plan : PlanNonRepeaterAt(hit, plan, vb, st) = Add(plan, oid, EndOfMibView, NO_ERROR)
      BY <2>1 DEF PlanNonRepeaterAt
    <3> HIDE DEF item, oid
    <3> QED
      BY <1>1, <3>1, <3>2, Exceptions, MakesItem
  <2>2. CASE hit # 0
    <3>1. data \in Seq(Nat) /\ val \in Value /\ val # Null
      BY <1>2, <2>2, HitAnswers
    <3>2. CASE val = Nullptr
      <4>1. item = Item(data, Null, GEN_ERR)
        BY <2>2, <3>2 DEF BulkNonRepeaterItem
      <4>2. \A plan : PlanNonRepeaterAt(hit, plan, vb, st) = Add(plan, data, Null, GEN_ERR)
        BY <2>2, <3>2 DEF PlanNonRepeaterAt
      <4> HIDE DEF item, data
      <4> QED
        BY <1>4, <3>1, <4>1, <4>2, MakesItem
    <3>3. CASE val # Nullptr
      <4>1. item = Item(oid, val, NO_ERROR)
        BY <2>2, <3>3 DEF BulkNonRepeaterItem
      <4>2. \A plan : PlanNonRepeaterAt(hit, plan, vb, st) = Add(plan, oid, val, NO_ERROR)
        BY <2>2, <3>3 DEF PlanNonRepeaterAt
      <4> HIDE DEF item, oid, val
      <4> QED
        BY <1>1, <3>1, <4>1, <4>2, MakesItem
    <3> QED
      BY <3>2, <3>3
  <2> QED
    BY <2>1, <2>2
<1> HIDE DEF item
<1> QED
  BY <1>3, <1>5

\* A repetition for the OID the cursor stands at: both paths answer with the
\* same item, end or not alike, and move to the same handler.
Repetition(cursor, foundAt, st) ==
  LET hit  == findCallback(Table, cursor, TRUE, foundAt)
      val  == getValueForCallback(Table[hit], st)
      ends == hit = 0 \/ val = Nullptr
  IN  [item |-> IF hit = 0 THEN Item(cursor, EndOfMibView, NO_ERROR)
                ELSE IF val = Nullptr THEN Item(Data[Table[hit]], Null, GEN_ERR)
                ELSE Item(Data[Table[hit]], val, NO_ERROR),
       ends |-> ends,
       cursor |-> IF ends THEN cursor ELSE Data[Table[hit]],
       foundAt |-> IF ends THEN foundAt ELSE hit]

\* The kinds of its parts.
LEMMA RepetitionFields ==
  ASSUME NEW st \in States, NEW cursor \in Seq(Nat), NEW foundAt \in Nat \ {0}
  PROVE  LET r == Repetition(cursor, foundAt, st)
         IN  /\ r.item \in Items /\ r.ends \in BOOLEAN
             /\ r.cursor \in Seq(Nat) /\ r.foundAt \in Nat \ {0}
<1> DEFINE hit == findCallback(Table, cursor, TRUE, foundAt)
           val == getValueForCallback(Table[hit], st)
           data == Data[Table[hit]]
           ends == hit = 0 \/ val = Nullptr
           r == Repetition(cursor, foundAt, st)
<1>1. LookupResult(hit, cursor, TRUE) /\ GEN_ERR \in Nat \ {0}
  <2>1. LookupResult(hit, cursor, TRUE)
    BY Lookups
  <2>2. GEN_ERR \in Nat \ {0}
    BY DEF GEN_ERR
  <2> QED
    BY <2>1, <2>2
<1>2. /\ r.item = IF hit = 0 THEN Item(cursor, EndOfMibView, NO_ERROR)
                  ELSE IF val = Nullptr THEN Item(data, Null, GEN_ERR)
                  ELSE Item(data, val, NO_ERROR)
      /\ r.ends = ends
      /\ r.cursor = IF ends THEN cursor ELSE data
      /\ r.foundAt = IF ends THEN foundAt ELSE hit
  BY DEF Repetition
<1>3. ends \in BOOLEAN
  OBVIOUS
<1> HIDE DEF hit, r
<1>4. hit # 0 => data \in Seq(Nat) /\ val \in Value /\ val # Null /\ hit \in Nat \ {0}
  BY <1>1, HitAnswers
<1> HIDE DEF data, val
<1>5. /\ hit # 0 /\ val = Nullptr => Item(data, Null, GEN_ERR) \in Items
      /\ hit # 0 => Item(data, val, NO_ERROR) \in Items
      /\ Item(cursor, EndOfMibView, NO_ERROR) \in Items
  BY <1>1, <1>4, Exceptions, MakesItem
<1>6. r.item \in Items
  BY <1>2, <1>5
<1>7. r.cursor \in Seq(Nat) /\ r.foundAt \in Nat \ {0}
  BY <1>2, <1>4
<1>8. r.ends \in BOOLEAN
  <2> HIDE DEF ends
  <2>1. r.ends = ends
    BY <1>2
  <2> QED
    BY <1>3, <2>1
<1> QED
  BY <1>6, <1>7, <1>8 DEF r

\* What both paths do with a repetition.
LEMMA RepeatSteps ==
  ASSUME NEW st \in States, NEW cursor \in Seq(Nat), NEW foundAt \in Nat \ {0}
  PROVE  LET r == Repetition(cursor, foundAt, st)
         IN  /\ \A plan : ~plan.full =>
                  PlanRepeat([plan |-> plan, cursor |-> cursor, foundAt |-> foundAt,
                              over |-> FALSE], st)
                    = [plan |-> AddItem(plan, r.item), cursor |-> r.cursor,
                       foundAt |-> r.foundAt, over |-> r.ends]
             /\ \A bulk : ~bulk.overflow =>
                  LET s == BulkRepeat([bulk |-> bulk, oid |-> cursor, foundAt |-> foundAt,
                                       broken |-> FALSE], st)
                  IN  /\ s = [bulk |-> BulkAppend(bulk, r.item), oid |-> r.cursor,
                              foundAt |-> s.foundAt, broken |-> r.ends]
                      /\ s.foundAt \in Nat \ {0}
                      /\ ~r.ends => s.foundAt = r.foundAt
<1> DEFINE hit == findCallback(Table, cursor, TRUE, foundAt)
           val == getValueForCallback(Table[hit], st)
           data == Data[Table[hit]]
           ends == hit = 0 \/ val = Nullptr
           r == Repetition(cursor, foundAt, st)
           item == IF hit = 0 THEN Item(cursor, EndOfMibView, NO_ERROR)
                   ELSE IF val = Nullptr THEN Item(data, Null, GEN_ERR)
                   ELSE Item(data, val, NO_ERROR)
<1>1. LookupResult(hit, cursor, TRUE) /\ findCallbackForSlice(Table, cursor, TRUE, foundAt) = hit
  BY Lookups
<1>2. /\ r.item = item /\ r.ends = ends
      /\ r.cursor = IF ends THEN cursor ELSE data
      /\ r.foundAt = IF ends THEN foundAt ELSE hit
  BY DEF Repetition
<1>3. ASSUME NEW plan, ~plan.full
      PROVE  PlanRepeat([plan |-> plan, cursor |-> cursor, foundAt |-> foundAt,
                         over |-> FALSE], st)
               = [plan |-> AddItem(plan, r.item), cursor |-> r.cursor,
                  foundAt |-> r.foundAt, over |-> r.ends]
  <2> DEFINE s == [plan |-> plan, cursor |-> cursor, foundAt |-> foundAt, over |-> FALSE]
  <2>1. s.plan = plan /\ s.cursor = cursor /\ s.foundAt = foundAt /\ s.over = FALSE
    OBVIOUS
  <2>2. PlanRepeat(s, st) = PlanRepetition(hit, s, st)
    <3> HIDE DEF s, hit
    <3> QED
      BY <1>1, <1>3, <2>1 DEF PlanRepeat
  <2> HIDE DEF hit, r
  <2>3. CASE hit = 0
    <3>1. PlanRepetition(hit, s, st)
            = [plan |-> Add(plan, cursor, EndOfMibView, NO_ERROR), cursor |-> cursor,
               foundAt |-> foundAt, over |-> TRUE]
      BY <2>3 DEF PlanRepetition
    <3>2. Add(plan, cursor, EndOfMibView, NO_ERROR) = AddItem(plan, item)
      BY <2>3, MakesItem
    <3> QED
      BY <1>2, <2>2, <2>3, <3>1, <3>2
  <2>4. CASE hit # 0 /\ val = Nullptr
    <3>1. PlanRepetition(hit, s, st)
            = [plan |-> Add(plan, data, Null, GEN_ERR), cursor |-> cursor,
               foundAt |-> foundAt, over |-> TRUE]
      BY <2>4 DEF PlanRepetition
    <3>2. Add(plan, data, Null, GEN_ERR) = AddItem(plan, item)
      BY <2>4 DEF AddItem, Item
    <3> QED
      BY <1>2, <2>2, <2>4, <3>1, <3>2
  <2>5. CASE hit # 0 /\ val # Nullptr
    <3>1. PlanRepetition(hit, s, st)
            = [plan |-> Add(plan, data, val, NO_ERROR), cursor |-> data,
               foundAt |-> hit, over |-> FALSE]
      BY <2>5 DEF PlanRepetition
    <3>2. Add(plan, data, val, NO_ERROR) = AddItem(plan, item)
      BY <2>5 DEF AddItem, Item
    <3> QED
      BY <1>2, <2>2, <2>5, <3>1, <3>2
  <2> QED
    BY <2>3, <2>4, <2>5
<1>4. ASSUME NEW bulk, ~bulk.overflow
      PROVE  LET s == BulkRepeat([bulk |-> bulk, oid |-> cursor, foundAt |-> foundAt,
                                  broken |-> FALSE], st)
             IN  /\ s = [bulk |-> BulkAppend(bulk, r.item), oid |-> r.cursor,
                         foundAt |-> s.foundAt, broken |-> r.ends]
                 /\ s.foundAt \in Nat \ {0}
                 /\ ~r.ends => s.foundAt = r.foundAt
  <2> DEFINE s == [bulk |-> bulk, oid |-> cursor, foundAt |-> foundAt, broken |-> FALSE]
             at == IF hit = 0 THEN foundAt ELSE hit
  <2>1. s.bulk = bulk /\ s.oid = cursor /\ s.foundAt = foundAt /\ s.broken = FALSE
    OBVIOUS
  <2>2. BulkRepeat(s, st) = BulkRepetition(hit, s, st)
    <3> HIDE DEF s
    <3>1. ~ (s.broken \/ s.bulk.overflow)
      BY <1>4, <2>1
    <3>2. findCallback(Table, s.oid, TRUE, s.foundAt) = hit
      BY <2>1
    <3> QED
      BY <3>1, <3>2 DEF BulkRepeat
  <2>3. BulkRepetition(hit, s, st)
          = [bulk |-> BulkAppend(bulk, item), broken |-> ends,
             oid |-> IF ends THEN cursor ELSE data, foundAt |-> at]
    <3> HIDE DEF hit
    <3> QED
      BY DEF BulkRepetition
  <2>4. at \in Nat \ {0} /\ (~ends => at = hit)
    <3> HIDE DEF hit, val
    <3>1. hit # 0 => hit \in Nat \ {0}
      BY <1>1 DEF LookupResult
    <3>2. ~ends => hit # 0
      OBVIOUS
    <3> HIDE DEF ends
    <3>3. at \in Nat \ {0}
      <4>1. CASE hit = 0
        BY <4>1
      <4>2. CASE hit # 0
        BY <3>1, <4>2
      <4> QED
        BY <4>1, <4>2
    <3>4. ~ends => at = hit
      BY <3>2
    <3> QED
      BY <3>3, <3>4
  <2> HIDE DEF hit, r, at, item, ends, data
  <2>5. BulkRepeat(s, st) = [bulk |-> BulkAppend(bulk, r.item), oid |-> r.cursor,
                             foundAt |-> at, broken |-> r.ends]
    BY <1>2, <2>2, <2>3
  <2>6. ~r.ends => at = r.foundAt
    BY <1>2, <2>4
  <2> QED
    BY <2>4, <2>5, <2>6
<1> HIDE DEF r
<1>5. /\ \A plan : ~plan.full =>
           PlanRepeat([plan |-> plan, cursor |-> cursor, foundAt |-> foundAt,
                       over |-> FALSE], st)
             = [plan |-> AddItem(plan, r.item), cursor |-> r.cursor,
                foundAt |-> r.foundAt, over |-> r.ends]
      /\ \A bulk : ~bulk.overflow =>
           LET s == BulkRepeat([bulk |-> bulk, oid |-> cursor, foundAt |-> foundAt,
                                broken |-> FALSE], st)
           IN  /\ s = [bulk |-> BulkAppend(bulk, r.item), oid |-> r.cursor,
                       foundAt |-> s.foundAt, broken |-> r.ends]
               /\ s.foundAt \in Nat \ {0}
               /\ ~r.ends => s.foundAt = r.foundAt
  BY <1>3, <1>4
<1> QED
  BY <1>5 DEF r

\* The row of an accepted varbind: its OID, and its value if that came whole.
Echoed(row, vb) ==
  /\ row.oid = vb.oid
  /\ Whole(vb) => row.val = [type |-> vb.type, v |-> vb.v]

\* What a handler that holds a number answers with.
AnswersHeld(val, h, held) ==
  Class[h] # "badoid" /\ val = [type |-> TypeOf[Class[h]], v |-> held]

\* What a SET varbind makes of the handlers' state, and which handler it sets.
SetTo(set, vb, st) ==
  /\ set.st \in States
  /\ \A g \in Handler :
       \/ set.st.value[g] = st.value[g] /\ set.st.flag[g] = st.flag[g]
       \/ g \in Settable /\ Data[g] = vb.oid
  /\ \A g \in Handler : set.st.value[g] # st.value[g] => set.st.flag[g]
  /\ set.item.error = NO_ERROR =>
       /\ Echoed(RowOf(set.item), vb)
       /\ \E h \in Settable :
            Data[h] = vb.oid /\ AnswersHeld(RowOf(set.item).val, h, set.st.value[h])

\* A SET of a settable handler with a value of its type.
LEMMA SettableSteps ==
  ASSUME NEW st \in States, NEW vb \in VarBind, NEW h \in Handler, h \in Settable,
         TypeOf[Class[h]] = vb.type, Data[h] = vb.oid, NEW version \in Nat,
         NEW set,
         set = [st |-> setValueForCallback(h, vb, st),
                item |-> IF SetError(h, vb) # NO_ERROR
                         THEN Item(Data[h], Null,
                                   SNMP_ERROR_VERSION_CTRL(SetError(h, vb), version))
                         ELSE Item(Data[h],
                                   getValueForCallback(h, setValueForCallback(h, vb, st)),
                                   NO_ERROR)]
  PROVE  set.item \in Items /\ SetTo(set, vb, st)
<1> DEFINE v == Copied(h, vb)
           after == setValueForCallback(h, vb, st)
           setError == SetError(h, vb)
           error == SNMP_ERROR_VERSION_CTRL(setError, version)
           val == getValueForCallback(h, after)
<1>1. v \in Nat /\ vb.oid \in Seq(Nat) /\ (Whole(vb) => v = vb.v)
  BY SetErrors, VarBindFields
<1>2. /\ set.st = after
      /\ set.item = IF setError # NO_ERROR THEN Item(Data[h], Null, error)
                    ELSE Item(Data[h], val, NO_ERROR)
  OBVIOUS
<1>3. setError \in Nat /\ (Class[h] = "badoid" => setError # NO_ERROR) /\ NO_ERROR = 0
  BY <1>1, SetErrors DEF NO_ERROR
<1>4. setError # NO_ERROR => error \in Nat \ {0}
  BY <1>3, ErrorCodes
<1>5. /\ after \in States
      /\ \A g \in Handler : g # h => /\ after.value[g] = st.value[g]
                                     /\ after.flag[g] = st.flag[g]
      /\ after.value[h] = IF setError = NO_ERROR THEN v ELSE st.value[h]
      /\ after.flag[h] = Flagged(h, vb, st)
  BY <1>1, SetEffect
<1>6. after.value[h] # st.value[h] => after.flag[h]
  <2> HIDE DEF after
  <2> SUFFICES ASSUME after.value[h] # st.value[h] PROVE after.flag[h]
    OBVIOUS
  <2>1. setError = NO_ERROR /\ after.value[h] = v /\ st.value[h] # v
    BY <1>5
  <2>2. Flagged(h, vb, st)
    BY <2>1 DEF Flagged
  <2> QED
    BY <1>5, <2>1, <2>2
<1> HIDE DEF after
<1>7. \A g \in Handler :
        /\ (after.value[g] = st.value[g] /\ after.flag[g] = st.flag[g])
             \/ (g \in Settable /\ Data[g] = vb.oid)
        /\ after.value[g] # st.value[g] => after.flag[g]
  BY <1>5, <1>6
<1>8. CASE setError # NO_ERROR
  <2>1. set.item = Item(Data[h], Null, error) /\ error \in Nat \ {0}
    BY <1>2, <1>4, <1>8
  <2> HIDE DEF error
  <2>2. set.item \in Items
    BY <1>1, <2>1, MakesItem
  <2>3. set.item.error # NO_ERROR
    BY <1>3, <2>1 DEF Item
  <2> QED
    BY <1>2, <1>5, <1>7, <2>2, <2>3 DEF SetTo
<1>9. CASE setError = NO_ERROR
  <2>1. set.item = Item(Data[h], val, NO_ERROR)
    BY <1>2, <1>9
  <2>2. val \in Value /\ val # Null
    BY <1>5, AnswersValue
  <2>3. AnswersHeld(val, h, after.value[h]) /\ after.value[h] = v
    <3>1. Class[h] # "badoid" /\ after.value[h] = v
      BY <1>3, <1>5, <1>9
    <3> QED
      BY <3>1 DEF getValueForCallback, AnswersHeld
  <2>4. set.item \in Items
    <3> HIDE DEF val
    <3> QED
      BY <1>1, <2>1, <2>2, MakesItem
  <2>5. RowOf(set.item) = [oid |-> vb.oid, val |-> val]
    BY <2>1 DEF RowOf, Item
  <2> HIDE DEF val
  <2>6. Echoed(RowOf(set.item), vb)
    <3>1. val = [type |-> vb.type, v |-> v]
      BY <2>3 DEF AnswersHeld
    <3> HIDE DEF v
    <3> QED
      BY <1>1, <2>5, <3>1 DEF Echoed
  <2>7. \E g \in Settable :
          Data[g] = vb.oid /\ AnswersHeld(RowOf(set.item).val, g, after.value[g])
    BY <2>3, <2>5
  <2> QED
    BY <1>2, <1>5, <1>7, <2>4, <2>6, <2>7 DEF SetTo
<1> QED
  BY <1>8, <1>9

\* A SET varbind that is refused before its handler is asked.
LEMMA RefusedSet ==
  ASSUME NEW st \in States, NEW vb \in VarBind, NEW error \in Nat \ {0},
         NEW set, set = [item |-> Item(vb.oid, Null, error), st |-> st]
  PROVE  set.item \in Items /\ SetTo(set, vb, st)
<1>1. set.item = Item(vb.oid, Null, error) /\ set.st = st
  OBVIOUS
<1>2. vb.oid \in Seq(Nat)
  BY VarBindFields
<1>3. set.item \in Items
  BY <1>1, <1>2, MakesItem
<1>4. set.item.error # NO_ERROR
  BY <1>1 DEF Item, NO_ERROR
<1> QED
  BY <1>1, <1>3, <1>4 DEF SetTo

\* A SET varbind: both paths refuse or apply it alike.
LEMMA SetSteps ==
  ASSUME NEW req \in Request, NEW st \in States, NEW vb \in VarBind
  PROVE  LET set == SetItem(vb, req, st)
         IN  /\ set.item \in Items /\ SetTo(set, vb, st)
             /\ \A plan : ~plan.full =>
                  PlanSet([plan |-> plan, st |-> st], vb, req)
                    = [plan |-> AddItem(plan, set.item), st |-> set.st]
<1> DEFINE hit == findCallback(Table, vb.oid, FALSE, 1)
           set == SetItemAt(hit, vb, req, st)
           oid == vb.oid
           h == Table[hit]
           setError == SetError(h, vb)
           after == setValueForCallback(h, vb, st)
           acc(plan) == [plan |-> plan, st |-> st]
<1>1. oid \in Seq(Nat) /\ 1 \in Nat \ {0} /\ req.version \in Nat
  BY RequestFields, VarBindFields
<1>2. findCallbackForSlice(Table, oid, FALSE, 1) = hit /\ LookupResult(hit, oid, FALSE)
  BY <1>1, Lookups
<1>3. /\ SetItem(vb, req, st) = set
      /\ \A plan : ~plan.full =>
           PlanSet(acc(plan), vb, req) = PlanSetAt(hit, acc(plan), vb, req)
  BY <1>2 DEF SetItem, PlanSet
<1>4. hit # 0 => h \in Handler /\ Data[h] = oid
  BY <1>2 DEF LookupResult
<1> HIDE DEF hit
<1>5. ASSUME NEW error \in Nat \ {0},
             set = [item |-> Item(oid, Null, error), st |-> st],
             \A plan : PlanSetAt(hit, acc(plan), vb, req)
                         = [acc(plan) EXCEPT !.plan = Add(@, oid, Null, error)]
      PROVE  /\ set.item \in Items /\ SetTo(set, vb, st)
             /\ \A plan : PlanSetAt(hit, acc(plan), vb, req)
                            = [plan |-> AddItem(plan, set.item), st |-> set.st]
  <2>1. set.item = Item(oid, Null, error) /\ set.st = st
    BY <1>5
  <2>2. ASSUME NEW plan PROVE Add(plan, oid, Null, error) = AddItem(plan, set.item)
    BY <2>1 DEF AddItem, Item
  <2>3. ASSUME NEW plan
        PROVE  [acc(plan) EXCEPT !.plan = Add(@, oid, Null, error)]
                 = [plan |-> Add(plan, oid, Null, error), st |-> st]
    OBVIOUS
  <2> HIDE DEF set
  <2>4. set.item \in Items /\ SetTo(set, vb, st)
    BY <1>5, RefusedSet
  <2> QED
    BY <1>5, <2>1, <2>2, <2>3, <2>4
<1>6. CASE hit = 0
  <2> DEFINE error == SNMP_ERROR_VERSION_CTRL_DEF(NOT_WRITABLE, req.version, NO_SUCH_NAME)
  <2>1. error \in Nat \ {0}
    BY <1>1, ErrorCodes
  <2>2. set = [item |-> Item(oid, Null, error), st |-> st]
    BY <1>6 DEF SetItemAt
  <2>3. \A plan : PlanSetAt(hit, acc(plan), vb, req)
                    = [acc(plan) EXCEPT !.plan = Add(@, oid, Null, error)]
    BY <1>6 DEF PlanSetAt
  <2> HIDE DEF error, set, acc, oid
  <2> QED
    BY <1>3, <1>5, <2>1, <2>2, <2>3 DEF acc
<1>7. CASE hit # 0 /\ TypeOf[Class[h]] # vb.type
  <2> DEFINE error == SNMP_ERROR_VERSION_CTRL_DEF(WRONG_TYPE, req.version, BAD_VALUE)
  <2>1. error \in Nat \ {0}
    BY <1>1, ErrorCodes
  <2>2. set = [item |-> Item(oid, Null, error), st |-> st]
    BY <1>7 DEF SetItemAt
  <2>3. \A plan : PlanSetAt(hit, acc(plan), vb, req)
                    = [acc(plan) EXCEPT !.plan = Add(@, oid, Null, error)]
    BY <1>7 DEF PlanSetAt
  <2> HIDE DEF error, set, acc, oid
  <2> QED
    BY <1>3, <1>5, <2>1, <2>2, <2>3 DEF acc
<1>8. CASE hit # 0 /\ TypeOf[Class[h]] = vb.type /\ h \notin Settable
  <2> DEFINE error == SNMP_ERROR_VERSION_CTRL(READ_ONLY, req.version)
  <2>1. error \in Nat \ {0}
    BY <1>1, ErrorCodes
  <2>2. set = [item |-> Item(oid, Null, error), st |-> st]
    BY <1>8 DEF SetItemAt
  <2>3. \A plan : PlanSetAt(hit, acc(plan), vb, req)
                    = [acc(plan) EXCEPT !.plan = Add(@, oid, Null, error)]
    BY <1>8 DEF PlanSetAt
  <2> HIDE DEF error, set, acc, oid
  <2> QED
    BY <1>3, <1>5, <2>1, <2>2, <2>3 DEF acc
<1>9. CASE hit # 0 /\ TypeOf[Class[h]] = vb.type /\ h \in Settable
  <2> DEFINE error == SNMP_ERROR_VERSION_CTRL(setError, req.version)
             val == getValueForCallback(h, after)
             item == IF setError # NO_ERROR THEN Item(Data[h], Null, error)
                     ELSE Item(Data[h], val, NO_ERROR)
  <2>1. set = [st |-> after, item |-> item]
    BY <1>9 DEF SetItemAt
  <2>2. \A plan : PlanSetAt(hit, acc(plan), vb, req)
          = IF setError # NO_ERROR
            THEN [plan |-> Add(plan, Data[h], Null, error), st |-> after]
            ELSE [plan |-> Add(plan, Data[h], val, NO_ERROR), st |-> after]
    BY <1>9 DEF PlanSetAt
  <2>3. set.item \in Items /\ SetTo(set, vb, st)
    <3> HIDE DEF set, h
    <3> QED
      BY <1>1, <1>4, <1>9, <2>1, SettableSteps
  <2>4. set.item = item /\ set.st = after
    BY <2>1
  <2> HIDE DEF set, acc, after, error, val, h
  <2>5. /\ setError # NO_ERROR =>
             \A plan : AddItem(plan, item) = Add(plan, Data[h], Null, error)
        /\ ~(setError # NO_ERROR) =>
             \A plan : AddItem(plan, item) = Add(plan, Data[h], val, NO_ERROR)
    BY DEF AddItem, Item
  <2> HIDE DEF item, setError
  <2>6. \A plan : PlanSetAt(hit, acc(plan), vb, req)
                    = [plan |-> AddItem(plan, set.item), st |-> set.st]
    BY <2>2, <2>4, <2>5
  <2> QED
    BY <1>3, <2>3, <2>6 DEF acc
<1> QED
  BY <1>6, <1>7, <1>8, <1>9
-----------------------------------------------------------------------------
(* The kinds of what the folds of the two paths go through.                 *)

\* A SET, a repeater and a GETBULK on each path, and a serialised response.
PlanSets == [plan : Plans, st : States]

ItemSets == [out : Lists, st : States]

PlanRepeats == [plan : Plans, cursor : Seq(Nat), foundAt : Nat \ {0}, over : BOOLEAN]

Bulks == [out : Lists, overflow : BOOLEAN]

BulkRepeats == [bulk : Bulks, oid : Seq(Nat), foundAt : Nat \ {0}, broken : BOOLEAN]

Responses == [status : Nat, index : Nat, rows : Seq(Row)]

\* A varbind of a SET leads from a plan and a state to another.
LEMMA SetKinds ==
  ASSUME NEW req \in Request, NEW vb \in VarBind
  PROVE  /\ \A acc \in PlanSets : PlanSet(acc, vb, req) \in PlanSets
         /\ \A acc \in ItemSets : AfterSetItem(acc.out, SetItem(vb, req, acc.st)) \in ItemSets
<1>1. ASSUME NEW acc \in PlanSets PROVE PlanSet(acc, vb, req) \in PlanSets
  <2>1. /\ acc = [plan |-> acc.plan, st |-> acc.st]
        /\ acc.plan \in Plans /\ acc.st \in States
    BY DEF PlanSets
  <2> DEFINE plan == acc.plan
             st == acc.st
             set == SetItem(vb, req, st)
  <2>2. plan \in Plans /\ st \in States
    BY <2>1
  <2> HIDE DEF plan, st
  <2>3. /\ set.item \in Items /\ set.st \in States
        /\ ~plan.full => PlanSet([plan |-> plan, st |-> st], vb, req)
                           = [plan |-> AddItem(plan, set.item), st |-> set.st]
    <3>1. /\ set.item \in Items /\ SetTo(set, vb, st)
          /\ ~plan.full => PlanSet([plan |-> plan, st |-> st], vb, req)
                             = [plan |-> AddItem(plan, set.item), st |-> set.st]
      BY <2>2, SetSteps
    <3>2. set.st \in States
      <4> HIDE DEF set
      <4> QED
        BY <3>1 DEF SetTo
    <3> QED
      BY <3>1, <3>2
  <2> HIDE DEF set
  <2>4. [plan |-> AddItem(plan, set.item), st |-> set.st] \in PlanSets
    BY <2>2, <2>3, AddKeeps DEF PlanSets
  <2>5. acc = [plan |-> plan, st |-> st]
    BY <2>1 DEF plan, st
  <2>6. plan.full => PlanSet(acc, vb, req) = acc
    BY DEF PlanSet, plan
  <2> QED
    BY <2>3, <2>4, <2>5, <2>6
<1>2. ASSUME NEW acc \in ItemSets
      PROVE  AfterSetItem(acc.out, SetItem(vb, req, acc.st)) \in ItemSets
  <2> DEFINE set == SetItem(vb, req, acc.st)
  <2>1. acc.out \in Lists /\ acc.st \in States
    BY DEF ItemSets
  <2>2. set.item \in Items /\ set.st \in States
    BY <2>1, SetSteps DEF SetTo
  <2> HIDE DEF set
  <2>3. appendResponseVarBind(acc.out, set.item) \in Lists
    BY <2>1, <2>2, AppendKeeps
  <2>4. AfterSetItem(acc.out, set) \in ItemSets
    BY <2>2, <2>3 DEF AfterSetItem, ItemSets
  <2> QED
    BY <2>4 DEF set
<1> QED
  BY <1>1, <1>2

\* An append leads from one list of a GETBULK to another.
LEMMA BulkAppendKeeps ==
  /\ EmptyBulk \in Bulks
  /\ \A bulk \in Bulks, item \in Items : BulkAppend(bulk, item) \in Bulks
<1>1. EmptyBulk \in Bulks
  BY AppendKeeps DEF EmptyBulk, Bulks
<1>2. ASSUME NEW bulk \in Bulks, NEW item \in Items PROVE BulkAppend(bulk, item) \in Bulks
  <2>1. bulk.out \in Lists /\ bulk.overflow \in BOOLEAN
    BY DEF Bulks
  <2>2. appendResponseVarBind(bulk.out, item) \in Lists
    BY <2>1, AppendKeeps
  <2>3. (bulk.overflow \/ Len(bulk.out) >= MaxVarBinds) \in BOOLEAN
    BY <2>1
  <2> QED
    BY <2>2, <2>3, Zenon DEF BulkAppend, Bulks
<1> QED
  BY <1>1, <1>2

\* A repetition leads from one state of the repeater to another.
LEMMA RepeatKinds ==
  ASSUME NEW st \in States
  PROVE  /\ \A s \in PlanRepeats : PlanRepeat(s, st) \in PlanRepeats
         /\ \A s \in BulkRepeats : BulkRepeat(s, st) \in BulkRepeats
<1>1. ASSUME NEW s \in PlanRepeats PROVE PlanRepeat(s, st) \in PlanRepeats
  <2> DEFINE plan == s.plan
             cursor == s.cursor
             at == s.foundAt
             r == Repetition(cursor, at, st)
  <2>1. /\ s = [plan |-> plan, cursor |-> cursor, foundAt |-> at, over |-> s.over]
        /\ plan \in Plans /\ cursor \in Seq(Nat) /\ at \in Nat \ {0} /\ s.over \in BOOLEAN
    BY DEF PlanRepeats
  <2>2. plan.full \in BOOLEAN
    BY <2>1, PlanFields
  <2>3. CASE s.over \/ plan.full
    BY <2>3 DEF PlanRepeat
  <2>4. CASE ~s.over /\ ~plan.full
    <3> HIDE DEF plan, cursor, at
    <3>1. /\ r.item \in Items /\ r.ends \in BOOLEAN
          /\ r.cursor \in Seq(Nat) /\ r.foundAt \in Nat \ {0}
      BY <2>1, RepetitionFields
    <3>2. s = [plan |-> plan, cursor |-> cursor, foundAt |-> at, over |-> FALSE]
      <4>1. s.over = FALSE
        BY <2>1, <2>4
      <4> QED
        BY <2>1, <4>1
    <3> DEFINE next == PlanRepeat(s, st)
    <3>3. next = [plan |-> AddItem(plan, r.item), cursor |-> r.cursor,
                  foundAt |-> r.foundAt, over |-> r.ends]
      BY <2>1, <2>4, <3>2, RepeatSteps
    <3>4. AddItem(plan, r.item) \in Plans
      BY <2>1, <3>1, AddKeeps
    <3> HIDE DEF r, next
    <3>5. next \in PlanRepeats
      BY <3>1, <3>3, <3>4, Zenon DEF PlanRepeats
    <3> QED
      BY <3>5 DEF next
  <2> QED
    BY <2>1, <2>2, <2>3, <2>4
<1>2. ASSUME NEW s \in BulkRepeats PROVE BulkRepeat(s, st) \in BulkRepeats
  <2> DEFINE bulk == s.bulk
             cursor == s.oid
             at == s.foundAt
             r == Repetition(cursor, at, st)
             next == BulkRepeat(s, st)
  <2>1. /\ s = [bulk |-> bulk, oid |-> cursor, foundAt |-> at, broken |-> s.broken]
        /\ bulk \in Bulks /\ cursor \in Seq(Nat) /\ at \in Nat \ {0} /\ s.broken \in BOOLEAN
    BY DEF BulkRepeats
  <2>2. bulk.overflow \in BOOLEAN
    BY <2>1 DEF Bulks
  <2>3. CASE s.broken \/ bulk.overflow
    BY <2>3 DEF BulkRepeat
  <2>4. CASE ~s.broken /\ ~bulk.overflow
    <3> HIDE DEF bulk, cursor, at
    <3>1. r.item \in Items /\ r.ends \in BOOLEAN /\ r.cursor \in Seq(Nat)
      BY <2>1, RepetitionFields
    <3>2. s = [bulk |-> bulk, oid |-> cursor, foundAt |-> at, broken |-> FALSE]
      <4>1. s.broken = FALSE
        BY <2>1, <2>4
      <4> QED
        BY <2>1, <4>1
    <3>3. /\ next = [bulk |-> BulkAppend(bulk, r.item), oid |-> r.cursor,
                     foundAt |-> next.foundAt, broken |-> r.ends]
          /\ next.foundAt \in Nat \ {0}
      BY <2>1, <2>4, <3>2, RepeatSteps
    <3> DEFINE found == next.foundAt
    <3>4. BulkAppend(bulk, r.item) \in Bulks
      BY <2>1, <3>1, BulkAppendKeeps
    <3>5. next = [bulk |-> BulkAppend(bulk, r.item), oid |-> r.cursor,
                  foundAt |-> found, broken |-> r.ends] /\ found \in Nat \ {0}
      BY <3>3
    <3> HIDE DEF r, found, next
    <3>6. next \in BulkRepeats
      BY <3>1, <3>4, <3>5, Zenon DEF BulkRepeats
    <3> QED
      BY <3>6 DEF next
  <2> QED
    BY <2>1, <2>2, <2>3, <2>4
<1> QED
  BY <1>1, <1>2

\* An item leads from one response to another.
LEMMA ResponseKinds ==
  /\ NoResponse \in Responses
  /\ \A r \in Responses, item \in Items : addResponse(r, item) \in Responses
<1>1. NoResponse \in Responses
  BY DEF NoResponse, Responses, NO_ERROR
<1>2. ASSUME NEW r \in Responses, NEW item \in Items PROVE addResponse(r, item) \in Responses
  <2>1. r.status \in Nat /\ r.index \in Nat /\ r.rows \in Seq(Row)
    BY DEF Responses
  <2>2. RowOf(item) \in Row /\ item.error \in Nat
    BY ItemFields
  <2>3. Append(r.rows, RowOf(item)) \in Seq(Row) /\ Len(r.rows) + 1 \in Nat
    BY <2>1, <2>2
  <2>4. addResponse(r, item) = [status |-> IF item.error # NO_ERROR THEN item.error ELSE r.status,
                                index |-> IF item.error # NO_ERROR THEN Len(r.rows) + 1
                                          ELSE r.index,
                                rows |-> Append(r.rows, RowOf(item))]
    BY DEF addResponse, RowOf
  <2> QED
    BY <2>1, <2>2, <2>3, <2>4 DEF Responses
<1> QED
  BY <1>1, <1>2
-----------------------------------------------------------------------------
(* The folds of the two paths, as chains of their steps.                    *)

\* stageGet() goes through plans, a varbind at a time.
LEMMA GetPlanChain ==
  ASSUME NEW req \in Request, NEW st \in States, NEW onward \in BOOLEAN
  PROVE  \E g : /\ g \in [0 .. Len(req.vbs) -> Plans] /\ g[0] = EmptyPlan
                /\ \A i \in 1 .. Len(req.vbs) : g[i] = PlanGet(g[i - 1], req.vbs[i], req, st, onward)
                /\ stageGet(req, st, onward) = g[Len(req.vbs)]
<1> DEFINE n == Len(req.vbs)
           step == [i \in 1 .. n |-> [v \in Plans |-> PlanGet(v, req.vbs[i], req, st, onward)]]
           Body(iter) == [T \in SUBSET (1 .. n) |->
                            IF T = {} THEN EmptyPlan
                            ELSE PlanGet(iter[T \ {Max(T)}], req.vbs[Max(T)], req, st, onward)]
           it == CHOOSE iter : iter = Body(iter)
<1>1. n \in Nat /\ EmptyPlan \in Plans
  BY RequestFields, AddKeeps
<1>2. DOMAIN req.vbs = 1 .. n /\ \A i \in 1 .. n : req.vbs[i] \in VarBind
  BY RequestFields
<1> HIDE DEF n
<1>3. ASSUME NEW i \in 1 .. n, NEW v \in Plans PROVE PlanGet(v, req.vbs[i], req, st, onward) \in Plans
  BY <1>2, GetSteps, AddKeeps
<1>4. step \in [1 .. n -> [Plans -> Plans]]
  BY <1>3
<1>5. \A i \in 1 .. n, v \in Plans : step[i][v] = PlanGet(v, req.vbs[i], req, st, onward)
  OBVIOUS
<1> HIDE DEF step
<1>6. PICK f : IsPositionFold(f, n, Plans, EmptyPlan, step)
  BY <1>1, <1>4, PositionFold
<1>7. f = Body(f)
  <2>1. ASSUME NEW T \in SUBSET (1 .. n), T # {}
        PROVE  step[Max(T)][f[T \ {Max(T)}]]
                 = PlanGet(f[T \ {Max(T)}], req.vbs[Max(T)], req, st, onward)
    <3>1. Max(T) \in 1 .. n
      BY <1>1, <2>1, LargestPosition
    <3>2. f[T \ {Max(T)}] \in Plans
      BY <1>6 DEF IsPositionFold
    <3> QED
      BY <1>5, <3>1, <3>2
  <2> QED
    BY <1>6, <2>1 DEF IsPositionFold
<1>8. it = Body(it)
  <2> HIDE DEF Body
  <2> QED
    BY <1>7
<1>9. stageGet(req, st, onward) = it[1 .. n]
  BY <1>2 DEF stageGet, FoldLeft, MapThenFoldSet
<1>10. /\ it[{}] = EmptyPlan
       /\ \A T \in SUBSET (1 .. n) :
            T # {} => it[T] = PlanGet(it[T \ {Max(T)}], req.vbs[Max(T)], req, st, onward)
  BY <1>8
<1> HIDE DEF it
<1>11. Folds(it, n, Plans, EmptyPlan, step)
  <2>1. ASSUME NEW T \in SUBSET (1 .. n), T # {}, it[T \ {Max(T)}] \in Plans
        PROVE  it[T] = step[Max(T)][it[T \ {Max(T)}]]
    <3>1. Max(T) \in 1 .. n
      BY <1>1, <2>1, LargestPosition
    <3> QED
      BY <1>5, <1>10, <2>1, <3>1
  <2> QED
    BY <1>10, <2>1 DEF Folds
<1>12. PICK g : Chain(g, n, Plans, EmptyPlan, step) /\ g[n] = it[1 .. n]
  BY <1>1, <1>4, <1>11, FoldChain
<1>13. ASSUME NEW i \in 1 .. n PROVE g[i] = PlanGet(g[i - 1], req.vbs[i], req, st, onward)
  <2>1. g[i - 1] \in Plans /\ g[i] = step[i][g[i - 1]]
    BY <1>1, <1>12 DEF Chain
  <2> QED
    BY <1>5, <2>1
<1> QED
  BY <1>9, <1>12, <1>13 DEF Chain, n

\* handleGetRequestPDU() goes through lists.
LEMMA GetListChain ==
  ASSUME NEW req \in Request, NEW st \in States, NEW onward \in BOOLEAN
  PROVE  \E g : /\ g \in [0 .. Len(req.vbs) -> Lists] /\ g[0] = << >>
                /\ \A i \in 1 .. Len(req.vbs) :
                     g[i] = appendResponseVarBind(g[i - 1], GetItem(req.vbs[i], req, st, onward))
                /\ handleGetRequestPDU(req, st, onward) = g[Len(req.vbs)]
<1> DEFINE n == Len(req.vbs)
           step == [i \in 1 .. n |->
                      [v \in Lists |-> appendResponseVarBind(v, GetItem(req.vbs[i], req, st, onward))]]
           Body(iter) == [T \in SUBSET (1 .. n) |->
                            IF T = {} THEN << >>
                            ELSE appendResponseVarBind(iter[T \ {Max(T)}],
                                                       GetItem(req.vbs[Max(T)], req, st, onward))]
           it == CHOOSE iter : iter = Body(iter)
<1>1. n \in Nat /\ << >> \in Lists
  BY RequestFields, AppendKeeps
<1>2. DOMAIN req.vbs = 1 .. n /\ \A i \in 1 .. n : req.vbs[i] \in VarBind
  BY RequestFields
<1> HIDE DEF n
<1>3. ASSUME NEW i \in 1 .. n, NEW v \in Lists
      PROVE  appendResponseVarBind(v, GetItem(req.vbs[i], req, st, onward)) \in Lists
  BY <1>2, GetSteps, AppendKeeps
<1>4. step \in [1 .. n -> [Lists -> Lists]]
  BY <1>3
<1>5. \A i \in 1 .. n, v \in Lists :
      step[i][v] = appendResponseVarBind(v, GetItem(req.vbs[i], req, st, onward))
  OBVIOUS
<1> HIDE DEF step
<1>6. PICK f : IsPositionFold(f, n, Lists, << >>, step)
  BY <1>1, <1>4, PositionFold
<1>7. f = Body(f)
  <2>1. ASSUME NEW T \in SUBSET (1 .. n), T # {}
        PROVE  step[Max(T)][f[T \ {Max(T)}]]
                 = appendResponseVarBind(f[T \ {Max(T)}], GetItem(req.vbs[Max(T)], req, st, onward))
    <3>1. Max(T) \in 1 .. n
      BY <1>1, <2>1, LargestPosition
    <3>2. f[T \ {Max(T)}] \in Lists
      BY <1>6 DEF IsPositionFold
    <3> QED
      BY <1>5, <3>1, <3>2
  <2> QED
    BY <1>6, <2>1 DEF IsPositionFold
<1>8. it = Body(it)
  <2> HIDE DEF Body
  <2> QED
    BY <1>7
<1>9. handleGetRequestPDU(req, st, onward) = it[1 .. n]
  BY <1>2 DEF handleGetRequestPDU, FoldLeft, MapThenFoldSet
<1>10. /\ it[{}] = << >>
       /\ \A T \in SUBSET (1 .. n) :
            T # {} =>
                  it[T] = appendResponseVarBind(it[T \ {Max(T)}], GetItem(req.vbs[Max(T)], req, st, onward))
  BY <1>8
<1> HIDE DEF it
<1>11. Folds(it, n, Lists, << >>, step)
  <2>1. ASSUME NEW T \in SUBSET (1 .. n), T # {}, it[T \ {Max(T)}] \in Lists
        PROVE  it[T] = step[Max(T)][it[T \ {Max(T)}]]
    <3>1. Max(T) \in 1 .. n
      BY <1>1, <2>1, LargestPosition
    <3> QED
      BY <1>5, <1>10, <2>1, <3>1
  <2> QED
    BY <1>10, <2>1 DEF Folds
<1>12. PICK g : Chain(g, n, Lists, << >>, step) /\ g[n] = it[1 .. n]
  BY <1>1, <1>4, <1>11, FoldChain
<1>13. ASSUME NEW i \in 1 .. n
       PROVE  g[i] = appendResponseVarBind(g[i - 1], GetItem(req.vbs[i], req, st, onward))
  <2>1. g[i - 1] \in Lists /\ g[i] = step[i][g[i - 1]]
    BY <1>1, <1>12 DEF Chain
  <2> QED
    BY <1>5, <2>1
<1> QED
  BY <1>9, <1>12, <1>13 DEF Chain, n

\* stageSet() goes through plans and states of the handlers.
LEMMA SetPlanChain ==
  ASSUME NEW req \in Request, NEW st \in States
  PROVE  \E g : /\ g \in [0 .. Len(req.vbs) -> PlanSets] /\ g[0] = [plan |-> EmptyPlan, st |-> st]
                /\ \A i \in 1 .. Len(req.vbs) : g[i] = PlanSet(g[i - 1], req.vbs[i], req)
                /\ stageSet(req, st) = g[Len(req.vbs)]
<1> DEFINE n == Len(req.vbs)
           step == [i \in 1 .. n |-> [v \in PlanSets |-> PlanSet(v, req.vbs[i], req)]]
           Body(iter) == [T \in SUBSET (1 .. n) |->
                            IF T = {} THEN [plan |-> EmptyPlan, st |-> st]
                            ELSE PlanSet(iter[T \ {Max(T)}], req.vbs[Max(T)], req)]
           it == CHOOSE iter : iter = Body(iter)
<1>1. n \in Nat /\ [plan |-> EmptyPlan, st |-> st] \in PlanSets
  BY RequestFields, AddKeeps DEF PlanSets
<1>2. DOMAIN req.vbs = 1 .. n /\ \A i \in 1 .. n : req.vbs[i] \in VarBind
  BY RequestFields
<1> HIDE DEF n
<1>3. ASSUME NEW i \in 1 .. n, NEW v \in PlanSets PROVE PlanSet(v, req.vbs[i], req) \in PlanSets
  BY <1>2, SetKinds
<1>4. step \in [1 .. n -> [PlanSets -> PlanSets]]
  BY <1>3
<1>5. \A i \in 1 .. n, v \in PlanSets : step[i][v] = PlanSet(v, req.vbs[i], req)
  OBVIOUS
<1> HIDE DEF step
<1>6. PICK f : IsPositionFold(f, n, PlanSets, [plan |-> EmptyPlan, st |-> st], step)
  BY <1>1, <1>4, PositionFold
<1>7. f = Body(f)
  <2>1. ASSUME NEW T \in SUBSET (1 .. n), T # {}
        PROVE  step[Max(T)][f[T \ {Max(T)}]]
                 = PlanSet(f[T \ {Max(T)}], req.vbs[Max(T)], req)
    <3>1. Max(T) \in 1 .. n
      BY <1>1, <2>1, LargestPosition
    <3>2. f[T \ {Max(T)}] \in PlanSets
      BY <1>6 DEF IsPositionFold
    <3> QED
      BY <1>5, <3>1, <3>2
  <2> QED
    BY <1>6, <2>1 DEF IsPositionFold
<1>8. it = Body(it)
  <2> HIDE DEF Body
  <2> QED
    BY <1>7
<1>9. stageSet(req, st) = it[1 .. n]
  BY <1>2 DEF stageSet, FoldLeft, MapThenFoldSet
<1>10. /\ it[{}] = [plan |-> EmptyPlan, st |-> st]
       /\ \A T \in SUBSET (1 .. n) :
            T # {} => it[T] = PlanSet(it[T \ {Max(T)}], req.vbs[Max(T)], req)
  BY <1>8
<1> HIDE DEF it
<1>11. Folds(it, n, PlanSets, [plan |-> EmptyPlan, st |-> st], step)
  <2>1. ASSUME NEW T \in SUBSET (1 .. n), T # {}, it[T \ {Max(T)}] \in PlanSets
        PROVE  it[T] = step[Max(T)][it[T \ {Max(T)}]]
    <3>1. Max(T) \in 1 .. n
      BY <1>1, <2>1, LargestPosition
    <3> QED
      BY <1>5, <1>10, <2>1, <3>1
  <2> QED
    BY <1>10, <2>1 DEF Folds
<1>12. PICK g : Chain(g, n, PlanSets, [plan |-> EmptyPlan, st |-> st], step) /\ g[n] = it[1 .. n]
  BY <1>1, <1>4, <1>11, FoldChain
<1>13. ASSUME NEW i \in 1 .. n PROVE g[i] = PlanSet(g[i - 1], req.vbs[i], req)
  <2>1. g[i - 1] \in PlanSets /\ g[i] = step[i][g[i - 1]]
    BY <1>1, <1>12 DEF Chain
  <2> QED
    BY <1>5, <2>1
<1> QED
  BY <1>9, <1>12, <1>13 DEF Chain, n

\* handleSetRequestPDU() goes through lists and states of the handlers.
LEMMA SetListChain ==
  ASSUME NEW req \in Request, NEW st \in States
  PROVE  \E g : /\ g \in [0 .. Len(req.vbs) -> ItemSets] /\ g[0] = [out |-> << >>, st |-> st]
                /\ \A i \in 1 .. Len(req.vbs) :
                     g[i] = AfterSetItem(g[i - 1].out, SetItem(req.vbs[i], req, g[i - 1].st))
                /\ handleSetRequestPDU(req, st) = g[Len(req.vbs)]
<1> DEFINE n == Len(req.vbs)
           step == [i \in 1 .. n |->
                      [v \in ItemSets |-> AfterSetItem(v.out, SetItem(req.vbs[i], req, v.st))]]
           Body(iter) == [T \in SUBSET (1 .. n) |->
                            IF T = {} THEN [out |-> << >>, st |-> st]
                            ELSE AfterSetItem(iter[T \ {Max(T)}].out,
                                              SetItem(req.vbs[Max(T)], req, iter[T \ {Max(T)}].st))]
           it == CHOOSE iter : iter = Body(iter)
<1>1. n \in Nat /\ [out |-> << >>, st |-> st] \in ItemSets
  BY RequestFields, AppendKeeps DEF ItemSets
<1>2. DOMAIN req.vbs = 1 .. n /\ \A i \in 1 .. n : req.vbs[i] \in VarBind
  BY RequestFields
<1> HIDE DEF n
<1>3. ASSUME NEW i \in 1 .. n, NEW v \in ItemSets
      PROVE  AfterSetItem(v.out, SetItem(req.vbs[i], req, v.st)) \in ItemSets
  BY <1>2, SetKinds
<1>4. step \in [1 .. n -> [ItemSets -> ItemSets]]
  BY <1>3
<1>5. \A i \in 1 .. n, v \in ItemSets : step[i][v] = AfterSetItem(v.out, SetItem(req.vbs[i], req, v.st))
  OBVIOUS
<1> HIDE DEF step
<1>6. PICK f : IsPositionFold(f, n, ItemSets, [out |-> << >>, st |-> st], step)
  BY <1>1, <1>4, PositionFold
<1>7. f = Body(f)
  <2>1. ASSUME NEW T \in SUBSET (1 .. n), T # {}
        PROVE  step[Max(T)][f[T \ {Max(T)}]]
                 = AfterSetItem(f[T \ {Max(T)}].out, SetItem(req.vbs[Max(T)], req, f[T \ {Max(T)}].st))
    <3>1. Max(T) \in 1 .. n
      BY <1>1, <2>1, LargestPosition
    <3>2. f[T \ {Max(T)}] \in ItemSets
      BY <1>6 DEF IsPositionFold
    <3> QED
      BY <1>5, <3>1, <3>2
  <2> QED
    BY <1>6, <2>1 DEF IsPositionFold
<1>8. it = Body(it)
  <2> HIDE DEF Body
  <2> QED
    BY <1>7
<1>9. handleSetRequestPDU(req, st) = it[1 .. n]
  BY <1>2 DEF handleSetRequestPDU, FoldLeft, MapThenFoldSet
<1>10. /\ it[{}] = [out |-> << >>, st |-> st]
       /\ \A T \in SUBSET (1 .. n) :
            T # {} =>
                  it[T] = AfterSetItem(it[T \ {Max(T)}].out, SetItem(req.vbs[Max(T)], req, it[T \ {Max(T)}].st))
  BY <1>8
<1> HIDE DEF it
<1>11. Folds(it, n, ItemSets, [out |-> << >>, st |-> st], step)
  <2>1. ASSUME NEW T \in SUBSET (1 .. n), T # {}, it[T \ {Max(T)}] \in ItemSets
        PROVE  it[T] = step[Max(T)][it[T \ {Max(T)}]]
    <3>1. Max(T) \in 1 .. n
      BY <1>1, <2>1, LargestPosition
    <3> QED
      BY <1>5, <1>10, <2>1, <3>1
  <2> QED
    BY <1>10, <2>1 DEF Folds
<1>12. PICK g : Chain(g, n, ItemSets, [out |-> << >>, st |-> st], step) /\ g[n] = it[1 .. n]
  BY <1>1, <1>4, <1>11, FoldChain
<1>13. ASSUME NEW i \in 1 .. n
       PROVE  g[i] = AfterSetItem(g[i - 1].out, SetItem(req.vbs[i], req, g[i - 1].st))
  <2>1. g[i - 1] \in ItemSets /\ g[i] = step[i][g[i - 1]]
    BY <1>1, <1>12 DEF Chain
  <2> QED
    BY <1>5, <2>1
<1> QED
  BY <1>9, <1>12, <1>13 DEF Chain, n

\* addResponses() goes through responses, an item at a time.
LEMMA ResponseChain ==
  ASSUME NEW out \in Seq(Items)
  PROVE  \E g : /\ g \in [0 .. Len(out) -> Responses] /\ g[0] = NoResponse
                /\ \A i \in 1 .. Len(out) : g[i] = addResponse(g[i - 1], out[i])
                /\ addResponses(out) = g[Len(out)]
<1> DEFINE n == Len(out)
           step == [i \in 1 .. n |-> [v \in Responses |-> addResponse(v, out[i])]]
           Body(iter) == [T \in SUBSET (1 .. n) |->
                            IF T = {} THEN NoResponse
                            ELSE addResponse(iter[T \ {Max(T)}], out[Max(T)])]
           it == CHOOSE iter : iter = Body(iter)
<1>1. n \in Nat /\ NoResponse \in Responses
  BY ResponseKinds
<1>2. DOMAIN out = 1 .. n /\ \A i \in 1 .. n : out[i] \in Items
  OBVIOUS
<1> HIDE DEF n
<1>3. ASSUME NEW i \in 1 .. n, NEW v \in Responses PROVE addResponse(v, out[i]) \in Responses
  BY <1>2, ResponseKinds
<1>4. step \in [1 .. n -> [Responses -> Responses]]
  BY <1>3
<1>5. \A i \in 1 .. n, v \in Responses : step[i][v] = addResponse(v, out[i])
  OBVIOUS
<1> HIDE DEF step
<1>6. PICK f : IsPositionFold(f, n, Responses, NoResponse, step)
  BY <1>1, <1>4, PositionFold
<1>7. f = Body(f)
  <2>1. ASSUME NEW T \in SUBSET (1 .. n), T # {}
        PROVE  step[Max(T)][f[T \ {Max(T)}]]
                 = addResponse(f[T \ {Max(T)}], out[Max(T)])
    <3>1. Max(T) \in 1 .. n
      BY <1>1, <2>1, LargestPosition
    <3>2. f[T \ {Max(T)}] \in Responses
      BY <1>6 DEF IsPositionFold
    <3> QED
      BY <1>5, <3>1, <3>2
  <2> QED
    BY <1>6, <2>1 DEF IsPositionFold
<1>8. it = Body(it)
  <2> HIDE DEF Body
  <2> QED
    BY <1>7
<1>9. addResponses(out) = it[1 .. n]
  BY <1>2 DEF addResponses, FoldLeft, MapThenFoldSet
<1>10. /\ it[{}] = NoResponse
       /\ \A T \in SUBSET (1 .. n) :
            T # {} => it[T] = addResponse(it[T \ {Max(T)}], out[Max(T)])
  BY <1>8
<1> HIDE DEF it
<1>11. Folds(it, n, Responses, NoResponse, step)
  <2>1. ASSUME NEW T \in SUBSET (1 .. n), T # {}, it[T \ {Max(T)}] \in Responses
        PROVE  it[T] = step[Max(T)][it[T \ {Max(T)}]]
    <3>1. Max(T) \in 1 .. n
      BY <1>1, <2>1, LargestPosition
    <3>2. it[T] = addResponse(it[T \ {Max(T)}], out[Max(T)])
      BY <1>10, <2>1
    <3>3. step[Max(T)][it[T \ {Max(T)}]] = addResponse(it[T \ {Max(T)}], out[Max(T)])
      BY <1>5, <2>1, <3>1
    <3> QED
      BY <3>2, <3>3
  <2> QED
    BY <1>10, <2>1 DEF Folds
<1>12. PICK g : Chain(g, n, Responses, NoResponse, step) /\ g[n] = it[1 .. n]
  BY <1>1, <1>4, <1>11, FoldChain, SMTT(30)
<1>13. ASSUME NEW i \in 1 .. n PROVE g[i] = addResponse(g[i - 1], out[i])
  <2>1. g[i - 1] \in Responses /\ g[i] = step[i][g[i - 1]]
    BY <1>1, <1>12 DEF Chain
  <2> QED
    BY <1>5, <2>1
<1> QED
  BY <1>9, <1>12, <1>13 DEF Chain, n

\* Where the repeater of each path starts.
RepeatStart(plan, vb) == [plan |-> plan, cursor |-> vb.oid, foundAt |-> 1, over |-> FALSE]

\* And on the path of containers.
BulkRepeatStart(bulk, vb) == [bulk |-> bulk, oid |-> vb.oid, foundAt |-> 1, broken |-> FALSE]

\* The repeater of stageGetBulk() goes through plans and positions.
LEMMA RepeaterPlanChain ==
  ASSUME NEW plan \in Plans, NEW vb \in VarBind, NEW times \in Nat,
         NEW st \in States
  PROVE  \E g : /\ g \in [0 .. times -> PlanRepeats] /\ g[0] = RepeatStart(plan, vb)
                /\ \A i \in 1 .. times : g[i] = PlanRepeat(g[i - 1], st)
                /\ PlanRepeater(plan, vb, times, st) = g[times].plan
<1> DEFINE n == times
           start == RepeatStart(plan, vb)
           step == [i \in 1 .. n |-> [v \in PlanRepeats |-> PlanRepeat(v, st)]]
           Body(iter) == [T \in SUBSET (1 .. n) |->
                            IF T = {} THEN start
                            ELSE PlanRepeat(iter[T \ {Max(T)}], st)]
           it == CHOOSE iter : iter = Body(iter)
<1>1. n \in Nat /\ start \in PlanRepeats
  <2>1. vb.oid \in Seq(Nat) /\ 1 \in Nat \ {0} /\ FALSE \in BOOLEAN
    BY VarBindFields
  <2> QED
    BY <2>1 DEF PlanRepeats, RepeatStart
<1>2. DOMAIN [k \in 1 .. n |-> k] = 1 .. n
  OBVIOUS
<1> HIDE DEF n
<1>3. ASSUME NEW i \in 1 .. n, NEW v \in PlanRepeats PROVE PlanRepeat(v, st) \in PlanRepeats
  BY RepeatKinds
<1>4. step \in [1 .. n -> [PlanRepeats -> PlanRepeats]]
  BY <1>3
<1>5. \A i \in 1 .. n, v \in PlanRepeats : step[i][v] = PlanRepeat(v, st)
  OBVIOUS
<1> HIDE DEF step
<1>6. PICK f : IsPositionFold(f, n, PlanRepeats, start, step)
  BY <1>1, <1>4, PositionFold
<1>7. f = Body(f)
  <2>1. ASSUME NEW T \in SUBSET (1 .. n), T # {}
        PROVE  step[Max(T)][f[T \ {Max(T)}]]
                 = PlanRepeat(f[T \ {Max(T)}], st)
    <3>1. Max(T) \in 1 .. n
      BY <1>1, <2>1, LargestPosition
    <3>2. f[T \ {Max(T)}] \in PlanRepeats
      BY <1>6 DEF IsPositionFold
    <3> QED
      BY <1>5, <3>1, <3>2
  <2> QED
    BY <1>6, <2>1 DEF IsPositionFold
<1>8. it = Body(it)
  <2> HIDE DEF Body
  <2> QED
    BY <1>7
<1>9. PlanRepeater(plan, vb, times, st) = it[1 .. n].plan
  BY <1>2 DEF n, RepeatStart, PlanRepeater, FoldLeft, MapThenFoldSet
<1>10. /\ it[{}] = start
       /\ \A T \in SUBSET (1 .. n) :
            T # {} => it[T] = PlanRepeat(it[T \ {Max(T)}], st)
  BY <1>8
<1> HIDE DEF it, start
<1>11. Folds(it, n, PlanRepeats, start, step)
  <2>1. ASSUME NEW T \in SUBSET (1 .. n), T # {}, it[T \ {Max(T)}] \in PlanRepeats
        PROVE  it[T] = step[Max(T)][it[T \ {Max(T)}]]
    <3>1. Max(T) \in 1 .. n
      BY <1>1, <2>1, LargestPosition
    <3> QED
      BY <1>5, <1>10, <2>1, <3>1
  <2> QED
    BY <1>10, <2>1 DEF Folds
<1>12. PICK g : Chain(g, n, PlanRepeats, start, step) /\ g[n] = it[1 .. n]
  BY <1>1, <1>4, <1>11, FoldChain
<1>13. ASSUME NEW i \in 1 .. n PROVE g[i] = PlanRepeat(g[i - 1], st)
  <2>1. g[i - 1] \in PlanRepeats /\ g[i] = step[i][g[i - 1]]
    BY <1>1, <1>12 DEF Chain
  <2> QED
    BY <1>5, <2>1
<1> QED
  BY <1>9, <1>12, <1>13 DEF Chain, n, start

\* That of handleGetBulkRequestPDU() goes through lists and positions.
LEMMA RepeaterListChain ==
  ASSUME NEW bulk \in Bulks, NEW vb \in VarBind, NEW times \in Nat,
         NEW st \in States
  PROVE  \E g : /\ g \in [0 .. times -> BulkRepeats] /\ g[0] = BulkRepeatStart(bulk, vb)
                /\ \A i \in 1 .. times : g[i] = BulkRepeat(g[i - 1], st)
                /\ BulkRepeater(bulk, vb, times, st) = g[times].bulk
<1> DEFINE n == times
           start == BulkRepeatStart(bulk, vb)
           step == [i \in 1 .. n |-> [v \in BulkRepeats |-> BulkRepeat(v, st)]]
           Body(iter) == [T \in SUBSET (1 .. n) |->
                            IF T = {} THEN start
                            ELSE BulkRepeat(iter[T \ {Max(T)}], st)]
           it == CHOOSE iter : iter = Body(iter)
<1>1. n \in Nat /\ start \in BulkRepeats
  <2>1. vb.oid \in Seq(Nat) /\ 1 \in Nat \ {0} /\ FALSE \in BOOLEAN
    BY VarBindFields
  <2> QED
    BY <2>1 DEF BulkRepeats, BulkRepeatStart
<1>2. DOMAIN [k \in 1 .. n |-> k] = 1 .. n
  OBVIOUS
<1> HIDE DEF n
<1>3. ASSUME NEW i \in 1 .. n, NEW v \in BulkRepeats PROVE BulkRepeat(v, st) \in BulkRepeats
  BY RepeatKinds
<1>4. step \in [1 .. n -> [BulkRepeats -> BulkRepeats]]
  BY <1>3
<1>5. \A i \in 1 .. n, v \in BulkRepeats : step[i][v] = BulkRepeat(v, st)
  OBVIOUS
<1> HIDE DEF step
<1>6. PICK f : IsPositionFold(f, n, BulkRepeats, start, step)
  BY <1>1, <1>4, PositionFold
<1>7. f = Body(f)
  <2>1. ASSUME NEW T \in SUBSET (1 .. n), T # {}
        PROVE  step[Max(T)][f[T \ {Max(T)}]]
                 = BulkRepeat(f[T \ {Max(T)}], st)
    <3>1. Max(T) \in 1 .. n
      BY <1>1, <2>1, LargestPosition
    <3>2. f[T \ {Max(T)}] \in BulkRepeats
      BY <1>6 DEF IsPositionFold
    <3> QED
      BY <1>5, <3>1, <3>2
  <2> QED
    BY <1>6, <2>1 DEF IsPositionFold
<1>8. it = Body(it)
  <2> HIDE DEF Body
  <2> QED
    BY <1>7
<1>9. BulkRepeater(bulk, vb, times, st) = it[1 .. n].bulk
  BY <1>2 DEF n, BulkRepeatStart, BulkRepeater, FoldLeft, MapThenFoldSet
<1>10. /\ it[{}] = start
       /\ \A T \in SUBSET (1 .. n) :
            T # {} => it[T] = BulkRepeat(it[T \ {Max(T)}], st)
  BY <1>8
<1> HIDE DEF it, start
<1>11. Folds(it, n, BulkRepeats, start, step)
  <2>1. ASSUME NEW T \in SUBSET (1 .. n), T # {}, it[T \ {Max(T)}] \in BulkRepeats
        PROVE  it[T] = step[Max(T)][it[T \ {Max(T)}]]
    <3>1. Max(T) \in 1 .. n
      BY <1>1, <2>1, LargestPosition
    <3> QED
      BY <1>5, <1>10, <2>1, <3>1
  <2> QED
    BY <1>10, <2>1 DEF Folds
<1>12. PICK g : Chain(g, n, BulkRepeats, start, step) /\ g[n] = it[1 .. n]
  BY <1>1, <1>4, <1>11, FoldChain
<1>13. ASSUME NEW i \in 1 .. n PROVE g[i] = BulkRepeat(g[i - 1], st)
  <2>1. g[i - 1] \in BulkRepeats /\ g[i] = step[i][g[i - 1]]
    BY <1>1, <1>12 DEF Chain
  <2> QED
    BY <1>5, <2>1
<1> QED
  BY <1>9, <1>12, <1>13 DEF Chain, n, start

\* The repeaters return a plan and a list.
LEMMA RepeaterKinds ==
  ASSUME NEW st \in States, NEW vb \in VarBind, NEW times \in Nat
  PROVE  /\ \A plan \in Plans : PlanRepeater(plan, vb, times, st) \in Plans
         /\ \A bulk \in Bulks : BulkRepeater(bulk, vb, times, st) \in Bulks
<1>1. times \in 0 .. times
  OBVIOUS
<1>2. ASSUME NEW plan \in Plans PROVE PlanRepeater(plan, vb, times, st) \in Plans
  <2>1. PICK g : /\ g \in [0 .. times -> PlanRepeats] /\ g[0] = RepeatStart(plan, vb)
                 /\ \A i \in 1 .. times : g[i] = PlanRepeat(g[i - 1], st)
                 /\ PlanRepeater(plan, vb, times, st) = g[times].plan
    BY RepeaterPlanChain
  <2>2. g[times] \in PlanRepeats
    BY <1>1, <2>1
  <2>3. g[times].plan \in Plans
    BY <2>2 DEF PlanRepeats
  <2> QED
    BY <2>1, <2>3
<1>3. ASSUME NEW bulk \in Bulks PROVE BulkRepeater(bulk, vb, times, st) \in Bulks
  <2>1. PICK g : /\ g \in [0 .. times -> BulkRepeats] /\ g[0] = BulkRepeatStart(bulk, vb)
                 /\ \A i \in 1 .. times : g[i] = BulkRepeat(g[i - 1], st)
                 /\ BulkRepeater(bulk, vb, times, st) = g[times].bulk
    BY RepeaterListChain
  <2>2. g[times] \in BulkRepeats
    BY <1>1, <2>1
  <2>3. g[times].bulk \in Bulks
    BY <2>2 DEF BulkRepeats
  <2> QED
    BY <2>1, <2>3
<1> QED
  BY <1>2, <1>3

\* So does a varbind of a GETBULK.
LEMMA BulkKinds ==
  ASSUME NEW req \in Request, NEW st \in States, NEW i \in 1 .. Len(req.vbs)
  PROVE  /\ \A plan \in Plans : PlanBulk(plan, i, req, st) \in Plans
         /\ \A bulk \in Bulks : BulkVarBind(bulk, i, req, st) \in Bulks
<1> DEFINE vb == req.vbs[i]
           times == req.maxRepetitions
<1>1. vb \in VarBind /\ times \in Nat
  BY RequestFields
<1> HIDE DEF vb, times
<1>2. PICK item \in Items :
        /\ \A plan : PlanNonRepeater(plan, vb, st) = AddItem(plan, item)
        /\ \A bulk : BulkNonRepeater(bulk, vb, st) = BulkAppend(bulk, item)
  BY <1>1, NonRepeaterSteps
<1>3. ASSUME NEW plan \in Plans PROVE PlanBulk(plan, i, req, st) \in Plans
  <2>1. PlanNonRepeater(plan, vb, st) \in Plans
    BY <1>2, AddKeeps
  <2>2. PlanRepeater(plan, vb, times, st) \in Plans
    BY <1>1, RepeaterKinds
  <2> QED
    BY <2>1, <2>2 DEF PlanBulk, vb, times
<1>4. ASSUME NEW bulk \in Bulks PROVE BulkVarBind(bulk, i, req, st) \in Bulks
  <2>1. BulkNonRepeater(bulk, vb, st) \in Bulks
    BY <1>2, BulkAppendKeeps
  <2>2. BulkRepeater(bulk, vb, times, st) \in Bulks
    BY <1>1, RepeaterKinds
  <2> QED
    BY <2>1, <2>2 DEF BulkVarBind, vb, times
<1> QED
  BY <1>3, <1>4

\* stageGetBulk() goes through plans.
LEMMA BulkPlanChain ==
  ASSUME NEW req \in Request, NEW st \in States
  PROVE  \E g : /\ g \in [0 .. Len(req.vbs) -> Plans] /\ g[0] = EmptyPlan
                /\ \A i \in 1 .. Len(req.vbs) : g[i] = PlanBulk(g[i - 1], i, req, st)
                /\ stageGetBulk(req, st) = g[Len(req.vbs)]
<1> DEFINE n == Len(req.vbs)
           ids == [i \in 1 .. n |-> i]
           step == [i \in 1 .. n |-> [v \in Plans |-> PlanBulk(v, i, req, st)]]
           Body(iter) == [T \in SUBSET (1 .. n) |->
                            IF T = {} THEN EmptyPlan
                            ELSE PlanBulk(iter[T \ {Max(T)}], ids[Max(T)], req, st)]
           it == CHOOSE iter : iter = Body(iter)
<1>1. n \in Nat /\ EmptyPlan \in Plans
  BY RequestFields, AddKeeps
<1>2. DOMAIN req.vbs = 1 .. n
  BY RequestFields
<1> HIDE DEF n
<1>2a. \A i \in 1 .. n : ids[i] = i
  OBVIOUS
<1>3. ASSUME NEW i \in 1 .. n, NEW v \in Plans PROVE PlanBulk(v, i, req, st) \in Plans
  BY BulkKinds DEF n
<1>4. step \in [1 .. n -> [Plans -> Plans]]
  BY <1>3
<1>5. \A i \in 1 .. n, v \in Plans : step[i][v] = PlanBulk(v, i, req, st)
  OBVIOUS
<1> HIDE DEF step
<1>6. PICK f : IsPositionFold(f, n, Plans, EmptyPlan, step)
  BY <1>1, <1>4, PositionFold
<1>7. f = Body(f)
  <2>1. ASSUME NEW T \in SUBSET (1 .. n), T # {}
        PROVE  step[Max(T)][f[T \ {Max(T)}]]
                 = PlanBulk(f[T \ {Max(T)}], ids[Max(T)], req, st)
    <3>1. Max(T) \in 1 .. n
      BY <1>1, <2>1, LargestPosition
    <3>2. f[T \ {Max(T)}] \in Plans
      BY <1>6 DEF IsPositionFold
    <3> QED
      BY <1>2a, <1>5, <3>1, <3>2
  <2> QED
    BY <1>6, <2>1 DEF IsPositionFold
<1>8. it = Body(it)
  <2> HIDE DEF Body
  <2> QED
    BY <1>7
<1>9. stageGetBulk(req, st) = it[1 .. n]
  BY <1>2 DEF stageGetBulk, FoldLeftDomain, FoldLeft, MapThenFoldSet
<1>10. /\ it[{}] = EmptyPlan
       /\ \A T \in SUBSET (1 .. n) :
            T # {} => it[T] = PlanBulk(it[T \ {Max(T)}], ids[Max(T)], req, st)
  BY <1>8
<1> HIDE DEF it, ids
<1>11. Folds(it, n, Plans, EmptyPlan, step)
  <2>1. ASSUME NEW T \in SUBSET (1 .. n), T # {}, it[T \ {Max(T)}] \in Plans
        PROVE  it[T] = step[Max(T)][it[T \ {Max(T)}]]
    <3>1. Max(T) \in 1 .. n
      BY <1>1, <2>1, LargestPosition
    <3> QED
      BY <1>2a, <1>5, <1>10, <2>1, <3>1
  <2> QED
    BY <1>10, <2>1 DEF Folds
<1>12. PICK g : Chain(g, n, Plans, EmptyPlan, step) /\ g[n] = it[1 .. n]
  BY <1>1, <1>4, <1>11, FoldChain
<1>13. ASSUME NEW i \in 1 .. n PROVE g[i] = PlanBulk(g[i - 1], i, req, st)
  <2>1. g[i - 1] \in Plans /\ g[i] = step[i][g[i - 1]]
    BY <1>1, <1>12 DEF Chain
  <2> QED
    BY <1>5, <2>1
<1> QED
  BY <1>9, <1>12, <1>13 DEF Chain, n

\* handleGetBulkRequestPDU() goes through lists.
LEMMA BulkListChain ==
  ASSUME NEW req \in Request, NEW st \in States
  PROVE  \E g : /\ g \in [0 .. Len(req.vbs) -> Bulks] /\ g[0] = EmptyBulk
                /\ \A i \in 1 .. Len(req.vbs) : g[i] = BulkVarBind(g[i - 1], i, req, st)
                /\ handleGetBulkRequestPDU(req, st) = g[Len(req.vbs)]
<1> DEFINE n == Len(req.vbs)
           ids == [i \in 1 .. n |-> i]
           step == [i \in 1 .. n |-> [v \in Bulks |-> BulkVarBind(v, i, req, st)]]
           Body(iter) == [T \in SUBSET (1 .. n) |->
                            IF T = {} THEN EmptyBulk
                            ELSE BulkVarBind(iter[T \ {Max(T)}], ids[Max(T)], req, st)]
           it == CHOOSE iter : iter = Body(iter)
<1>1. n \in Nat /\ EmptyBulk \in Bulks
  BY RequestFields, BulkAppendKeeps
<1>2. DOMAIN req.vbs = 1 .. n
  BY RequestFields
<1> HIDE DEF n
<1>2a. \A i \in 1 .. n : ids[i] = i
  OBVIOUS
<1>3. ASSUME NEW i \in 1 .. n, NEW v \in Bulks PROVE BulkVarBind(v, i, req, st) \in Bulks
  BY BulkKinds DEF n
<1>4. step \in [1 .. n -> [Bulks -> Bulks]]
  BY <1>3
<1>5. \A i \in 1 .. n, v \in Bulks : step[i][v] = BulkVarBind(v, i, req, st)
  OBVIOUS
<1> HIDE DEF step
<1>6. PICK f : IsPositionFold(f, n, Bulks, EmptyBulk, step)
  BY <1>1, <1>4, PositionFold
<1>7. f = Body(f)
  <2>1. ASSUME NEW T \in SUBSET (1 .. n), T # {}
        PROVE  step[Max(T)][f[T \ {Max(T)}]]
                 = BulkVarBind(f[T \ {Max(T)}], ids[Max(T)], req, st)
    <3>1. Max(T) \in 1 .. n
      BY <1>1, <2>1, LargestPosition
    <3>2. f[T \ {Max(T)}] \in Bulks
      BY <1>6 DEF IsPositionFold
    <3> QED
      BY <1>2a, <1>5, <3>1, <3>2
  <2> QED
    BY <1>6, <2>1 DEF IsPositionFold
<1>8. it = Body(it)
  <2> HIDE DEF Body
  <2> QED
    BY <1>7
<1>9. handleGetBulkRequestPDU(req, st) = it[1 .. n]
  BY <1>2 DEF handleGetBulkRequestPDU, FoldLeftDomain, FoldLeft, MapThenFoldSet
<1>10. /\ it[{}] = EmptyBulk
       /\ \A T \in SUBSET (1 .. n) :
            T # {} => it[T] = BulkVarBind(it[T \ {Max(T)}], ids[Max(T)], req, st)
  BY <1>8
<1> HIDE DEF it, ids
<1>11. Folds(it, n, Bulks, EmptyBulk, step)
  <2>1. ASSUME NEW T \in SUBSET (1 .. n), T # {}, it[T \ {Max(T)}] \in Bulks
        PROVE  it[T] = step[Max(T)][it[T \ {Max(T)}]]
    <3>1. Max(T) \in 1 .. n
      BY <1>1, <2>1, LargestPosition
    <3> QED
      BY <1>2a, <1>5, <1>10, <2>1, <3>1
  <2> QED
    BY <1>10, <2>1 DEF Folds
<1>12. PICK g : Chain(g, n, Bulks, EmptyBulk, step) /\ g[n] = it[1 .. n]
  BY <1>1, <1>4, <1>11, FoldChain
<1>13. ASSUME NEW i \in 1 .. n PROVE g[i] = BulkVarBind(g[i - 1], i, req, st)
  <2>1. g[i - 1] \in Bulks /\ g[i] = step[i][g[i - 1]]
    BY <1>1, <1>12 DEF Chain
  <2> QED
    BY <1>5, <2>1
<1> QED
  BY <1>9, <1>12, <1>13 DEF Chain, n
-----------------------------------------------------------------------------
(* The two paths, side by side.                                             *)

\* What a response is after each item.
Responding(g, out) ==
  /\ g \in [0 .. Len(out) -> Responses] /\ g[0] = NoResponse
  /\ \A i \in 1 .. Len(out) : g[i] = addResponse(g[i - 1], out[i])

\* An item more is an item added to the response.
LEMMA ResponseSteps ==
  /\ addResponses(<< >>) = NoResponse
  /\ \A out \in Seq(Items), item \in Items :
       addResponses(Append(out, item)) = addResponse(addResponses(out), item)
<1>1. ASSUME NEW out \in Seq(Items)
      PROVE  \E g : Responding(g, out) /\ addResponses(out) = g[Len(out)]
  <2>1. PICK g : /\ g \in [0 .. Len(out) -> Responses] /\ g[0] = NoResponse
                 /\ \A i \in 1 .. Len(out) : g[i] = addResponse(g[i - 1], out[i])
                 /\ addResponses(out) = g[Len(out)]
    BY ResponseChain
  <2> QED
    BY <2>1 DEF Responding
<1>2. addResponses(<< >>) = NoResponse
  <2> DEFINE s == << >>
  <2>1. s \in Seq(Items) /\ Len(s) = 0
    OBVIOUS
  <2> HIDE DEF s
  <2>2. PICK g : Responding(g, s) /\ addResponses(s) = g[Len(s)]
    BY <1>1, <2>1
  <2>3. addResponses(s) = NoResponse
    BY <2>1, <2>2 DEF Responding
  <2> QED
    BY <2>3 DEF s
<1>3. ASSUME NEW s \in Seq(Items), NEW x \in Items
      PROVE  addResponses(Append(s, x)) = addResponse(addResponses(s), x)
  <2> DEFINE t == Append(s, x)
             n == Len(s)
  <2>1. n \in Nat /\ t \in Seq(Items) /\ Len(t) = n + 1
    OBVIOUS
  <2>2. t[n + 1] = x /\ \A i \in 1 .. n : t[i] = s[i]
    OBVIOUS
  <2> HIDE DEF t
  <2>3. PICK g : Responding(g, s) /\ addResponses(s) = g[n]
    BY <1>1
  <2>4. PICK h : Responding(h, t) /\ addResponses(t) = h[n + 1]
    BY <1>1, <2>1
  <2> HIDE DEF n
  <2>5. g[0] = h[0]
    BY <2>3, <2>4 DEF Responding
  <2>6. ASSUME NEW i \in 1 .. n, g[i - 1] = h[i - 1] PROVE g[i] = h[i]
    <3>1. g[i] = addResponse(g[i - 1], s[i])
      BY <2>3 DEF Responding, n
    <3>2. i \in 1 .. Len(t)
      BY <2>1
    <3>3. h[i] = addResponse(h[i - 1], t[i])
      BY <2>4, <3>2 DEF Responding
    <3>4. t[i] = s[i]
      BY <2>2
    <3> QED
      BY <2>6, <3>1, <3>3, <3>4, Zenon
  <2>7. g[n] = h[n]
    <3>1. n \in Nat
      BY <2>1
    <3>2. StepAlike(g, h, n)
      BY <2>5, <2>6 DEF StepAlike
    <3>3. \A i \in 0 .. n : g[i] = h[i]
      BY <3>1, <3>2, SameChain
    <3> QED
      BY <3>1, <3>3
  <2>8. h[n + 1] = addResponse(h[n], x)
    <3>1. n + 1 \in 1 .. Len(t) /\ (n + 1) - 1 = n
      BY <2>1
    <3>2. h[n + 1] = addResponse(h[(n + 1) - 1], t[n + 1])
      BY <2>4, <3>1 DEF Responding
    <3> QED
      BY <2>2, <3>1, <3>2
  <2> QED
    BY <2>3, <2>4, <2>7, <2>8 DEF t
<1> QED
  BY <1>2, <1>3

\* The response made of the list is the one the plan holds.
Mirrors(plan, out) ==
  /\ addResponses(out) = [status |-> plan.lastError, index |-> plan.lastErrorIndex,
                          rows |-> plan.rows]
  /\ Len(out) = Len(plan.rows)

\* It stays so when both take the same item and have room for it.
LEMMA AddMirrors ==
  /\ Mirrors(EmptyPlan, << >>) /\ ~EmptyPlan.full /\ Len(EmptyPlan.rows) = 0
  /\ \A plan \in Plans, out \in Lists, item \in Items :
       ~plan.full /\ Len(plan.rows) < MaxVarBinds /\ Mirrors(plan, out) =>
         /\ Mirrors(AddItem(plan, item), appendResponseVarBind(out, item))
         /\ ~AddItem(plan, item).full
         /\ Len(AddItem(plan, item).rows) = Len(plan.rows) + 1
<1>1. Mirrors(EmptyPlan, << >>) /\ ~EmptyPlan.full /\ Len(EmptyPlan.rows) = 0
  BY ResponseSteps DEF Mirrors, EmptyPlan, NoResponse
<1>2. ASSUME NEW plan \in Plans, NEW out \in Lists, NEW item \in Items,
             ~plan.full, Len(plan.rows) < MaxVarBinds, Mirrors(plan, out)
      PROVE  /\ Mirrors(AddItem(plan, item), appendResponseVarBind(out, item))
             /\ ~AddItem(plan, item).full
             /\ Len(AddItem(plan, item).rows) = Len(plan.rows) + 1
  <2> DEFINE next == AddItem(plan, item)
             more == appendResponseVarBind(out, item)
             r == addResponses(out)
  <2>1. /\ next.rows = Append(plan.rows, RowOf(item)) /\ next.full = FALSE
        /\ next.lastError = IF item.error # NO_ERROR THEN item.error ELSE plan.lastError
        /\ next.lastErrorIndex = IF item.error # NO_ERROR THEN Len(plan.rows) + 1
                                 ELSE plan.lastErrorIndex
    BY <1>2, AddCases
  <2>2. out \in Seq(Items) /\ plan.rows \in Seq(Row) /\ RowOf(item) \in Row
    BY AppendKeeps, PlanFields, ItemFields
  <2>3. more = Append(out, item) /\ Len(more) = Len(out) + 1
    BY <1>2, AppendKeeps DEF Mirrors
  <2>4. addResponses(more) = addResponse(r, item)
    BY <2>2, <2>3, ResponseSteps
  <2>5. r.status = plan.lastError /\ r.index = plan.lastErrorIndex /\ r.rows = plan.rows
    BY <1>2 DEF Mirrors
  <2>6. Len(next.rows) = Len(plan.rows) + 1
    BY <2>1, <2>2
  <2>7. addResponse(r, item)
          = [status |-> IF item.error # NO_ERROR THEN item.error ELSE r.status,
             index |-> IF item.error # NO_ERROR THEN Len(r.rows) + 1 ELSE r.index,
             rows |-> Append(r.rows, RowOf(item))]
    BY DEF addResponse, RowOf
  <2> HIDE DEF next, more, r
  <2>8. addResponses(more) = [status |-> next.lastError, index |-> next.lastErrorIndex,
                              rows |-> next.rows]
    BY <2>1, <2>4, <2>5, <2>7
  <2>9. Mirrors(next, more)
    BY <1>2, <2>3, <2>6, <2>8 DEF Mirrors
  <2> QED
    BY <2>1, <2>6, <2>9 DEF next, more
<1> QED
  BY <1>1, <1>2

\* A GET or GETNEXT: the plan has no more rows than there are varbinds.
LEMMA GetsAgree ==
  ASSUME NEW req \in Request, NEW st \in States, NEW onward \in BOOLEAN,
         Len(req.vbs) <= MaxVarBinds
  PROVE  LET plan == stageGet(req, st, onward)
         IN  /\ plan \in Plans /\ ~plan.full
             /\ Mirrors(plan, handleGetRequestPDU(req, st, onward))
<1> DEFINE n == Len(req.vbs)
<1>1. n \in Nat /\ MaxVarBinds \in Nat /\ n <= MaxVarBinds
  BY RequestFields, PduAssumption
<1>2. \A i \in 1 .. n : req.vbs[i] \in VarBind
  BY RequestFields
<1>3. PICK g : /\ g \in [0 .. n -> Plans] /\ g[0] = EmptyPlan
               /\ \A i \in 1 .. n : g[i] = PlanGet(g[i - 1], req.vbs[i], req, st, onward)
               /\ stageGet(req, st, onward) = g[n]
  BY GetPlanChain
<1>4. PICK h : /\ h \in [0 .. n -> Lists] /\ h[0] = << >>
               /\ \A i \in 1 .. n :
                    h[i] = appendResponseVarBind(h[i - 1], GetItem(req.vbs[i], req, st, onward))
               /\ handleGetRequestPDU(req, st, onward) = h[n]
  BY GetListChain
<1> HIDE DEF n
<1> DEFINE J == {i \in 0 .. n : /\ ~g[i].full /\ Len(g[i].rows) = i
                                /\ Mirrors(g[i], h[i])}
<1>5. 0 \in J
  BY <1>1, <1>3, <1>4, AddMirrors
<1>6. ASSUME NEW i \in 1 .. n, i - 1 \in J PROVE i \in J
  <2> DEFINE item == GetItem(req.vbs[i], req, st, onward)
             p == g[i - 1]
             o == h[i - 1]
  <2>1. i - 1 \in 0 .. n /\ i \in 0 .. n /\ i - 1 < MaxVarBinds /\ (i - 1) + 1 = i
    BY <1>1
  <2>2. /\ p \in Plans /\ o \in Lists
        /\ ~p.full /\ Len(p.rows) = i - 1 /\ Mirrors(p, o)
    BY <1>3, <1>4, <1>6, <2>1
  <2>3. item \in Items /\ g[i] = AddItem(p, item) /\ h[i] = appendResponseVarBind(o, item)
    BY <1>2, <1>3, <1>4, GetSteps
  <2> HIDE DEF item, p, o
  <2>4. ~g[i].full /\ Len(g[i].rows) = i /\ Mirrors(g[i], h[i])
    BY <2>1, <2>2, <2>3, AddMirrors
  <2> QED
    BY <2>1, <2>4
<1>7. \A i \in 0 .. n : i \in J
  <2> HIDE DEF J
  <2> QED
    BY <1>1, <1>5, <1>6, ChainInduction
<1>8. n \in 0 .. n
  BY <1>1
<1>9. g[n] \in Plans /\ ~g[n].full /\ Mirrors(g[n], h[n])
  BY <1>3, <1>7, <1>8
<1> QED
  BY <1>3, <1>4, <1>9

\* A SET: the handlers end in the same state as well.
LEMMA SetsAgree ==
  ASSUME NEW req \in Request, NEW st \in States, Len(req.vbs) <= MaxVarBinds
  PROVE  LET set == stageSet(req, st)
             list == handleSetRequestPDU(req, st)
         IN  /\ set.plan \in Plans /\ ~set.plan.full /\ set.st \in States
             /\ Mirrors(set.plan, list.out) /\ list.st = set.st
<1> DEFINE n == Len(req.vbs)
<1>1. n \in Nat /\ MaxVarBinds \in Nat /\ n <= MaxVarBinds
  BY RequestFields, PduAssumption
<1>2. \A i \in 1 .. n : req.vbs[i] \in VarBind
  BY RequestFields
<1>3. PICK g : /\ g \in [0 .. n -> PlanSets] /\ g[0] = [plan |-> EmptyPlan, st |-> st]
               /\ \A i \in 1 .. n : g[i] = PlanSet(g[i - 1], req.vbs[i], req)
               /\ stageSet(req, st) = g[n]
  BY SetPlanChain
<1>4. PICK h : /\ h \in [0 .. n -> ItemSets] /\ h[0] = [out |-> << >>, st |-> st]
               /\ \A i \in 1 .. n :
                    h[i] = AfterSetItem(h[i - 1].out, SetItem(req.vbs[i], req, h[i - 1].st))
               /\ handleSetRequestPDU(req, st) = h[n]
  BY SetListChain
<1> HIDE DEF n
<1> DEFINE J == {i \in 0 .. n : /\ ~g[i].plan.full /\ Len(g[i].plan.rows) = i
                                /\ Mirrors(g[i].plan, h[i].out) /\ h[i].st = g[i].st}
<1>5. 0 \in J
  <2>1. g[0].plan = EmptyPlan /\ g[0].st = st /\ h[0].out = << >> /\ h[0].st = st
    BY <1>3, <1>4
  <2> QED
    BY <1>1, <2>1, AddMirrors
<1>6. ASSUME NEW i \in 1 .. n, i - 1 \in J PROVE i \in J
  <2> DEFINE p == g[i - 1].plan
             o == h[i - 1].out
             s == g[i - 1].st
             vb == req.vbs[i]
             set == SetItem(vb, req, s)
  <2>1. i - 1 \in 0 .. n /\ i \in 0 .. n /\ i - 1 < MaxVarBinds /\ (i - 1) + 1 = i
    BY <1>1
  <2>2. g[i - 1] \in PlanSets /\ h[i - 1] \in ItemSets /\ vb \in VarBind
    BY <1>2, <1>3, <1>4, <2>1
  <2>3. /\ p \in Plans /\ s \in States /\ o \in Lists
        /\ g[i - 1] = [plan |-> p, st |-> s]
    BY <2>2 DEF PlanSets, ItemSets
  <2>4. ~p.full /\ Len(p.rows) = i - 1 /\ Mirrors(p, o) /\ h[i - 1].st = s
    BY <1>6
  <2>5. /\ g[i] = PlanSet([plan |-> p, st |-> s], vb, req)
        /\ h[i] = AfterSetItem(o, set)
    BY <1>3, <1>4, <2>3, <2>4
  <2> HIDE DEF p, o, s, vb
  <2>6. /\ set.item \in Items
        /\ PlanSet([plan |-> p, st |-> s], vb, req)
             = [plan |-> AddItem(p, set.item), st |-> set.st]
    BY <2>2, <2>3, <2>4, SetSteps
  <2> HIDE DEF set
  <2>7. /\ g[i].plan = AddItem(p, set.item) /\ g[i].st = set.st
        /\ h[i].out = appendResponseVarBind(o, set.item) /\ h[i].st = set.st
    BY <2>5, <2>6 DEF AfterSetItem
  <2>8. ~g[i].plan.full /\ Len(g[i].plan.rows) = i /\ Mirrors(g[i].plan, h[i].out)
    BY <2>1, <2>3, <2>4, <2>6, <2>7, AddMirrors
  <2> QED
    BY <2>1, <2>7, <2>8
<1>7. \A i \in 0 .. n : i \in J
  <2> HIDE DEF J
  <2> QED
    BY <1>1, <1>5, <1>6, ChainInduction
<1>8. n \in 0 .. n
  BY <1>1
<1>9. g[n].plan \in Plans /\ g[n].st \in States
  BY <1>3, <1>8 DEF PlanSets
<1>10. ~g[n].plan.full /\ Mirrors(g[n].plan, h[n].out) /\ h[n].st = g[n].st
  BY <1>7, <1>8
<1> QED
  BY <1>3, <1>4, <1>9, <1>10

\* A GETBULK: both are out of room at the same append, or neither.
Abreast(plan, bulk) ==
  /\ plan.full <=> bulk.overflow
  /\ ~plan.full => Mirrors(plan, bulk.out)

\* And within a repeater: they stop together, and stand at the same OID.
RepeatAbreast(s, t) ==
  /\ Abreast(s.plan, t.bulk) /\ (s.over <=> t.broken)
  /\ ~s.over => s.cursor = t.oid /\ s.foundAt = t.foundAt

\* The fields of the list and of the repeater's states.
LEMMA BulkFields ==
  /\ \A bulk \in Bulks : bulk.out \in Lists /\ bulk.overflow \in BOOLEAN
  /\ \A s \in PlanRepeats :
       /\ s = [plan |-> s.plan, cursor |-> s.cursor, foundAt |-> s.foundAt, over |-> s.over]
       /\ s.plan \in Plans /\ s.cursor \in Seq(Nat) /\ s.foundAt \in Nat \ {0}
       /\ s.over \in BOOLEAN
  /\ \A t \in BulkRepeats :
       /\ t = [bulk |-> t.bulk, oid |-> t.oid, foundAt |-> t.foundAt, broken |-> t.broken]
       /\ t.bulk \in Bulks /\ t.oid \in Seq(Nat) /\ t.foundAt \in Nat \ {0}
       /\ t.broken \in BOOLEAN
BY DEF Bulks, PlanRepeats, BulkRepeats

\* An item more for the plan and the list.
LEMMA AddAbreast ==
  ASSUME NEW plan \in Plans, NEW bulk \in Bulks, NEW item \in Items, Abreast(plan, bulk)
  PROVE  /\ plan.full => AddItem(plan, item).full
         /\ ~plan.full => Abreast(AddItem(plan, item), BulkAppend(bulk, item))
<1> DEFINE next == AddItem(plan, item)
           out == bulk.out
           after == BulkAppend(bulk, item)
<1>1. /\ out \in Lists /\ Len(out) \in Nat /\ MaxVarBinds \in Nat
      /\ Len(plan.rows) \in Nat
  BY BulkFields, AppendKeeps, PlanFields, PduAssumption
<1>2. after.out = appendResponseVarBind(out, item)
  BY DEF BulkAppend
<1>3. after.overflow <=> bulk.overflow \/ Len(out) >= MaxVarBinds
  BY DEF BulkAppend
<1>4. ~(~plan.full /\ Len(plan.rows) < MaxVarBinds) => next.full = TRUE
  BY AddCases
<1>5. (plan.full <=> bulk.overflow) /\ (~plan.full => Mirrors(plan, out))
  BY DEF Abreast
<1> HIDE DEF next, after, out
<1>6. CASE plan.full
  BY <1>4, <1>6 DEF next
<1>7. CASE ~plan.full /\ Len(plan.rows) < MaxVarBinds
  <2>1. Mirrors(plan, out) /\ Len(out) = Len(plan.rows)
    BY <1>5, <1>7 DEF Mirrors
  <2>2. Mirrors(next, after.out) /\ ~next.full
    BY <1>1, <1>2, <1>7, <2>1, AddMirrors DEF next
  <2>3. ~(Len(out) >= MaxVarBinds)
    BY <1>1, <1>7, <2>1
  <2>4. ~after.overflow
    BY <1>3, <1>5, <1>7, <2>3
  <2> QED
    BY <1>7, <2>2, <2>4 DEF Abreast, next, after
<1>8. CASE ~plan.full /\ ~(Len(plan.rows) < MaxVarBinds)
  <2>1. Len(out) = Len(plan.rows)
    BY <1>5, <1>8 DEF Mirrors
  <2>2. Len(out) >= MaxVarBinds
    BY <1>1, <1>8, <2>1
  <2>3. next.full /\ after.overflow
    BY <1>3, <1>4, <1>8, <2>2
  <2> QED
    BY <1>8, <2>3 DEF Abreast, next, after
<1> QED
  BY <1>6, <1>7, <1>8

\* A repetition more.
LEMMA RepeatAgrees ==
  ASSUME NEW st \in States, NEW s \in PlanRepeats, NEW t \in BulkRepeats, RepeatAbreast(s, t)
  PROVE  RepeatAbreast(PlanRepeat(s, st), BulkRepeat(t, st))
<1> DEFINE plan == s.plan
           bulk == t.bulk
           cursor == s.cursor
           at == s.foundAt
           r == Repetition(cursor, at, st)
           after == BulkRepeat(t, st)
<1>1. /\ s = [plan |-> plan, cursor |-> cursor, foundAt |-> at, over |-> s.over]
      /\ plan \in Plans /\ cursor \in Seq(Nat) /\ at \in Nat \ {0} /\ s.over \in BOOLEAN
  BY BulkFields
<1>2. /\ t = [bulk |-> bulk, oid |-> t.oid, foundAt |-> t.foundAt, broken |-> t.broken]
      /\ bulk \in Bulks /\ t.broken \in BOOLEAN
  BY BulkFields
<1>3. /\ Abreast(plan, bulk) /\ (s.over <=> t.broken)
      /\ ~s.over => cursor = t.oid /\ at = t.foundAt
  BY DEF RepeatAbreast
<1>4. plan.full <=> bulk.overflow
  BY <1>3 DEF Abreast
<1>5. CASE s.over \/ plan.full
  <2>1. PlanRepeat(s, st) = s
    BY <1>5 DEF PlanRepeat
  <2>2. t.broken \/ t.bulk.overflow
    BY <1>3, <1>4, <1>5
  <2>3. after = t
    BY <2>2 DEF BulkRepeat
  <2> QED
    BY <2>1, <2>3
<1>6. CASE ~s.over /\ ~plan.full
  <2>1. s.over = FALSE /\ t.broken = FALSE /\ t.oid = cursor /\ t.foundAt = at
    BY <1>1, <1>2, <1>3, <1>6
  <2>2. ~plan.full /\ ~bulk.overflow
    BY <1>4, <1>6
  <2> HIDE DEF plan, bulk, cursor, at
  <2>3. s = [plan |-> plan, cursor |-> cursor, foundAt |-> at, over |-> FALSE]
    BY <1>1, <2>1
  <2>4. t = [bulk |-> bulk, oid |-> cursor, foundAt |-> at, broken |-> FALSE]
    BY <1>2, <2>1
  <2>5. r.item \in Items /\ r.ends \in BOOLEAN
    BY <1>1, RepetitionFields
  <2>6. PlanRepeat(s, st) = [plan |-> AddItem(plan, r.item), cursor |-> r.cursor,
                             foundAt |-> r.foundAt, over |-> r.ends]
    BY <1>1, <2>2, <2>3, RepeatSteps
  <2>7. /\ after = [bulk |-> BulkAppend(bulk, r.item), oid |-> r.cursor,
                    foundAt |-> after.foundAt, broken |-> r.ends]
        /\ ~r.ends => after.foundAt = r.foundAt
    BY <1>1, <2>2, <2>4, RepeatSteps
  <2> DEFINE found == after.foundAt
             next == PlanRepeat(s, st)
  <2>8. /\ after = [bulk |-> BulkAppend(bulk, r.item), oid |-> r.cursor,
                    foundAt |-> found, broken |-> r.ends]
        /\ ~r.ends => found = r.foundAt
    BY <2>7
  <2>9. Abreast(AddItem(plan, r.item), BulkAppend(bulk, r.item))
    BY <1>1, <1>2, <1>3, <2>2, <2>5, AddAbreast
  <2> HIDE DEF r, found, after, next
  <2>10. /\ next.plan = AddItem(plan, r.item) /\ next.cursor = r.cursor
         /\ next.foundAt = r.foundAt /\ next.over = r.ends
    BY <2>6 DEF next
  <2>11. /\ after.bulk = BulkAppend(bulk, r.item) /\ after.oid = r.cursor
         /\ after.foundAt = found /\ after.broken = r.ends
    BY <2>8
  <2>12. RepeatAbreast(next, after)
    BY <2>8, <2>9, <2>10, <2>11 DEF RepeatAbreast
  <2> QED
    BY <2>12 DEF next, after
<1> QED
  BY <1>1, <1>5, <1>6

\* All repetitions of a repeater.
LEMMA RepeatersAgree ==
  ASSUME NEW plan \in Plans, NEW bulk \in Bulks, Abreast(plan, bulk),
         NEW vb \in VarBind, NEW times \in Nat, NEW st \in States
  PROVE  /\ plan.full => PlanRepeater(plan, vb, times, st).full
         /\ Abreast(PlanRepeater(plan, vb, times, st), BulkRepeater(bulk, vb, times, st))
<1>1. PICK g : /\ g \in [0 .. times -> PlanRepeats] /\ g[0] = RepeatStart(plan, vb)
               /\ \A i \in 1 .. times : g[i] = PlanRepeat(g[i - 1], st)
               /\ PlanRepeater(plan, vb, times, st) = g[times].plan
  BY RepeaterPlanChain
<1>2. PICK h : /\ h \in [0 .. times -> BulkRepeats] /\ h[0] = BulkRepeatStart(bulk, vb)
               /\ \A i \in 1 .. times : h[i] = BulkRepeat(h[i - 1], st)
               /\ BulkRepeater(bulk, vb, times, st) = h[times].bulk
  BY RepeaterListChain
<1> DEFINE J == {i \in 0 .. times : /\ RepeatAbreast(g[i], h[i])
                                    /\ plan.full => g[i].plan.full}
<1>3. 0 \in J
  <2>1. /\ g[0].plan = plan /\ g[0].cursor = vb.oid /\ g[0].foundAt = 1 /\ g[0].over = FALSE
        /\ h[0].bulk = bulk /\ h[0].oid = vb.oid /\ h[0].foundAt = 1 /\ h[0].broken = FALSE
    BY <1>1, <1>2 DEF RepeatStart, BulkRepeatStart
  <2>2. RepeatAbreast(g[0], h[0])
    BY <2>1 DEF RepeatAbreast
  <2> QED
    BY <2>1, <2>2
<1>4. ASSUME NEW i \in 1 .. times, i - 1 \in J PROVE i \in J
  <2>1. i - 1 \in 0 .. times /\ i \in 0 .. times
    OBVIOUS
  <2>2. g[i - 1] \in PlanRepeats /\ h[i - 1] \in BulkRepeats /\ RepeatAbreast(g[i - 1], h[i - 1])
    BY <1>1, <1>2, <1>4, <2>1
  <2>3. RepeatAbreast(g[i], h[i])
    BY <1>1, <1>2, <2>2, RepeatAgrees
  <2>4. plan.full => g[i].plan.full
    <3>1. plan.full => g[i - 1].plan.full
      BY <1>4
    <3>2. g[i - 1].plan.full => g[i] = g[i - 1]
      BY <1>1 DEF PlanRepeat
    <3> QED
      BY <3>1, <3>2
  <2> QED
    BY <2>1, <2>3, <2>4
<1>5. \A i \in 0 .. times : i \in J
  <2> HIDE DEF J
  <2> QED
    BY <1>3, <1>4, ChainInduction
<1>6. times \in 0 .. times
  OBVIOUS
<1>7. RepeatAbreast(g[times], h[times]) /\ (plan.full => g[times].plan.full)
  BY <1>5, <1>6
<1> QED
  BY <1>1, <1>2, <1>7 DEF RepeatAbreast

\* A varbind of a GETBULK, whichever it is.
LEMMA BulkVarBindsAgree ==
  ASSUME NEW req \in Request, NEW st \in States, NEW i \in 1 .. Len(req.vbs),
         NEW plan \in Plans, NEW bulk \in Bulks, Abreast(plan, bulk)
  PROVE  Abreast(PlanBulk(plan, i, req, st), BulkVarBind(bulk, i, req, st))
<1> DEFINE vb == req.vbs[i]
           times == req.maxRepetitions
           next == PlanBulk(plan, i, req, st)
           after == BulkVarBind(bulk, i, req, st)
<1>1. vb \in VarBind /\ times \in Nat
  BY RequestFields
<1>2. plan.full <=> bulk.overflow
  BY DEF Abreast
<1>3. CASE i <= req.nonRepeaters
  <2> HIDE DEF vb
  <2>1. PICK item \in Items :
          /\ \A p : PlanNonRepeater(p, vb, st) = AddItem(p, item)
          /\ \A b : BulkNonRepeater(b, vb, st) = BulkAppend(b, item)
    BY <1>1, NonRepeaterSteps
  <2>2. next = AddItem(plan, item)
    BY <1>3, <2>1 DEF PlanBulk, vb
  <2>3. after = IF bulk.overflow THEN bulk ELSE BulkAppend(bulk, item)
    BY <1>3, <2>1 DEF BulkVarBind, vb
  <2>4. /\ plan.full => AddItem(plan, item).full
        /\ ~plan.full => Abreast(AddItem(plan, item), BulkAppend(bulk, item))
    BY AddAbreast
  <2> HIDE DEF next, after
  <2>5. CASE plan.full
    <3>1. next.full /\ after = bulk /\ bulk.overflow
      BY <1>2, <2>2, <2>3, <2>4, <2>5
    <3> QED
      BY <3>1 DEF Abreast, next, after
  <2>6. CASE ~plan.full
    BY <1>2, <2>2, <2>3, <2>4, <2>6 DEF next, after
  <2> QED
    BY <2>5, <2>6
<1>4. CASE ~(i <= req.nonRepeaters)
  <2>1. next = PlanRepeater(plan, vb, times, st)
    BY <1>4 DEF PlanBulk
  <2>2. after = IF bulk.overflow THEN bulk ELSE BulkRepeater(bulk, vb, times, st)
    BY <1>4 DEF BulkVarBind
  <2> HIDE DEF vb, times
  <2>3. /\ plan.full => PlanRepeater(plan, vb, times, st).full
        /\ Abreast(PlanRepeater(plan, vb, times, st), BulkRepeater(bulk, vb, times, st))
    BY <1>1, RepeatersAgree
  <2> HIDE DEF next, after
  <2>4. CASE plan.full
    <3>1. next.full /\ after = bulk /\ bulk.overflow
      BY <1>2, <2>1, <2>2, <2>3, <2>4
    <3> QED
      BY <3>1 DEF Abreast, next, after
  <2>5. CASE ~plan.full
    BY <1>2, <2>1, <2>2, <2>3, <2>5 DEF next, after
  <2> QED
    BY <2>4, <2>5
<1> QED
  BY <1>3, <1>4

\* A whole GETBULK.
LEMMA BulksAgree ==
  ASSUME NEW req \in Request, NEW st \in States
  PROVE  LET plan == stageGetBulk(req, st)
         IN  plan \in Plans /\ Abreast(plan, handleGetBulkRequestPDU(req, st))
<1> DEFINE n == Len(req.vbs)
<1>1. n \in Nat
  BY RequestFields
<1>2. PICK g : /\ g \in [0 .. n -> Plans] /\ g[0] = EmptyPlan
               /\ \A i \in 1 .. n : g[i] = PlanBulk(g[i - 1], i, req, st)
               /\ stageGetBulk(req, st) = g[n]
  BY BulkPlanChain
<1>3. PICK h : /\ h \in [0 .. n -> Bulks] /\ h[0] = EmptyBulk
               /\ \A i \in 1 .. n : h[i] = BulkVarBind(h[i - 1], i, req, st)
               /\ handleGetBulkRequestPDU(req, st) = h[n]
  BY BulkListChain
<1>4. ASSUME NEW i \in 1 .. n, NEW plan \in Plans, NEW bulk \in Bulks, Abreast(plan, bulk)
      PROVE  Abreast(PlanBulk(plan, i, req, st), BulkVarBind(bulk, i, req, st))
  BY <1>4, BulkVarBindsAgree
<1> HIDE DEF n
<1> DEFINE J == {i \in 0 .. n : Abreast(g[i], h[i])}
<1>5. 0 \in J
  <2>1. Abreast(EmptyPlan, EmptyBulk)
    BY AddMirrors DEF Abreast, EmptyPlan, EmptyBulk
  <2> QED
    BY <1>1, <1>2, <1>3, <2>1
<1>6. ASSUME NEW i \in 1 .. n, i - 1 \in J PROVE i \in J
  <2>1. i - 1 \in 0 .. n /\ i \in 0 .. n
    BY <1>1
  <2>2. g[i - 1] \in Plans /\ h[i - 1] \in Bulks /\ Abreast(g[i - 1], h[i - 1])
    BY <1>2, <1>3, <1>6, <2>1
  <2>3. Abreast(g[i], h[i])
    BY <1>2, <1>3, <1>4, <2>2
  <2> QED
    BY <2>1, <2>3
<1>7. \A i \in 0 .. n : i \in J
  <2> HIDE DEF J
  <2> QED
    BY <1>1, <1>5, <1>6, ChainInduction
<1>8. n \in 0 .. n
  BY <1>1
<1>9. g[n] \in Plans /\ Abreast(g[n], h[n])
  BY <1>2, <1>7, <1>8
<1> QED
  BY <1>2, <1>3, <1>9

\* A plan written over the request and the serialised response made of the
\* list are the same outcome.
LEMMA SameOutcome ==
  ASSUME NEW req, NEW st, NEW plan \in Plans, NEW out, ~plan.full, Mirrors(plan, out)
  PROVE  Written(plan, req, st) = Serialised(addResponses(out), req, st)
<1> DEFINE r == addResponses(out)
<1>1. r = [status |-> plan.lastError, index |-> plan.lastErrorIndex, rows |-> plan.rows]
  BY DEF Mirrors
<1>2. r.rows = plan.rows
  BY <1>1
<1>3. Written(plan, req, st)
        = IF ~Fits(plan.rows) THEN ErrorResponse(TOO_BIG, "tooBig", st)
          ELSE [code |-> SuccessCode(req.pdu), counted |-> "none", after |-> st,
                response |-> [status |-> plan.lastError, index |-> plan.lastErrorIndex,
                              rows |-> plan.rows]]
  BY DEF Written
<1> HIDE DEF r
<1>4. Serialised(r, req, st)
        = IF Fits(plan.rows)
          THEN [code |-> SuccessCode(req.pdu), response |-> r, counted |-> "none", after |-> st]
          ELSE ErrorResponse(TOO_BIG, "tooBig", st)
  BY <1>2 DEF Serialised
<1>5. Written(plan, req, st) = Serialised(r, req, st)
  BY <1>1, <1>3, <1>4
<1> QED
  BY <1>5 DEF r

\* The outcome of each kind of request, the same for both paths.
LEMMA SameOutcomes ==
  ASSUME NEW req \in Request, NEW st \in States, Len(req.vbs) <= MaxVarBinds
  PROVE  /\ \A onward \in BOOLEAN :
              Written(stageGet(req, st, onward), req, st)
                = Serialised(addResponses(handleGetRequestPDU(req, st, onward)), req, st)
         /\ Written(stageGetBulk(req, st), req, st)
              = SerialisedBulk(handleGetBulkRequestPDU(req, st), req, st)
         /\ WrittenSet(stageSet(req, st), req)
              = SerialisedSet(handleSetRequestPDU(req, st), req)
<1>1. ASSUME NEW onward \in BOOLEAN
      PROVE  Written(stageGet(req, st, onward), req, st)
               = Serialised(addResponses(handleGetRequestPDU(req, st, onward)), req, st)
  BY GetsAgree, SameOutcome
<1>2. Written(stageGetBulk(req, st), req, st)
        = SerialisedBulk(handleGetBulkRequestPDU(req, st), req, st)
  <2> DEFINE plan == stageGetBulk(req, st)
             bulk == handleGetBulkRequestPDU(req, st)
  <2>1. plan \in Plans /\ Abreast(plan, bulk)
    BY BulksAgree
  <2> HIDE DEF plan, bulk
  <2>2. CASE plan.full
    <3>1. bulk.overflow
      BY <2>1, <2>2 DEF Abreast
    <3>2. Written(plan, req, st) = ErrorResponse(TOO_BIG, "tooBig", st)
      BY <2>2 DEF Written
    <3>3. SerialisedBulk(bulk, req, st) = ErrorResponse(TOO_BIG, "tooBig", st)
      BY <3>1 DEF SerialisedBulk
    <3> QED
      BY <3>2, <3>3 DEF plan, bulk
  <2>3. CASE ~plan.full
    <3>1. ~bulk.overflow /\ Mirrors(plan, bulk.out)
      BY <2>1, <2>3 DEF Abreast
    <3>2. Written(plan, req, st) = Serialised(addResponses(bulk.out), req, st)
      BY <2>1, <2>3, <3>1, SameOutcome
    <3>3. SerialisedBulk(bulk, req, st) = Serialised(addResponses(bulk.out), req, st)
      BY <3>1 DEF SerialisedBulk
    <3> QED
      BY <3>2, <3>3 DEF plan, bulk
  <2> QED
    BY <2>2, <2>3
<1>3. WrittenSet(stageSet(req, st), req) = SerialisedSet(handleSetRequestPDU(req, st), req)
  <2> DEFINE set == stageSet(req, st)
             list == handleSetRequestPDU(req, st)
  <2>1. set.plan \in Plans /\ ~set.plan.full /\ Mirrors(set.plan, list.out) /\ list.st = set.st
    BY SetsAgree
  <2> HIDE DEF set, list
  <2>2. Written(set.plan, req, set.st) = Serialised(addResponses(list.out), req, list.st)
    BY <2>1, SameOutcome
  <2>3. WrittenSet(set, req) = SerialisedSet(list, req)
    BY <2>2 DEF WrittenSet, SerialisedSet
  <2> QED
    BY <2>3 DEF set, list
<1> QED
  BY <1>1, <1>2, <1>3

\* The two implementations are the same function of the request and the state:
\* SNMP_Embedded.cpp calls the in-place handler "wire-identical to
\* handlePacket".
THEOREM SameFunction ==
  ASSUME NEW req \in Request, NEW st \in States
  PROVE  handlePacketInPlace(req, st) = handlePacket(req, st)
<1>1. Len(req.vbs) \in Nat /\ MaxVarBinds \in Nat
  BY RequestFields, PduAssumption
<1>2. CASE Len(req.vbs) > MaxVarBinds
  BY <1>2 DEF handlePacketInPlace, handlePacket
<1>3. CASE ~(Len(req.vbs) > MaxVarBinds) /\ getPermissionOfRequest(req) = "NONE"
  BY <1>3 DEF handlePacketInPlace, handlePacket
<1>4. CASE ~(Len(req.vbs) > MaxVarBinds) /\ getPermissionOfRequest(req) # "NONE"
  <2>0. Len(req.vbs) <= MaxVarBinds
    BY <1>1, <1>4
  <2>1. CASE req.pdu = "Get"
    <3>1. handlePacketInPlace(req, st) = Written(stageGet(req, st, FALSE), req, st)
      BY <1>4, <2>1 DEF handlePacketInPlace
    <3>2. (req.pdu = "GetNext") = FALSE
      BY <2>1
    <3>3. handlePacket(req, st)
            = Serialised(addResponses(handleGetRequestPDU(req, st, FALSE)), req, st)
      BY <1>4, <2>1, <3>2 DEF handlePacket
    <3> QED
      BY <2>0, <3>1, <3>3, SameOutcomes
  <2>2. CASE req.pdu = "GetNext"
    <3>1. handlePacketInPlace(req, st) = Written(stageGet(req, st, TRUE), req, st)
      BY <1>4, <2>2 DEF handlePacketInPlace
    <3>2. (req.pdu = "GetNext") = TRUE
      BY <2>2
    <3>3. handlePacket(req, st)
            = Serialised(addResponses(handleGetRequestPDU(req, st, TRUE)), req, st)
      BY <1>4, <2>2, <3>2 DEF handlePacket
    <3> QED
      BY <2>0, <3>1, <3>3, SameOutcomes
  <2>3. CASE req.pdu = "GetBulk"
    <3>1. handlePacketInPlace(req, st)
            = IF req.version # 2 THEN ErrorResponse(GEN_ERR, "none", st)
              ELSE Written(stageGetBulk(req, st), req, st)
      BY <1>4, <2>3 DEF handlePacketInPlace
    <3>2. handlePacket(req, st)
            = IF req.version # 2 THEN ErrorResponse(GEN_ERR, "none", st)
              ELSE SerialisedBulk(handleGetBulkRequestPDU(req, st), req, st)
      BY <1>4, <2>3 DEF handlePacket
    <3> QED
      BY <2>0, <3>1, <3>2, SameOutcomes
  <2>4. CASE req.pdu = "Set"
    <3>1. handlePacketInPlace(req, st)
            = IF getPermissionOfRequest(req) # "READ_WRITE"
              THEN ErrorResponse(NO_ACCESS, "none", st)
              ELSE WrittenSet(stageSet(req, st), req)
      BY <1>4, <2>4 DEF handlePacketInPlace
    <3>2. handlePacket(req, st)
            = IF getPermissionOfRequest(req) # "READ_WRITE"
              THEN ErrorResponse(NO_ACCESS, "none", st)
              ELSE SerialisedSet(handleSetRequestPDU(req, st), req)
      BY <1>4, <2>4 DEF handlePacket
    <3> QED
      BY <2>0, <3>1, <3>2, SameOutcomes
  <2>5. CASE req.pdu \notin {"Get", "GetNext", "GetBulk", "Set"}
    BY <1>4, <2>5 DEF handlePacketInPlace, handlePacket
  <2> QED
    BY <2>1, <2>2, <2>3, <2>4, <2>5
<1> QED
  BY <1>2, <1>3, <1>4
-----------------------------------------------------------------------------
(* What a SET leaves behind.                                                *)

\* No OID twice among the varbinds of a SET.
NamesOnce(vbs) == \A i, j \in 1 .. Len(vbs) : vbs[i].oid = vbs[j].oid => i = j

\* After the first i varbinds of a SET that began in st: a handler that changed
\* may be set, was named and, unless it is named again, is flagged.
ChangesNamed(acc, vbs, i, st) ==
  /\ \A h \in Handler : acc.st.value[h] # st.value[h] =>
                          h \in Settable /\ \E j \in 1 .. i : vbs[j].oid = Data[h]
  /\ NamesOnce(vbs) =>
       \A h \in Handler : acc.st.value[h] # st.value[h] => acc.st.flag[h]

\* And unless one was refused, every row echoes its varbind, each names a
\* settable handler, and that answers what its last row says.
AllInForce(acc, vbs, i) ==
  acc.plan.lastError = NO_ERROR =>
    /\ \A j \in 1 .. i :
         /\ Echoed(acc.plan.rows[j], vbs[j])
         /\ \E h \in Settable : Data[h] = vbs[j].oid
    /\ \A h \in Handler, j \in 1 .. i :
         /\ vbs[j].oid = Data[h]
         /\ \A k \in 1 .. i : vbs[k].oid = Data[h] => k <= j
         => AnswersHeld(acc.plan.rows[j].val, h, acc.st.value[h])

\* A varbind more: the changes.
LEMMA ChangesStayNamed ==
  ASSUME NEW vbs \in Seq(VarBind), NEW i \in 1 .. Len(vbs), NEW st \in States,
         NEW acc, ChangesNamed(acc, vbs, i - 1, st),
         NEW set, SetTo(set, vbs[i], acc.st),
         NEW next, next.st = set.st
  PROVE  ChangesNamed(next, vbs, i, st)
<1>1. /\ i \in 1 .. i /\ \A j \in 1 .. i - 1 : j \in 1 .. i /\ j # i
      /\ \A j \in 1 .. i : j \in 1 .. Len(vbs)
  OBVIOUS
<1>2. \A g \in Handler :
        /\ \/ next.st.value[g] = acc.st.value[g] /\ next.st.flag[g] = acc.st.flag[g]
           \/ g \in Settable /\ Data[g] = vbs[i].oid
        /\ next.st.value[g] # acc.st.value[g] => next.st.flag[g]
  BY DEF SetTo
<1>3. ASSUME NEW h \in Handler, next.st.value[h] # st.value[h]
      PROVE  h \in Settable /\ \E j \in 1 .. i : vbs[j].oid = Data[h]
  <2>1. CASE h \in Settable /\ Data[h] = vbs[i].oid
    BY <1>1, <2>1
  <2>2. CASE ~(h \in Settable /\ Data[h] = vbs[i].oid)
    <3>1. acc.st.value[h] # st.value[h]
      BY <1>2, <1>3, <2>2
    <3>2. h \in Settable /\ \E j \in 1 .. i - 1 : vbs[j].oid = Data[h]
      BY <3>1 DEF ChangesNamed
    <3> QED
      BY <1>1, <3>2
  <2> QED
    BY <2>1, <2>2
<1>4. ASSUME NamesOnce(vbs), NEW h \in Handler, next.st.value[h] # st.value[h]
      PROVE  next.st.flag[h]
  <2>1. CASE acc.st.value[h] # st.value[h]
    <3>1. PICK j \in 1 .. i - 1 : vbs[j].oid = Data[h]
      BY <2>1 DEF ChangesNamed
    <3>2. Data[h] # vbs[i].oid
      BY <1>1, <1>4, <3>1 DEF NamesOnce
    <3>3. next.st.flag[h] = acc.st.flag[h]
      BY <1>2, <3>2
    <3>4. acc.st.flag[h]
      BY <1>4, <2>1 DEF ChangesNamed
    <3> QED
      BY <3>3, <3>4
  <2>2. CASE acc.st.value[h] = st.value[h]
    BY <1>2, <1>4, <2>2
  <2> QED
    BY <2>1, <2>2
<1> QED
  BY <1>3, <1>4 DEF ChangesNamed

\* A varbind more: the rows and the values.
LEMMA AllStayInForce ==
  ASSUME NEW vbs \in Seq(VarBind), NEW i \in 1 .. Len(vbs), NEW req, NEW next,
         NEW acc \in PlanSets, AllInForce(acc, vbs, i - 1),
         ~acc.plan.full, Len(acc.plan.rows) = i - 1, i - 1 < MaxVarBinds,
         NEW set, set.item \in Items, SetTo(set, vbs[i], acc.st),
         next.plan = AddItem(acc.plan, set.item), next.st = set.st
  PROVE  AllInForce(next, vbs, i)
<1> DEFINE plan == acc.plan
           item == set.item
           vb == vbs[i]
           rows == plan.rows
<1>1. /\ plan \in Plans /\ item \in Items /\ rows \in Seq(Row) /\ RowOf(item) \in Row
      /\ ~plan.full /\ Len(rows) = i - 1 /\ Len(rows) < MaxVarBinds
      /\ item.error \in Nat
  BY PlanFields, ItemFields DEF PlanSets
<1>2. /\ next.plan.rows = Append(rows, RowOf(item))
      /\ next.plan.lastError = IF item.error # NO_ERROR THEN item.error ELSE plan.lastError
  <2> DEFINE after == next.plan
  <2>1. after = AddItem(plan, item)
    OBVIOUS
  <2> HIDE DEF after, plan, item, rows
  <2>2. /\ after.rows = Append(plan.rows, RowOf(item))
        /\ after.lastError = IF item.error # NO_ERROR THEN item.error ELSE plan.lastError
    BY <1>1, <2>1, AddWithRoom DEF rows
  <2> QED
    BY <2>2 DEF after, rows
<1>3. /\ i \in Nat /\ 1 .. i = (1 .. i - 1) \cup {i} /\ i \in 1 .. i
      /\ \A j \in 1 .. i - 1 : j <= i /\ j \in 1 .. i
      /\ \A j \in 1 .. i : j <= i
  OBVIOUS
<1>4. next.plan.rows[i] = RowOf(item) /\ \A j \in 1 .. i - 1 : next.plan.rows[j] = rows[j]
  <2> DEFINE more == Append(rows, RowOf(item))
  <2>1. more[Len(rows) + 1] = RowOf(item) /\ \A j \in 1 .. Len(rows) : more[j] = rows[j]
    BY <1>1
  <2>2. Len(rows) + 1 = i /\ 1 .. Len(rows) = 1 .. i - 1
    BY <1>1, <1>3
  <2> HIDE DEF more
  <2>3. more[i] = RowOf(item) /\ \A j \in 1 .. i - 1 : more[j] = rows[j]
    BY <2>1, <2>2
  <2> QED
    BY <1>2, <2>3 DEF more
<1> SUFFICES ASSUME next.plan.lastError = NO_ERROR
             PROVE  /\ \A j \in 1 .. i :
                         /\ Echoed(next.plan.rows[j], vbs[j])
                         /\ \E h \in Settable : Data[h] = vbs[j].oid
                    /\ \A h \in Handler, j \in 1 .. i :
                         /\ vbs[j].oid = Data[h]
                         /\ \A k \in 1 .. i : vbs[k].oid = Data[h] => k <= j
                         => AnswersHeld(next.plan.rows[j].val, h, next.st.value[h])
  BY DEF AllInForce
<1>5. item.error = NO_ERROR /\ plan.lastError = NO_ERROR
  BY <1>2
<1>6. /\ Echoed(RowOf(item), vb)
      /\ \E h \in Settable :
           Data[h] = vb.oid /\ AnswersHeld(RowOf(item).val, h, set.st.value[h])
  BY <1>5 DEF SetTo
<1>7. /\ \A j \in 1 .. i - 1 :
           /\ Echoed(rows[j], vbs[j])
           /\ \E h \in Settable : Data[h] = vbs[j].oid
      /\ \A h \in Handler, j \in 1 .. i - 1 :
           /\ vbs[j].oid = Data[h]
           /\ \A k \in 1 .. i - 1 : vbs[k].oid = Data[h] => k <= j
           => AnswersHeld(rows[j].val, h, acc.st.value[h])
  BY <1>5 DEF AllInForce
<1>8. ASSUME NEW j \in 1 .. i
      PROVE  /\ Echoed(next.plan.rows[j], vbs[j])
             /\ \E h \in Settable : Data[h] = vbs[j].oid
  <2>1. CASE j = i
    BY <1>4, <1>6, <2>1
  <2>2. CASE j \in 1 .. i - 1
    BY <1>4, <1>7, <2>2
  <2> QED
    BY <1>3, <2>1, <2>2
<1>9. ASSUME NEW h \in Handler, NEW j \in 1 .. i, vbs[j].oid = Data[h],
             \A k \in 1 .. i : vbs[k].oid = Data[h] => k <= j
      PROVE  AnswersHeld(next.plan.rows[j].val, h, next.st.value[h])
  <2>1. CASE vb.oid = Data[h]
    <3>1. j = i
      BY <1>3, <1>9, <2>1
    <3>2. PICK g \in Settable :
            Data[g] = vb.oid /\ AnswersHeld(RowOf(item).val, g, set.st.value[g])
      BY <1>6
    <3>3. g \in Handler
      BY PduAssumption
    <3>4. g = h
      BY <2>1, <3>2, <3>3, HandlerBytes
    <3> QED
      BY <1>4, <3>1, <3>2, <3>4
  <2>2. CASE vb.oid # Data[h]
    <3>1. j \in 1 .. i - 1
      BY <1>3, <1>9, <2>2
    <3>2. \A k \in 1 .. i - 1 : vbs[k].oid = Data[h] => k <= j
      BY <1>3, <1>9
    <3>3. AnswersHeld(rows[j].val, h, acc.st.value[h])
      BY <1>7, <1>9, <3>1, <3>2
    <3>4. set.st.value[h] = acc.st.value[h]
      BY <2>2 DEF SetTo
    <3> QED
      BY <1>4, <3>1, <3>3, <3>4
  <2> QED
    BY <2>1, <2>2
<1> QED
  BY <1>8, <1>9

\* A whole SET.
LEMMA SetLeaves ==
  ASSUME NEW req \in Request, NEW st \in States, Len(req.vbs) <= MaxVarBinds
  PROVE  LET set == stageSet(req, st)
         IN  /\ ChangesNamed(set, req.vbs, Len(req.vbs), st)
             /\ AllInForce(set, req.vbs, Len(req.vbs))
<1> DEFINE vbs == req.vbs
           n == Len(vbs)
<1>1. n \in Nat /\ MaxVarBinds \in Nat /\ n <= MaxVarBinds
  BY RequestFields, PduAssumption
<1>2. vbs \in Seq(VarBind) /\ \A i \in 1 .. n : vbs[i] \in VarBind
  BY RequestFields
<1>3. PICK g : /\ g \in [0 .. n -> PlanSets] /\ g[0] = [plan |-> EmptyPlan, st |-> st]
               /\ \A i \in 1 .. n : g[i] = PlanSet(g[i - 1], vbs[i], req)
               /\ stageSet(req, st) = g[n]
  BY SetPlanChain
<1>4. \A i \in 1 .. n : i \in 1 .. Len(vbs)
  OBVIOUS
<1> HIDE DEF n, vbs
<1> DEFINE J == {i \in 0 .. n : /\ ~g[i].plan.full /\ Len(g[i].plan.rows) = i
                                /\ ChangesNamed(g[i], vbs, i, st)
                                /\ AllInForce(g[i], vbs, i)}
<1>5. 0 \in J
  <2>1. g[0].plan = EmptyPlan /\ g[0].st = st
    BY <1>3
  <2>2. ChangesNamed(g[0], vbs, 0, st)
    BY <2>1 DEF ChangesNamed
  <2>3. AllInForce(g[0], vbs, 0)
    <3>1. 1 .. 0 = {}
      OBVIOUS
    <3> QED
      BY <3>1 DEF AllInForce
  <2> QED
    BY <1>1, <2>1, <2>2, <2>3, AddMirrors
<1>6. ASSUME NEW i \in 1 .. n, i - 1 \in J PROVE i \in J
  <2> DEFINE acc == g[i - 1]
             vb == vbs[i]
             set == SetItem(vb, req, acc.st)
  <2>1. i - 1 \in 0 .. n /\ i \in 0 .. n /\ i - 1 < MaxVarBinds /\ (i - 1) + 1 = i
    BY <1>1
  <2>2. acc \in PlanSets /\ vb \in VarBind
    BY <1>2, <1>3, <2>1
  <2>3. /\ acc.plan \in Plans /\ acc.st \in States
        /\ acc = [plan |-> acc.plan, st |-> acc.st]
    BY <2>2 DEF PlanSets
  <2>4. /\ ~acc.plan.full /\ Len(acc.plan.rows) = i - 1
        /\ ChangesNamed(acc, vbs, i - 1, st) /\ AllInForce(acc, vbs, i - 1)
    BY <1>6
  <2>5. g[i] = PlanSet(acc, vb, req)
    BY <1>3
  <2> DEFINE p == acc.plan
             s == acc.st
  <2>6. set.item \in Items /\ SetTo(set, vb, s) /\ g[i] = [plan |-> AddItem(p, set.item), st |-> set.st]
    <3>1. p \in Plans /\ s \in States /\ ~p.full /\ acc = [plan |-> p, st |-> s]
      BY <2>3, <2>4
    <3> HIDE DEF acc, p, s, vb
    <3>2. LET t == SetItem(vb, req, s)
          IN  /\ t.item \in Items /\ SetTo(t, vb, s)
              /\ PlanSet([plan |-> p, st |-> s], vb, req)
                   = [plan |-> AddItem(p, t.item), st |-> t.st]
      BY <2>2, <3>1, SetSteps
    <3>3. SetItem(vb, req, s) = set
      BY DEF s
    <3> HIDE DEF set
    <3> QED
      BY <2>5, <3>1, <3>2, <3>3
  <2> HIDE DEF acc, set
  <2>7. g[i].plan = AddItem(acc.plan, set.item) /\ g[i].st = set.st
    BY <2>6
  <2>8. ~g[i].plan.full /\ Len(g[i].plan.rows) = i
    <3>1. acc.plan.rows \in Seq(Row) /\ RowOf(set.item) \in Row
      BY <2>3, <2>6, PlanFields, ItemFields
    <3>2. g[i].plan.rows = Append(acc.plan.rows, RowOf(set.item)) /\ g[i].plan.full = FALSE
      <4> DEFINE held == acc.plan
                 item == set.item
                 after == g[i].plan
      <4>1. /\ held \in Plans /\ item \in Items /\ after = AddItem(held, item)
            /\ ~held.full /\ Len(held.rows) < MaxVarBinds
        BY <2>1, <2>3, <2>4, <2>6, <2>7
      <4> HIDE DEF held, item, after
      <4>2. after.rows = Append(held.rows, RowOf(item)) /\ after.full = FALSE
        BY <4>1, AddWithRoom, ZenonT(30)
      <4> QED
        BY <4>2, Zenon DEF held, item, after
    <3>3. Len(g[i].plan.rows) = Len(acc.plan.rows) + 1
      BY <3>1, <3>2
    <3> QED
      BY <2>1, <2>4, <3>2, <3>3
  <2>9. i \in 1 .. Len(vbs)
    BY <1>4
  <2> DEFINE next == g[i]
  <2>10. ChangesNamed(next, vbs, i, st)
    <3> HIDE DEF next
    <3>1. next.st = set.st
      BY <2>7 DEF next
    <3> QED
      BY <1>2, <2>4, <2>6, <2>9, <3>1, ChangesStayNamed
  <2>11. AllInForce(next, vbs, i)
    <3>1. next.st = set.st /\ next.plan = AddItem(acc.plan, set.item)
      BY <2>7
    <3> HIDE DEF next
    <3> QED
      BY <1>2, <2>1, <2>2, <2>4, <2>6, <2>9, <3>1, AllStayInForce
  <2> QED
    BY <2>1, <2>8, <2>10, <2>11
<1>7. \A i \in 0 .. n : i \in J
  <2> HIDE DEF J
  <2> QED
    BY <1>1, <1>5, <1>6, ChainInduction
<1>8. n \in 0 .. n
  BY <1>1
<1>9. ChangesNamed(g[n], vbs, n, st) /\ AllInForce(g[n], vbs, n)
  BY <1>7, <1>8
<1> QED
  BY <1>3, <1>9 DEF n, vbs
-----------------------------------------------------------------------------
(* The outcome of a request, whatever it asks.                              *)

\* The index of a response is that of the last refused row.
Pointed(o) ==
  LET r == o.response
      refused == {i \in DOMAIN r.rows : r.rows[i].val = Null}
  IN  IF o.code = "SNMP_ERROR_PACKET_SENT"
      THEN r.rows = <<>> /\ r.index = 0 /\ r.status # NO_ERROR
      ELSE /\ r.status # NO_ERROR <=> refused # {}
           /\ refused # {} => r.index \in refused /\ \A i \in refused : i <= r.index

\* An error response names no varbind and leaves the handlers alone.
LEMMA ErrorOutcome ==
  ASSUME NEW error \in Nat \ {0}, NEW counter, NEW st
  PROVE  LET o == ErrorResponse(error, counter, st)
         IN  Pointed(o) /\ o.after = st /\ o.code = "SNMP_ERROR_PACKET_SENT"
BY DEF ErrorResponse, Pointed, NO_ERROR

\* So does a request that is not answered.
LEMMA RejectedOutcome ==
  ASSUME NEW code, code \in {"SNMP_REQUEST_INVALID", "SNMP_REQUEST_INVALID_COMMUNITY"},
         NEW counter, NEW st
  PROVE  LET o == Rejected(code, counter, st)
         IN  Pointed(o) /\ o.after = st /\ o.code = code
<1> DEFINE o == Rejected(code, counter, st)
<1>1. /\ o.code = code /\ o.after = st /\ o.response.rows = <<>>
      /\ o.response.status = NO_ERROR
  BY DEF Rejected, NoResponse
<1> HIDE DEF o
<1>2. DOMAIN o.response.rows = {}
  BY <1>1
<1>3. o.code # "SNMP_ERROR_PACKET_SENT"
  BY <1>1
<1>4. Pointed(o)
  BY <1>1, <1>2, <1>3 DEF Pointed
<1> QED
  BY <1>1, <1>4 DEF o

\* The codes of the four PDUs are their own, and not that of an error.
LEMMA SuccessCodes ==
  ASSUME NEW pdu, pdu \in {"Get", "GetNext", "GetBulk", "Set"}
  PROVE  /\ SuccessCode(pdu) # "SNMP_ERROR_PACKET_SENT"
         /\ SuccessCode(pdu) = "SNMP_SET_OCCURRED" => pdu = "Set"
         /\ pdu = "Set" => SuccessCode(pdu) = "SNMP_SET_OCCURRED"
BY DEF SuccessCode

\* A plan that fits is the response.
LEMMA WrittenOutcome ==
  ASSUME NEW req, req.pdu \in {"Get", "GetNext", "GetBulk", "Set"}, NEW st,
         NEW plan \in Plans
  PROVE  LET o == Written(plan, req, st)
         IN  /\ Pointed(o) /\ o.after = st
             /\ o.code = "SNMP_SET_OCCURRED" =>
                  /\ req.pdu = "Set"
                  /\ o.response.rows = plan.rows /\ o.response.status = plan.lastError
<1> DEFINE o == Written(plan, req, st)
<1>1. CASE plan.full \/ ~Fits(plan.rows)
  <2>1. o = ErrorResponse(TOO_BIG, "tooBig", st) /\ TOO_BIG \in Nat \ {0}
    BY <1>1 DEF Written, TOO_BIG
  <2> HIDE DEF o
  <2>2. Pointed(o) /\ o.after = st /\ o.code = "SNMP_ERROR_PACKET_SENT"
    BY <2>1, ErrorOutcome
  <2> QED
    BY <2>2 DEF o
<1>2. CASE ~(plan.full \/ ~Fits(plan.rows))
  <2>1. o = [code |-> SuccessCode(req.pdu), counted |-> "none", after |-> st,
             response |-> [status |-> plan.lastError, index |-> plan.lastErrorIndex,
                           rows |-> plan.rows]]
    BY <1>2 DEF Written
  <2>2. /\ o.code = SuccessCode(req.pdu) /\ o.after = st /\ o.response.rows = plan.rows
        /\ o.response.status = plan.lastError /\ o.response.index = plan.lastErrorIndex
    BY <2>1
  <2>3. /\ o.code # "SNMP_ERROR_PACKET_SENT"
        /\ o.code = "SNMP_SET_OCCURRED" => req.pdu = "Set"
    BY <2>2, SuccessCodes
  <2>4. /\ DOMAIN plan.rows = 1 .. Len(plan.rows)
        /\ ErrorsPointed(plan.rows, plan.lastError, plan.lastErrorIndex)
    BY PlanFields
  <2> HIDE DEF o
  <2> DEFINE refused == {i \in DOMAIN o.response.rows : o.response.rows[i].val = Null}
  <2>5. \A i : i \in refused <=> i \in 1 .. Len(plan.rows) /\ plan.rows[i].val = Null
    BY <2>2, <2>4
  <2>6. /\ o.response.status # NO_ERROR <=> refused # {}
        /\ refused # {} => /\ o.response.index \in refused
                           /\ \A i \in refused : i <= o.response.index
    <3>1. /\ plan.lastError = NO_ERROR <=>
               \A i \in 1 .. Len(plan.rows) : plan.rows[i].val # Null
          /\ plan.lastError # NO_ERROR =>
               /\ plan.lastErrorIndex \in 1 .. Len(plan.rows)
               /\ plan.rows[plan.lastErrorIndex].val = Null
               /\ \A i \in 1 .. Len(plan.rows) :
                    plan.rows[i].val = Null => i <= plan.lastErrorIndex
      BY <2>4 DEF ErrorsPointed
    <3> HIDE DEF refused
    <3>2. plan.lastError # NO_ERROR <=> refused # {}
      BY <2>5, <3>1
    <3>3. refused # {} => /\ plan.lastErrorIndex \in refused
                          /\ \A i \in refused : i <= plan.lastErrorIndex
      BY <2>5, <3>1, <3>2
    <3> QED
      BY <2>2, <3>2, <3>3
  <2>7. Pointed(o)
    BY <2>3, <2>6 DEF Pointed
  <2> QED
    BY <2>2, <2>3, <2>7 DEF o
<1> QED
  BY <1>1, <1>2

\* What is said of every outcome below.
IsOutcome(o, req, st) ==
  /\ Pointed(o)
  /\ \/ o.after = st /\ o.code # "SNMP_SET_OCCURRED"
     \/ /\ req.pdu = "Set" /\ Len(req.vbs) <= MaxVarBinds
        /\ o.after = stageSet(req, st).st
        /\ o.code = "SNMP_SET_OCCURRED" =>
             /\ o.response.rows = stageSet(req, st).plan.rows
             /\ o.response.status = stageSet(req, st).plan.lastError

\* Every request has such an outcome.
LEMMA Outcomes ==
  ASSUME NEW req \in Request, NEW st \in States
  PROVE  IsOutcome(handlePacketInPlace(req, st), req, st)
<1> DEFINE o == handlePacketInPlace(req, st)
           three == {"Get", "GetNext", "GetBulk"}
<1>1. Len(req.vbs) \in Nat /\ MaxVarBinds \in Nat
  BY RequestFields, PduAssumption
<1>2. /\ GEN_ERR \in Nat \ {0} /\ NO_ACCESS \in Nat \ {0}
  BY DEF GEN_ERR, NO_ACCESS
<1>3. ASSUME NEW error \in Nat \ {0}, o = ErrorResponse(error, "none", st)
      PROVE  IsOutcome(o, req, st)
  <2>1. Pointed(o) /\ o.after = st /\ o.code = "SNMP_ERROR_PACKET_SENT"
    BY <1>3, ErrorOutcome
  <2> HIDE DEF o
  <2>2. o.code # "SNMP_SET_OCCURRED"
    BY <2>1
  <2> QED
    BY <2>1, <2>2 DEF IsOutcome
<1>4. ASSUME NEW code, code \in {"SNMP_REQUEST_INVALID", "SNMP_REQUEST_INVALID_COMMUNITY"},
             NEW counter, o = Rejected(code, counter, st)
      PROVE  IsOutcome(o, req, st)
  <2>1. Pointed(o) /\ o.after = st /\ o.code = code
    BY <1>4, RejectedOutcome
  <2> HIDE DEF o
  <2>2. o.code # "SNMP_SET_OCCURRED"
    BY <1>4, <2>1
  <2> QED
    BY <2>1, <2>2 DEF IsOutcome
<1>5. ASSUME req.pdu \in three, NEW plan \in Plans, o = Written(plan, req, st)
      PROVE  IsOutcome(o, req, st)
  <2>1. req.pdu \in {"Get", "GetNext", "GetBulk", "Set"} /\ req.pdu # "Set"
    BY <1>5
  <2> HIDE DEF o
  <2>2. Pointed(o) /\ o.after = st /\ (o.code = "SNMP_SET_OCCURRED" => req.pdu = "Set")
    BY <1>5, <2>1, WrittenOutcome
  <2> QED
    BY <2>1, <2>2 DEF IsOutcome
<1>6. CASE Len(req.vbs) > MaxVarBinds
  <2>1. o = Rejected("SNMP_REQUEST_INVALID", "malformed", st)
    BY <1>6 DEF handlePacketInPlace
  <2> HIDE DEF o
  <2> QED
    BY <1>4, <2>1 DEF o
<1>7. CASE ~(Len(req.vbs) > MaxVarBinds) /\ getPermissionOfRequest(req) = "NONE"
  <2>1. o = Rejected("SNMP_REQUEST_INVALID_COMMUNITY", "rejected", st)
    BY <1>7 DEF handlePacketInPlace
  <2> HIDE DEF o
  <2> QED
    BY <1>4, <2>1 DEF o
<1>8. CASE ~(Len(req.vbs) > MaxVarBinds) /\ getPermissionOfRequest(req) # "NONE"
  <2>0. Len(req.vbs) <= MaxVarBinds
    BY <1>1, <1>8
  <2>1. CASE req.pdu = "Get"
    <3> DEFINE plan == stageGet(req, st, FALSE)
    <3>1. o = Written(plan, req, st)
      BY <1>8, <2>1 DEF handlePacketInPlace
    <3>2. plan \in Plans /\ req.pdu \in three
      BY <2>0, <2>1, GetsAgree
    <3> HIDE DEF plan, o
    <3> QED
      BY <1>5, <3>1, <3>2 DEF o
  <2>2. CASE req.pdu = "GetNext"
    <3> DEFINE plan == stageGet(req, st, TRUE)
    <3>1. o = Written(plan, req, st)
      BY <1>8, <2>2 DEF handlePacketInPlace
    <3>2. plan \in Plans /\ req.pdu \in three
      BY <2>0, <2>2, GetsAgree
    <3> HIDE DEF plan, o
    <3> QED
      BY <1>5, <3>1, <3>2 DEF o
  <2>3. CASE req.pdu = "GetBulk"
    <3> DEFINE plan == stageGetBulk(req, st)
    <3>1. o = IF req.version # 2 THEN ErrorResponse(GEN_ERR, "none", st)
              ELSE Written(plan, req, st)
      BY <1>8, <2>3 DEF handlePacketInPlace
    <3>2. plan \in Plans /\ req.pdu \in three
      BY <2>3, BulksAgree
    <3> HIDE DEF plan, o
    <3> QED
      BY <1>2, <1>3, <1>5, <3>1, <3>2 DEF o
  <2>4. CASE req.pdu = "Set"
    <3> DEFINE set == stageSet(req, st)
    <3>1. o = IF getPermissionOfRequest(req) # "READ_WRITE"
              THEN ErrorResponse(NO_ACCESS, "none", st)
              ELSE Written(set.plan, req, set.st)
      BY <1>8, <2>4 DEF handlePacketInPlace, WrittenSet
    <3>2. set.plan \in Plans
      BY <2>0, SetsAgree
    <3>3. CASE getPermissionOfRequest(req) # "READ_WRITE"
      <4>1. o = ErrorResponse(NO_ACCESS, "none", st)
        BY <3>1, <3>3
      <4> HIDE DEF o
      <4> QED
        BY <1>2, <1>3, <4>1 DEF o
    <3>4. CASE ~(getPermissionOfRequest(req) # "READ_WRITE")
      <4>1. o = Written(set.plan, req, set.st)
        BY <3>1, <3>4
      <4> HIDE DEF o, set
      <4> DEFINE plan == set.plan
                 after == set.st
      <4>2. o = Written(plan, req, after) /\ plan \in Plans
        BY <3>2, <4>1
      <4>3. req.pdu \in {"Get", "GetNext", "GetBulk", "Set"}
        BY <2>4
      <4> HIDE DEF plan, after
      <4>4. /\ Pointed(o) /\ o.after = after
            /\ o.code = "SNMP_SET_OCCURRED" =>
                 o.response.rows = plan.rows /\ o.response.status = plan.lastError
        BY <4>2, <4>3, WrittenOutcome
      <4>5. IsOutcome(o, req, st)
        BY <2>0, <2>4, <4>4 DEF IsOutcome, set, plan, after
      <4> QED
        BY <4>5 DEF o
    <3> QED
      BY <3>3, <3>4
  <2>5. CASE req.pdu \notin {"Get", "GetNext", "GetBulk", "Set"}
    <3>1. o = ErrorResponse(GEN_ERR, "none", st)
      BY <1>8, <2>5 DEF handlePacketInPlace
    <3> HIDE DEF o
    <3> QED
      BY <1>2, <1>3, <3>1 DEF o
  <2> QED
    BY <2>1, <2>2, <2>3, <2>4, <2>5
<1> QED
  BY <1>6, <1>7, <1>8

\* A SET that is acknowledged is in force, and the values of the handlers that
\* it does not name are kept.
InForce(req, before, o) ==
  LET vbs == req.vbs
  IN  /\ o.code = "SNMP_SET_OCCURRED" /\ o.response.status = NO_ERROR =>
           /\ \A i \in DOMAIN vbs : Echoed(o.response.rows[i], vbs[i])
           /\ \A h \in Handler : \A i \in LastFor(vbs, h) :
                /\ h \in Settable
                /\ o.response.rows[i].val = getValueForCallback(h, o.after)
      /\ \A h \in Changed(before, o.after) : LastFor(vbs, h) # {}

\* The last varbind that names a handler, if any does.
LEMMA LastNamed ==
  ASSUME NEW vbs \in Seq(VarBind), NEW h, NEW j \in 1 .. Len(vbs), vbs[j].oid = Data[h]
  PROVE  LastFor(vbs, h) # {}
<1> DEFINE n == Len(vbs)
           T == {k \in 1 .. n : vbs[k].oid = Data[h]}
<1>1. n \in Nat /\ DOMAIN vbs = 1 .. n /\ j \in T /\ T \in SUBSET (1 .. n)
  OBVIOUS
<1> DEFINE m == Max(T)
<1>2. m \in T /\ \A k \in T : m >= k
  <2> HIDE DEF T, n
  <2> QED
    BY <1>1, LargestPosition
<1> HIDE DEF m
<1>3. \A k \in 1 .. n : vbs[k].oid = Data[h] => k <= m
  BY <1>2
<1>4. m \in LastFor(vbs, h)
  BY <1>1, <1>2, <1>3 DEF LastFor
<1> QED
  BY <1>4

\* The outcome of a SET.
LEMMA SetOutcome ==
  ASSUME NEW req \in Request, NEW st \in States, req.pdu = "Set"
  PROVE  InForce(req, st, handlePacketInPlace(req, st))
<1> DEFINE o == handlePacketInPlace(req, st)
           set == stageSet(req, st)
           vbs == req.vbs
           n == Len(vbs)
<1>1. IsOutcome(o, req, st)
  BY Outcomes
<1>2. vbs \in Seq(VarBind) /\ DOMAIN vbs = 1 .. n /\ n \in Nat
  BY RequestFields
<1> HIDE DEF o
<1>3. CASE o.after = st /\ o.code # "SNMP_SET_OCCURRED"
  <2>1. Changed(st, o.after) = {}
    BY <1>3 DEF Changed
  <2>2. InForce(req, st, o)
    BY <1>3, <2>1 DEF InForce
  <2> QED
    BY <2>2 DEF o
<1>4. CASE ~(o.after = st /\ o.code # "SNMP_SET_OCCURRED")
  <2>1. /\ n <= MaxVarBinds /\ o.after = set.st
        /\ o.code = "SNMP_SET_OCCURRED" =>
             o.response.rows = set.plan.rows /\ o.response.status = set.plan.lastError
    BY <1>1, <1>4 DEF IsOutcome
  <2>2. ChangesNamed(set, vbs, n, st) /\ AllInForce(set, vbs, n)
    BY <2>1, SetLeaves
  <2> HIDE DEF set, vbs, n
  <2>3. ASSUME NEW h \in Changed(st, o.after) PROVE LastFor(vbs, h) # {}
    <3>1. h \in Handler /\ st.value[h] # set.st.value[h]
      BY <2>1, <2>3 DEF Changed
    <3>2. PICK j \in 1 .. n : vbs[j].oid = Data[h]
      BY <2>2, <3>1 DEF ChangesNamed
    <3> QED
      BY <1>2, <3>2, LastNamed DEF n
  <2>4. ASSUME o.code = "SNMP_SET_OCCURRED", o.response.status = NO_ERROR
        PROVE  /\ \A i \in DOMAIN vbs : Echoed(o.response.rows[i], vbs[i])
               /\ \A h \in Handler : \A i \in LastFor(vbs, h) :
                    /\ h \in Settable
                    /\ o.response.rows[i].val = getValueForCallback(h, o.after)
    <3>1. set.plan.lastError = NO_ERROR /\ o.response.rows = set.plan.rows
      BY <2>1, <2>4
    <3>2. /\ \A j \in 1 .. n :
               /\ Echoed(set.plan.rows[j], vbs[j])
               /\ \E h \in Settable : Data[h] = vbs[j].oid
          /\ \A h \in Handler, j \in 1 .. n :
               /\ vbs[j].oid = Data[h]
               /\ \A k \in 1 .. n : vbs[k].oid = Data[h] => k <= j
               => AnswersHeld(set.plan.rows[j].val, h, set.st.value[h])
      BY <2>2, <3>1 DEF AllInForce
    <3>3. ASSUME NEW h \in Handler, NEW i \in LastFor(vbs, h)
          PROVE  /\ h \in Settable
                 /\ o.response.rows[i].val = getValueForCallback(h, o.after)
      <4>1. /\ i \in 1 .. n /\ vbs[i].oid = Data[h]
            /\ \A k \in 1 .. n : vbs[k].oid = Data[h] => k <= i
        BY <1>2 DEF LastFor
      <4>2. PICK g \in Settable : Data[g] = vbs[i].oid
        BY <3>2, <4>1
      <4>3. g = h
        BY <4>1, <4>2, HandlerBytes, PduAssumption
      <4>4. AnswersHeld(set.plan.rows[i].val, h, o.after.value[h])
        BY <2>1, <3>2, <4>1
      <4>5. o.response.rows[i].val = getValueForCallback(h, o.after)
        BY <3>1, <4>4 DEF AnswersHeld, getValueForCallback
      <4> QED
        BY <4>2, <4>3, <4>5
    <3> QED
      BY <1>2, <3>1, <3>2, <3>3
  <2>5. InForce(req, st, o)
    BY <2>3, <2>4 DEF InForce, vbs
  <2> QED
    BY <2>5 DEF o
<1> QED
  BY <1>3, <1>4

\* The state the outcome leaves: only settable handlers have changed, and they
\* are flagged unless one of them was named again.
LEMMA Leaves ==
  ASSUME NEW req \in Request, NEW st \in States
  PROVE  LET after == handlePacketInPlace(req, st).after
         IN  /\ after \in States
             /\ \A h \in Changed(st, after) :
                  h \in Settable /\ (NamesOnce(req.vbs) \/ req.pdu # "Set" => after.flag[h])
<1> DEFINE o == handlePacketInPlace(req, st)
           set == stageSet(req, st)
<1>1. IsOutcome(o, req, st)
  BY Outcomes
<1> HIDE DEF o
<1>2. CASE o.after = st
  <2>1. Changed(st, o.after) = {}
    BY <1>2 DEF Changed
  <2> QED
    BY <1>2, <2>1 DEF o
<1>3. CASE o.after # st
  <2>1. req.pdu = "Set" /\ Len(req.vbs) <= MaxVarBinds /\ o.after = set.st
    BY <1>1, <1>3 DEF IsOutcome
  <2>2. ChangesNamed(set, req.vbs, Len(req.vbs), st) /\ set.st \in States
    BY <2>1, SetLeaves, SetsAgree
  <2> HIDE DEF set
  <2>3. ASSUME NEW h \in Changed(st, o.after)
        PROVE  h \in Settable /\ (NamesOnce(req.vbs) \/ req.pdu # "Set" => o.after.flag[h])
    <3>1. h \in Handler /\ set.st.value[h] # st.value[h]
      BY <2>1, <2>3 DEF Changed
    <3>2. h \in Settable /\ (NamesOnce(req.vbs) => set.st.flag[h])
      BY <2>2, <3>1 DEF ChangesNamed
    <3> QED
      BY <2>1, <3>2
  <2> QED
    BY <2>1, <2>2, <2>3 DEF o
<1> QED
  BY <1>2, <1>3

-----------------------------------------------------------------------------
(* The ticks.                                                               *)

\* What is held of the last exchange: the outcome is the one the request has.
PduInv ==
  /\ PduTypeOK
  /\ Served => /\ last.request \in Requests /\ last.before \in States
               /\ last.outcome = handlePacketInPlace(last.request, last.before)

\* The handlers' state is one of States.
LEMMA StateKind == PduTypeOK <=> State \in States /\ unseen \subseteq Settable
<1>1. State = [value |-> value, flag |-> setOccurred]
  BY DEF State
<1>2. State \in States <=> value \in Held /\ setOccurred \in [Handler -> BOOLEAN]
  BY <1>1 DEF States
<1>3. value \in Held <=> /\ value \in [Handler -> Nat]
                         /\ \A h \in Handler : Class[h] = "string" => value[h] < MaxLen
  BY DEF Held
<1> QED
  BY <1>2, <1>3 DEF PduTypeOK

\* The invariant holds before the first tick.
LEMMA PduInvInit == PduInit => PduInv
<1> SUFFICES ASSUME PduInit PROVE PduInv
  OBVIOUS
<1>1. ~Served
  BY DEF PduInit, Served
<1>2. MaxLen \in Nat \ {0}
  BY PduAssumption
<1>3. PduTypeOK
  BY <1>2 DEF PduInit, PduTypeOK
<1> QED
  BY <1>1, <1>3 DEF PduInv

\* A tick that serves a request.
LEMMA LoopStep ==
  ASSUME PduInv, NEW req \in Requests, Loop(req)
  PROVE  /\ PduInv' /\ Served'
         /\ unseen' = unseen \cup Changed(State, handlePacketInPlace(req, State).after)
         /\ setOccurred' = handlePacketInPlace(req, State).after.flag
<1> DEFINE st == State
           o == handlePacketInPlace(req, st)
<1>1. /\ value' = o.after.value /\ setOccurred' = o.after.flag
      /\ unseen' = unseen \cup Changed(st, o.after)
      /\ last' = [request |-> req, before |-> st, outcome |-> o]
  BY DEF Loop
<1>2. st \in States /\ unseen \subseteq Settable /\ req \in Request
  BY StateKind, PduAssumption DEF PduInv
<1>3. o.after \in States /\ Changed(st, o.after) \subseteq Settable
  <2> HIDE DEF st
  <2> QED
    BY <1>2, Leaves
<1> HIDE DEF o, st
<1>4. last'.request = req /\ last'.before = st /\ last'.outcome = o
  BY <1>1
<1>5. Served'
  <2>1. DOMAIN last' = {"request", "before", "outcome"} /\ DOMAIN NoExchange = {"outcome"}
    BY <1>1 DEF NoExchange
  <2>2. DOMAIN last' # DOMAIN NoExchange
    BY <2>1
  <2>3. NoExchange' = NoExchange
    BY DEF NoExchange
  <2> QED
    BY <2>2, <2>3 DEF Served
<1>6. PduTypeOK'
  <2>1. o.after.value \in Held /\ o.after.flag \in [Handler -> BOOLEAN]
    BY <1>3 DEF States
  <2> QED
    BY <1>1, <1>2, <1>3, <2>1 DEF PduTypeOK, Held
<1>7. last'.request \in Requests /\ last'.before \in States
  BY <1>2, <1>4
<1>8. last'.outcome = handlePacketInPlace(last'.request, last'.before)
  BY <1>4 DEF o
<1>9. PduInv'
  BY <1>6, <1>7, <1>8 DEF PduInv
<1> QED
  BY <1>1, <1>5, <1>9 DEF o, st

\* The sketch looks at its flags.
LEMMA ResetStep ==
  ASSUME PduInv, NEW looked \in SUBSET Settable, resetSetOccurred(looked)
  PROVE  PduInv' /\ ~Served'
<1>1. ~Served'
  <2>1. last' = NoExchange
    BY DEF resetSetOccurred
  <2> QED
    BY <2>1 DEF Served, NoExchange
<1>2. PduTypeOK'
  <2>1. PduTypeOK
    BY DEF PduInv
  <2>2. setOccurred' \in [Handler -> BOOLEAN]
    BY DEF resetSetOccurred
  <2>3. unseen' \subseteq Settable /\ value' = value
    BY <2>1 DEF resetSetOccurred, PduTypeOK
  <2> QED
    BY <2>1, <2>2, <2>3 DEF PduTypeOK
<1> QED
  BY <1>1, <1>2 DEF PduInv

\* Every step preserves the invariant.
LEMMA PduInvStep == PduInv /\ [PduNext]_pduVars => PduInv'
<1> SUFFICES ASSUME PduInv, [PduNext]_pduVars PROVE PduInv'
  OBVIOUS
<1>1. CASE \E req \in Requests : Loop(req)
  BY <1>1, LoopStep
<1>2. CASE \E looked \in SUBSET Settable : resetSetOccurred(looked)
  BY <1>2, ResetStep
<1>3. CASE UNCHANGED pduVars
  BY <1>3 DEF pduVars, PduInv, PduTypeOK, Served, NoExchange
<1> QED
  BY <1>1, <1>2, <1>3 DEF PduNext

\* What the invariant says of the last exchange.
LEMMA PduInvImplies ==
  PduInv => PduTypeOK /\ PathsAgree /\ ErrorIndexIsTheLastRefusal /\ AcknowledgedSetsAreInForce
<1> SUFFICES ASSUME PduInv
             PROVE  PduTypeOK /\ PathsAgree /\ ErrorIndexIsTheLastRefusal
                      /\ AcknowledgedSetsAreInForce
  OBVIOUS
<1>1. PduTypeOK
  BY DEF PduInv
<1>2. CASE ~Served
  BY <1>1, <1>2 DEF PathsAgree, ErrorIndexIsTheLastRefusal, AcknowledgedSetsAreInForce
<1>3. CASE Served
  <2> DEFINE req == last.request
             st == last.before
             o == last.outcome
  <2>1. req \in Request /\ st \in States /\ o = handlePacketInPlace(req, st)
    BY <1>3, PduAssumption DEF PduInv
  <2> HIDE DEF req, st, o
  <2>2. o = handlePacket(req, st)
    BY <2>1, SameFunction
  <2>3. Pointed(o)
    BY <2>1, Outcomes DEF IsOutcome
  <2>4. req.pdu = "Set" => InForce(req, st, o)
    BY <2>1, SetOutcome
  <2>5. PathsAgree
    BY <2>2 DEF PathsAgree, req, st, o
  <2>6. ErrorIndexIsTheLastRefusal
    BY <2>3 DEF ErrorIndexIsTheLastRefusal, Pointed, o
  <2>7. AcknowledgedSetsAreInForce
    BY <2>4 DEF AcknowledgedSetsAreInForce, InForce, Echoed, req, st, o
  <2> QED
    BY <1>1, <2>5, <2>6, <2>7
<1> QED
  BY <1>2, <1>3

\* The handlers hold values of their kind, whatever is asked: no SET makes a
\* string longer than its buffer.
THEOREM HandlersHoldTheirKind == PduSpec => []PduTypeOK
<1>1. PduInv => PduTypeOK
  BY PduInvImplies
<1> QED
  BY <1>1, PduInvInit, PduInvStep, PTL DEF PduSpec

\* Whatever is asked, in whatever state, the build that plans in place answers
\* and changes what the build with containers does.
THEOREM BothPathsAgree == PduSpec => []PathsAgree
<1>1. PduInv => PathsAgree
  BY PduInvImplies
<1> QED
  BY <1>1, PduInvInit, PduInvStep, PTL DEF PduSpec

\* The error index of a response is that of the last refused varbind, and a
\* response without an error has refused none.
THEOREM ErrorIndexPoints == PduSpec => []ErrorIndexIsTheLastRefusal
<1>1. PduInv => ErrorIndexIsTheLastRefusal
  BY PduInvImplies
<1> QED
  BY <1>1, PduInvInit, PduInvStep, PTL DEF PduSpec

\* An acknowledged SET named settable handlers; what its last row for a handler
\* says is what a GET answers from then on, and that is the value asked for unless
\* a NUL cut the text or opaque data came short (ValueCallbacks.cpp 213-262).  No
\* handler changes that no varbind names.
THEOREM AcknowledgedSetsHold == PduSpec => []AcknowledgedSetsAreInForce
<1>1. PduInv => AcknowledgedSetsAreInForce
  BY PduInvImplies
<1> QED
  BY <1>1, PduInvInit, PduInvStep, PTL DEF PduSpec

\* The managers of this theorem name no handler twice in a SET: a second varbind
\* that is refused lowers the flag the first one raised (ValueCallbacks.cpp 157).
SetsNameOnce == \A req \in Requests : req.pdu = "Set" => NamesOnce(req.vbs)

\* Between two requests the sketch has seen every change, if it looks at the
\* flags after every loop().
SeenInv == SetEventsReachSketch /\ (~Served => unseen = {})

\* Every step keeps it: a request is served only between two looks, and what it
\* changes it flags.
LEMMA SeenStep ==
  PollsEveryTick /\ SetsNameOnce /\ PduInv /\ SeenInv /\ [PduNext]_pduVars => SeenInv'
<1> SUFFICES ASSUME PollsEveryTick, SetsNameOnce, PduInv, SeenInv, [PduNext]_pduVars
             PROVE  SeenInv'
  OBVIOUS
<1>1. ASSUME NEW req \in Requests, Loop(req) PROVE SeenInv'
  <2> DEFINE st == State
             after == handlePacketInPlace(req, st).after
  <2>1. unseen = {}
    BY <1>1 DEF Loop, SeenInv
  <2>2. Served' /\ unseen' = Changed(st, after) /\ setOccurred' = after.flag
    BY <1>1, <2>1, LoopStep
  <2>3. st \in States /\ req \in Request /\ (NamesOnce(req.vbs) \/ req.pdu # "Set")
    BY StateKind, PduAssumption DEF PduInv, SetsNameOnce
  <2>4. \A h \in Changed(st, after) : after.flag[h]
    <3> HIDE DEF st
    <3> QED
      BY <2>3, Leaves
  <2> HIDE DEF st, after
  <2> QED
    BY <2>2, <2>4 DEF SeenInv, SetEventsReachSketch
<1>2. ASSUME NEW looked \in SUBSET Settable, resetSetOccurred(looked) PROVE SeenInv'
  <2>1. /\ \A h \in Handler : setOccurred[h] => h \in looked
        /\ unseen' = unseen \ {h \in looked : setOccurred[h]}
    BY <1>2 DEF resetSetOccurred
  <2>2. \A h \in unseen : h \in Handler /\ setOccurred[h]
    BY PduAssumption DEF SeenInv, SetEventsReachSketch, PduInv, PduTypeOK
  <2>3. unseen' = {}
    BY <2>1, <2>2
  <2> QED
    BY <2>3 DEF SeenInv, SetEventsReachSketch
<1>3. CASE UNCHANGED pduVars
  BY <1>3 DEF pduVars, SeenInv, SetEventsReachSketch, Served, NoExchange
<1> QED
  BY <1>1, <1>2, <1>3 DEF PduNext

\* A change a SET made is announced until the sketch has seen it, a SET that is
\* answered with tooBig or with an error included.
THEOREM SetEventsAreSeen ==
  PollsEveryTick /\ SetsNameOnce /\ PduSpec => []SetEventsReachSketch
<1>1. PduInit => SeenInv
  BY DEF PduInit, SeenInv, SetEventsReachSketch
<1>2. SeenInv => SetEventsReachSketch
  BY DEF SeenInv
<1>3. SUFFICES ASSUME PollsEveryTick, SetsNameOnce PROVE PduSpec => []SetEventsReachSketch
  OBVIOUS
<1>4. PduInv /\ SeenInv /\ [PduNext]_pduVars => SeenInv'
  BY <1>3, SeenStep
<1> QED
  BY <1>1, <1>2, <1>4, PduInvInit, PduInvStep, PTL DEF PduSpec
=============================================================================
