--------------------------- MODULE PduProcessing ---------------------------
(***************************************************************************)
(* What an agent answers to a request and what a SET leaves behind, for    *)
(* the two implementations the library has: the in-place handler of        *)
(* SNMPZeroCopy.cpp, which plans a response and then writes it over the    *)
(* request, and the container path of SNMPParser.cpp and                   *)
(* SNMPPDUHandler.cpp.  A build uses one of them; both are functions from  *)
(* a request and the handlers' state to an outcome.                        *)
(*                                                                         *)
(* The bytes of a packet are not modelled: a request is its header fields  *)
(* and its varbinds, and a response fits or not by the weight of its rows. *)
(* The value of a string handler is the length of its text, and that of an *)
(* opaque one a name for its octets.                                       *)
(***************************************************************************)
EXTENDS HandlerOps

CONSTANTS
  Table,               \* the sorted handler table
  Class,               \* Class[h]: the kind of ValueCallback h is
  Settable,            \* the handlers whose isSettable is true
  MaxLen,              \* the capacity of a string handler's buffer
  DataLen,             \* the octets of an opaque handler's data
  MaxVarBinds,         \* SNMP_MAX_VARBINDS
  MaxWeight,           \* the rows' share of MAX_SNMP_PACKET_LENGTH
  community,           \* the agent's read-write community
  readOnlyCommunity,   \* the read-only one, "" for none
  Requests,            \* the requests managers send
  PollsEveryTick       \* the sketch looks at setOccurred after every loop()

\* the ASN type of each class of callback; "badoid" is an OIDCallback whose
\* string does not encode, the one callback that never builds a value
TypeOf ==
  [integer |-> "INTEGER", fixed |-> "INTEGER", string |-> "STRING",
   opaque |-> "OPAQUE", counter |-> "COUNTER32", badoid |-> "OID"]

(***************************************************************************)
(* A varbind as it comes out of the parser.  v is its number, the length   *)
(* of its text up to the first NUL, or the name of its opaque octets; len  *)
(* is how many octets a text or an opaque value came with.  The parser     *)
(* leaves the octets of an OpaqueType behind the value as the pool slot    *)
(* held them: slot names what the value and that rest make together.       *)
(***************************************************************************)
VarBind ==
  {vb \in [oid : Seq(Nat), type : STRING, v : Nat, len : Nat, slot : Nat] :
     vb.type = "STRING" => vb.v <= vb.len}

Request ==
  [version : Nat, community : STRING, pdu : STRING, vbs : Seq(VarBind),
   nonRepeaters : Nat, maxRepetitions : Nat]

\* every handler has an OID of its own
ASSUME PduAssumption ==
  /\ Table \in Seq(Handler) /\ InOrder(Table)
  /\ \A g, h \in Handler : Arcs[g] = Arcs[h] => g = h
  /\ Class \in [Handler -> DOMAIN TypeOf] /\ Settable \subseteq Handler
  /\ MaxWeight \in Nat /\ {MaxLen, DataLen, MaxVarBinds} \subseteq Nat \ {0}
  /\ Requests \subseteq Request
  /\ PollsEveryTick \in BOOLEAN

VARIABLES
  value,        \* value[h]: what the variable behind h holds
  setOccurred,  \* setOccurred[h]: the callback's flag
  unseen,       \* the handlers a SET has changed and the sketch has not looked at
  last          \* the last request, the state it met, and its outcome
pduVars == <<value, setOccurred, unseen, last>>

-----------------------------------------------------------------------------
(* Error statuses and their mapping for SNMPv1.                             *)

NO_ERROR == 0
TOO_BIG == 1
NO_SUCH_NAME == 2
BAD_VALUE == 3
READ_ONLY == 4
GEN_ERR == 5
NO_ACCESS == 6
WRONG_TYPE == 7
WRONG_LENGTH == 8
NOT_WRITABLE == 17

SNMP_ERROR_VERSION_CTRL(error, version) ==
  IF version = 1 /\ error > GEN_ERR THEN GEN_ERR ELSE error

SNMP_ERROR_VERSION_CTRL_DEF(error, version, elseError) ==
  IF version = 1 /\ error > GEN_ERR
  THEN SNMP_ERROR_VERSION_CTRL(elseError, version) ELSE error

Null         == [type |-> "NULL", v |-> 0]
NoSuchObject == [type |-> "NOSUCHOBJECT", v |-> 0]
EndOfMibView == [type |-> "ENDOFMIBVIEW", v |-> 0]
Nullptr      == [type |-> "nullptr", v |-> 0]

-----------------------------------------------------------------------------
(* The callbacks.  st is the handlers' state: st.value and st.flag.         *)

getValueForCallback(h, st) ==
  IF Class[h] = "badoid" THEN Nullptr
  ELSE [type |-> TypeOf[Class[h]], v |-> st.value[h]]

\* Mutant: a string that fills its buffer is accepted.
SetErrorBeyond(h, vb) ==
  CASE Class[h] \in {"fixed", "badoid"} -> NO_ACCESS
    [] Class[h] = "string" -> IF vb.len > MaxLen THEN WRONG_LENGTH ELSE NO_ERROR
    [] Class[h] = "opaque" -> IF vb.len > DataLen THEN WRONG_LENGTH ELSE NO_ERROR
    [] Class[h] \in {"integer", "counter"} -> NO_ERROR

\* setTypeWithValue() of each class: the error
SetError(h, vb) ==
  CASE Class[h] \in {"fixed", "badoid"} -> NO_ACCESS
    [] Class[h] = "string" -> IF vb.len >= MaxLen THEN WRONG_LENGTH ELSE NO_ERROR
    [] Class[h] = "opaque" -> IF vb.len > DataLen THEN WRONG_LENGTH ELSE NO_ERROR
    [] Class[h] \in {"integer", "counter"} -> NO_ERROR

\* what it stores: a text up to its first NUL, and always DataLen opaque octets
Copied(h, vb) ==
  IF Class[h] = "opaque" /\ vb.len < DataLen THEN vb.slot ELSE vb.v

\* Mutant: the flag of a counter is taken back when the value did change.
FlaggedIfSame(h, vb, st) ==
  SetError(h, vb) = NO_ERROR /\ ~(Class[h] = "counter" /\ st.value[h] # Copied(h, vb))

\* a counter that already has the value takes the flag back
Flagged(h, vb, st) ==
  SetError(h, vb) = NO_ERROR /\ ~(Class[h] = "counter" /\ st.value[h] = Copied(h, vb))

\* Mutant: the event is raised and the value is not stored.
setWithoutStoring(h, vb, st) ==
  IF h \notin Settable THEN st
  ELSE [st EXCEPT !.flag[h] = Flagged(h, vb, st)]

setValueForCallback(h, vb, st) ==
  IF h \notin Settable THEN st
  ELSE [value |-> IF SetError(h, vb) = NO_ERROR
                  THEN [st.value EXCEPT ![h] = Copied(h, vb)] ELSE st.value,
        flag |-> [st.flag EXCEPT ![h] = Flagged(h, vb, st)]]

-----------------------------------------------------------------------------
(* Outcomes.  "counted" is the runtime counter the packet advances.         *)

\* a text and opaque data take their octets more, anything else one unit
Weight(rows) ==
  FoldLeft(LAMBDA sum, row :
             sum + 1 + (CASE row.val.type = "STRING" -> row.val.v
                          [] row.val.type = "OPAQUE" -> DataLen
                          [] OTHER -> 0), 0, rows)

Fits(rows) == Weight(rows) <= MaxWeight

NoResponse == [status |-> NO_ERROR, index |-> 0, rows |-> <<>>]

Rejected(code, counter, st) ==
  [code |-> code, response |-> NoResponse, counted |-> counter, after |-> st]

\* an error response names no varbind
ErrorResponse(error, counter, st) ==
  [code |-> "SNMP_ERROR_PACKET_SENT", counted |-> counter, after |-> st,
   response |-> [status |-> error, index |-> 0, rows |-> <<>>]]

getPermissionOfRequest(req) ==
  CASE req.community = community -> "READ_WRITE"
    [] req.community # community /\ readOnlyCommunity # ""
         /\ req.community = readOnlyCommunity -> "READ_ONLY"
    [] OTHER -> "NONE"

SuccessCode(pdu) ==
  CASE pdu = "Get" -> "SNMP_GET_OCCURRED"
    [] pdu = "GetNext" -> "SNMP_GETNEXT_OCCURRED"
    [] pdu = "GetBulk" -> "SNMP_GETBULK_OCCURRED"
    [] pdu = "Set" -> "SNMP_SET_OCCURRED"

-----------------------------------------------------------------------------
(* The in-place path.  A plan refuses a row beyond the varbind capacity.    *)

EmptyPlan == [rows |-> <<>>, lastError |-> NO_ERROR, lastErrorIndex |-> 0, full |-> FALSE]

\* Mutant: the first refusal keeps status and index.
AddFirstError(plan, oid, val, error) ==
  IF plan.full \/ Len(plan.rows) >= MaxVarBinds
  THEN [plan EXCEPT !.full = TRUE]
  ELSE LET rows == Append(plan.rows, [oid |-> oid, val |-> val])
           first == error # NO_ERROR /\ plan.lastError = NO_ERROR
       IN  [plan EXCEPT !.rows = rows,
              !.lastError = IF first THEN error ELSE @,
              !.lastErrorIndex = IF first THEN Len(rows) ELSE @]

\* Mutant: the error index counts from 0.
AddFromZero(plan, oid, val, error) ==
  IF plan.full \/ Len(plan.rows) >= MaxVarBinds
  THEN [plan EXCEPT !.full = TRUE]
  ELSE [plan EXCEPT !.rows = Append(@, [oid |-> oid, val |-> val]),
          !.lastError = IF error # NO_ERROR THEN error ELSE @,
          !.lastErrorIndex = IF error # NO_ERROR THEN Len(plan.rows) ELSE @]

Add(plan, oid, val, error) ==
  IF plan.full \/ Len(plan.rows) >= MaxVarBinds
  THEN [plan EXCEPT !.full = TRUE]
  ELSE LET rows == Append(plan.rows, [oid |-> oid, val |-> val])
       IN  [plan EXCEPT !.rows = rows,
              !.lastError = IF error # NO_ERROR THEN error ELSE @,
              !.lastErrorIndex = IF error # NO_ERROR THEN Len(rows) ELSE @]

\* one varbind of a GET or GETNEXT, with the position of its handler
PlanGetAt(hit, plan, vb, req, st, getNext) ==
  LET val == getValueForCallback(Table[hit], st)
  IN  IF hit = 0
      THEN Add(plan, vb.oid, IF getNext THEN EndOfMibView ELSE NoSuchObject, NO_ERROR)
      ELSE IF val = Nullptr
      THEN Add(plan, Data[Table[hit]], Null, SNMP_ERROR_VERSION_CTRL(GEN_ERR, req.version))
      ELSE Add(plan, Data[Table[hit]], val, NO_ERROR)

PlanGet(plan, vb, req, st, getNext) ==
  PlanGetAt(findCallbackForSlice(Table, vb.oid, getNext, 1), plan, vb, req, st, getNext)

stageGet(req, st, getNext) ==
  FoldLeft(LAMBDA plan, vb : PlanGet(plan, vb, req, st, getNext), EmptyPlan, req.vbs)

\* a non-repeater is looked up like a GETNEXT but echoes the request's OID
PlanNonRepeaterAt(hit, plan, vb, st) ==
  LET val == getValueForCallback(Table[hit], st)
  IN  IF hit = 0 THEN Add(plan, vb.oid, EndOfMibView, NO_ERROR)
      ELSE IF val = Nullptr THEN Add(plan, Data[Table[hit]], Null, GEN_ERR)
      ELSE Add(plan, vb.oid, val, NO_ERROR)

PlanNonRepeater(plan, vb, st) ==
  PlanNonRepeaterAt(findCallbackForSlice(Table, vb.oid, TRUE, 1), plan, vb, st)

\* a repetition: cursor and foundAt move to the handler that answers
PlanRepetition(hit, s, st) ==
  LET val == getValueForCallback(Table[hit], st)
  IN  IF hit = 0
      THEN [s EXCEPT !.plan = Add(@, s.cursor, EndOfMibView, NO_ERROR), !.over = TRUE]
      ELSE IF val = Nullptr
      THEN [s EXCEPT !.plan = Add(@, Data[Table[hit]], Null, GEN_ERR), !.over = TRUE]
      ELSE [s EXCEPT !.plan = Add(@, Data[Table[hit]], val, NO_ERROR),
                     !.cursor = Data[Table[hit]], !.foundAt = hit]

PlanRepeat(s, st) ==
  IF s.over \/ s.plan.full THEN s
  ELSE PlanRepetition(findCallbackForSlice(Table, s.cursor, TRUE, s.foundAt), s, st)

PlanRepeater(plan, vb, n, st) ==
  FoldLeft(LAMBDA s, k : PlanRepeat(s, st),
           [plan |-> plan, cursor |-> vb.oid, foundAt |-> 1, over |-> FALSE],
           [k \in 1 .. n |-> k]).plan

PlanBulk(plan, i, req, st) ==
  IF i <= req.nonRepeaters THEN PlanNonRepeater(plan, req.vbs[i], st)
  ELSE PlanRepeater(plan, req.vbs[i], req.maxRepetitions, st)

stageGetBulk(req, st) ==
  FoldLeftDomain(LAMBDA plan, i : PlanBulk(plan, i, req, st), EmptyPlan, req.vbs)

\* one varbind of a SET; acc is the plan and the handlers' state so far
PlanSetAt(hit, acc, vb, req) ==
  LET h     == Table[hit]
      after == setValueForCallback(h, vb, acc.st)
      Refuse(oid, error) == [acc EXCEPT !.plan = Add(@, oid, Null, error)]
      Answer(row, error) == [plan |-> Add(acc.plan, Data[h], row, error), st |-> after]
  IN  IF hit = 0 THEN
        Refuse(vb.oid, SNMP_ERROR_VERSION_CTRL_DEF(NOT_WRITABLE, req.version, NO_SUCH_NAME))
      ELSE IF TypeOf[Class[h]] # vb.type THEN
        Refuse(vb.oid, SNMP_ERROR_VERSION_CTRL_DEF(WRONG_TYPE, req.version, BAD_VALUE))
      ELSE IF h \notin Settable THEN
        Refuse(vb.oid, SNMP_ERROR_VERSION_CTRL(READ_ONLY, req.version))
      ELSE IF SetError(h, vb) # NO_ERROR THEN
        Answer(Null, SNMP_ERROR_VERSION_CTRL(SetError(h, vb), req.version))
      ELSE Answer(getValueForCallback(h, after), NO_ERROR)

PlanSet(acc, vb, req) ==
  IF acc.plan.full THEN acc
  ELSE PlanSetAt(findCallbackForSlice(Table, vb.oid, FALSE, 1), acc, vb, req)

stageSet(req, st) ==
  FoldLeft(LAMBDA acc, vb : PlanSet(acc, vb, req), [plan |-> EmptyPlan, st |-> st], req.vbs)

\* Phase B: the plan is written over the request, or a tooBig that names nothing
Written(plan, req, st) ==
  IF plan.full \/ ~Fits(plan.rows)
  THEN ErrorResponse(TOO_BIG, "tooBig", st)
  ELSE [code |-> SuccessCode(req.pdu), counted |-> "none", after |-> st,
        response |-> [status |-> plan.lastError, index |-> plan.lastErrorIndex,
                      rows |-> plan.rows]]

\* a SET has been applied by the time the plan is written
WrittenSet(set, req) == Written(set.plan, req, set.st)

handlePacketInPlace(req, st) ==
  IF Len(req.vbs) > MaxVarBinds THEN Rejected("SNMP_REQUEST_INVALID", "malformed", st)
  ELSE IF getPermissionOfRequest(req) = "NONE"
  THEN Rejected("SNMP_REQUEST_INVALID_COMMUNITY", "rejected", st)
  ELSE CASE req.pdu = "Get" -> Written(stageGet(req, st, FALSE), req, st)
         [] req.pdu = "GetNext" -> Written(stageGet(req, st, TRUE), req, st)
         [] req.pdu = "GetBulk" ->
              IF req.version # 2 THEN ErrorResponse(GEN_ERR, "none", st)
              ELSE Written(stageGetBulk(req, st), req, st)
         [] req.pdu = "Set" ->
              IF getPermissionOfRequest(req) # "READ_WRITE"
              THEN ErrorResponse(NO_ACCESS, "none", st)
              ELSE WrittenSet(stageSet(req, st), req)
         [] OTHER -> ErrorResponse(GEN_ERR, "none", st)

-----------------------------------------------------------------------------
(* The container path.  An item is a VarBind of the response list; a list   *)
(* at capacity drops what is appended, and GETBULK reports the overflow.    *)

Item(oid, val, error) == [oid |-> oid, val |-> val, error |-> error]

appendResponseVarBind(out, item) ==
  IF Len(out) < MaxVarBinds THEN Append(out, item) ELSE out

GetItemAt(hit, vb, req, st, isGetNextRequest) ==
  LET val == getValueForCallback(Table[hit], st)
  IN  CASE hit = 0 /\ isGetNextRequest -> Item(vb.oid, EndOfMibView, NO_ERROR)
        [] hit = 0 /\ ~isGetNextRequest -> Item(vb.oid, NoSuchObject, NO_ERROR)
        [] hit # 0 ->
             IF val = Nullptr
             THEN Item(Data[Table[hit]], Null, SNMP_ERROR_VERSION_CTRL(GEN_ERR, req.version))
             ELSE Item(Data[Table[hit]], val, NO_ERROR)

GetItem(vb, req, st, isGetNextRequest) ==
  GetItemAt(findCallback(Table, vb.oid, isGetNextRequest, 1), vb, req, st, isGetNextRequest)

handleGetRequestPDU(req, st, isGetNextRequest) ==
  FoldLeft(LAMBDA out, vb :
             appendResponseVarBind(out, GetItem(vb, req, st, isGetNextRequest)),
           <<>>, req.vbs)

\* the item a SET varbind is answered with, and the handlers' state after it
SetItemAt(hit, vb, req, st) ==
  LET h   == Table[hit]
      setError == SetError(h, vb)
      after == setValueForCallback(h, vb, st)
      Kept(error) == [item |-> Item(vb.oid, Null, error), st |-> st]
  IN  CASE hit = 0 ->
             Kept(SNMP_ERROR_VERSION_CTRL_DEF(NOT_WRITABLE, req.version, NO_SUCH_NAME))
        [] hit # 0 /\ TypeOf[Class[h]] # vb.type ->
             Kept(SNMP_ERROR_VERSION_CTRL_DEF(WRONG_TYPE, req.version, BAD_VALUE))
        [] hit # 0 /\ TypeOf[Class[h]] = vb.type /\ h \notin Settable ->
             Kept(SNMP_ERROR_VERSION_CTRL(READ_ONLY, req.version))
        [] hit # 0 /\ TypeOf[Class[h]] = vb.type /\ h \in Settable ->
             [st |-> after,
              item |-> IF setError # NO_ERROR
                       THEN Item(Data[h], Null,
                                 SNMP_ERROR_VERSION_CTRL(setError, req.version))
                       ELSE Item(Data[h], getValueForCallback(h, after), NO_ERROR)]

SetItem(vb, req, st) == SetItemAt(findCallback(Table, vb.oid, FALSE, 1), vb, req, st)

\* the list and the state after one more item
AfterSetItem(out, set) == [out |-> appendResponseVarBind(out, set.item), st |-> set.st]

handleSetRequestPDU(req, st) ==
  FoldLeft(LAMBDA acc, vb : AfterSetItem(acc.out, SetItem(vb, req, acc.st)),
           [out |-> <<>>, st |-> st], req.vbs)

\* one append of a GETBULK: the first that finds the list full ends it all
BulkAppend(bulk, item) ==
  [out |-> appendResponseVarBind(bulk.out, item),
   overflow |-> bulk.overflow \/ Len(bulk.out) >= MaxVarBinds]

BulkNonRepeaterItem(hit, vb, st) ==
  LET val == getValueForCallback(Table[hit], st)
  IN  IF hit = 0 THEN Item(vb.oid, EndOfMibView, NO_ERROR)
      ELSE IF val = Nullptr THEN Item(Data[Table[hit]], Null, GEN_ERR)
      ELSE Item(vb.oid, val, NO_ERROR)

BulkNonRepeater(bulk, vb, st) ==
  BulkAppend(bulk, BulkNonRepeaterItem(findCallback(Table, vb.oid, TRUE, 1), vb, st))

BulkRepetition(hit, s, st) ==
  LET val   == getValueForCallback(Table[hit], st)
      stops == hit = 0 \/ val = Nullptr
      item  == IF hit = 0 THEN Item(s.oid, EndOfMibView, NO_ERROR)
               ELSE IF val = Nullptr THEN Item(Data[Table[hit]], Null, GEN_ERR)
               ELSE Item(Data[Table[hit]], val, NO_ERROR)
  IN  [bulk |-> BulkAppend(s.bulk, item), broken |-> stops,
       oid |-> IF stops THEN s.oid ELSE Data[Table[hit]],
       foundAt |-> IF hit = 0 THEN s.foundAt ELSE hit]

BulkRepeat(s, st) ==
  IF s.broken \/ s.bulk.overflow THEN s
  ELSE BulkRepetition(findCallback(Table, s.oid, TRUE, s.foundAt), s, st)

BulkRepeater(bulk, vb, n, st) ==
  FoldLeft(LAMBDA s, j : BulkRepeat(s, st),
           [bulk |-> bulk, oid |-> vb.oid, foundAt |-> 1, broken |-> FALSE],
           [j \in 1 .. n |-> j]).bulk

BulkVarBind(bulk, i, req, st) ==
  IF bulk.overflow THEN bulk
  ELSE IF i <= req.nonRepeaters THEN BulkNonRepeater(bulk, req.vbs[i], st)
  ELSE BulkRepeater(bulk, req.vbs[i], req.maxRepetitions, st)

EmptyBulk == [out |-> <<>>, overflow |-> FALSE]

handleGetBulkRequestPDU(req, st) ==
  FoldLeftDomain(LAMBDA bulk, i : BulkVarBind(bulk, i, req, st), EmptyBulk, req.vbs)

\* addResponse()/addErrorResponse(): an error item takes status and index over
addResponse(r, item) ==
  [status |-> IF item.error # NO_ERROR THEN item.error ELSE r.status,
   index  |-> IF item.error # NO_ERROR THEN Len(r.rows) + 1 ELSE r.index,
   rows   |-> Append(r.rows, [oid |-> item.oid, val |-> item.val])]

addResponses(out) == FoldLeft(addResponse, NoResponse, out)

\* a response that does not fit is rebuilt as tooBig
Serialised(response, req, st) ==
  IF Fits(response.rows)
  THEN [code |-> SuccessCode(req.pdu), response |-> response,
        counted |-> "none", after |-> st]
  ELSE ErrorResponse(TOO_BIG, "tooBig", st)

SerialisedBulk(bulk, req, st) ==
  IF bulk.overflow THEN ErrorResponse(TOO_BIG, "tooBig", st)
  ELSE Serialised(addResponses(bulk.out), req, st)

SerialisedSet(set, req) == Serialised(addResponses(set.out), req, set.st)

handlePacket(req, st) ==
  IF Len(req.vbs) > MaxVarBinds THEN Rejected("SNMP_REQUEST_INVALID", "malformed", st)
  ELSE IF getPermissionOfRequest(req) = "NONE"
  THEN Rejected("SNMP_REQUEST_INVALID_COMMUNITY", "rejected", st)
  ELSE CASE req.pdu \in {"Get", "GetNext"} ->
              Serialised(addResponses(handleGetRequestPDU(req, st, req.pdu = "GetNext")),
                         req, st)
         [] req.pdu = "GetBulk" ->
              IF req.version # 2 THEN ErrorResponse(GEN_ERR, "none", st)
              ELSE SerialisedBulk(handleGetBulkRequestPDU(req, st), req, st)
         [] req.pdu = "Set" ->
              IF getPermissionOfRequest(req) # "READ_WRITE"
              THEN ErrorResponse(NO_ACCESS, "none", st)
              ELSE SerialisedSet(handleSetRequestPDU(req, st), req)
         [] OTHER -> ErrorResponse(GEN_ERR, "none", st)

-----------------------------------------------------------------------------
(* A tick that serves one request, and the sketch between ticks.            *)

NoExchange == [outcome |-> "none"]

\* a request has been served and the sketch is about to run
Served == DOMAIN last # DOMAIN NoExchange

State == [value |-> value, flag |-> setOccurred]

Changed(before, after) == {h \in Handler : before.value[h] # after.value[h]}

Loop(req) ==
  /\ ~Served
  /\ \E outcome \in {handlePacketInPlace(req, State)} :
       /\ value' = outcome.after.value
       /\ setOccurred' = outcome.after.flag
       /\ unseen' = unseen \cup Changed(State, outcome.after)
       /\ last' = [request |-> req, before |-> State, outcome |-> outcome]

\* back in the sketch: the flags it looks at are handled and cleared
resetSetOccurred(looked) ==
  /\ Served
  /\ PollsEveryTick => \A h \in Handler : setOccurred[h] => h \in looked
  /\ setOccurred' = [h \in Handler |-> setOccurred[h] /\ h \notin looked]
  /\ unseen' = unseen \ {h \in looked : setOccurred[h]}
  /\ last' = NoExchange
  /\ UNCHANGED value

PduInit ==
  /\ value = [h \in Handler |-> 0]
  /\ setOccurred = [h \in Handler |-> FALSE]
  /\ unseen = {}
  /\ last = NoExchange

PduNext ==
  \/ \E req \in Requests : Loop(req)
  \/ \E looked \in SUBSET Settable : resetSetOccurred(looked)

PduSpec == PduInit /\ [][PduNext]_pduVars

-----------------------------------------------------------------------------
(* Properties.                                                              *)

PduTypeOK ==
  /\ value \in [Handler -> Nat] /\ setOccurred \in [Handler -> BOOLEAN]
  /\ unseen \subseteq Settable
  /\ \A h \in Handler : Class[h] = "string" => value[h] < MaxLen

(***************************************************************************)
(* The two implementations are the same function: the same return code,    *)
(* response, handler values, setOccurred flags and runtime counter for     *)
(* every request in every state it met, for the same octets left in the    *)
(* slot of a short opaque value.  SNMP_Embedded.cpp calls the in-place     *)
(* handler "wire-identical to handlePacket".                               *)
(***************************************************************************)
PathsAgree ==
  Served => last.outcome = handlePacket(last.request, last.before)

(***************************************************************************)
(* The error index of a response points at a varbind that was refused: its *)
(* row carries no value, nothing after it failed, and a response without   *)
(* an error has no refused row.                                            *)
(***************************************************************************)
ErrorIndexIsTheLastRefusal ==
  Served =>
    LET r == last.outcome.response
        refused == {i \in DOMAIN r.rows : r.rows[i].val = Null}
    IN  IF last.outcome.code = "SNMP_ERROR_PACKET_SENT"
        THEN r.rows = <<>> /\ r.index = 0 /\ r.status # NO_ERROR
        ELSE /\ r.status # NO_ERROR <=> refused # {}
             /\ refused # {} => r.index \in refused /\ \A i \in refused : i <= r.index

\* the value can be kept as it came: a text without a NUL, opaque data in full
Whole(vb) ==
  CASE vb.type = "STRING" -> vb.v = vb.len
    [] vb.type = "OPAQUE" -> vb.len = DataLen
    [] OTHER -> TRUE

LastFor(vbs, h) == {i \in DOMAIN vbs :
  vbs[i].oid = Data[h] /\ \A j \in DOMAIN vbs : vbs[j].oid = Data[h] => j <= i}

(***************************************************************************)
(* A SET that is acknowledged without an error is in force: every varbind  *)
(* named a settable handler, and the row of the last one for a handler     *)
(* says what a GET will answer.  That is the value asked for unless the    *)
(* handler keeps another: a string handler cuts the text at a NUL, and an  *)
(* opaque one fills short data up with what the slot held.  A handler no   *)
(* varbind of the SET names keeps its value.                               *)
(***************************************************************************)
AcknowledgedSetsAreInForce ==
  Served /\ last.request.pdu = "Set" =>
    LET vbs == last.request.vbs
        o   == last.outcome
    IN  /\ o.code = "SNMP_SET_OCCURRED" /\ o.response.status = NO_ERROR =>
             /\ \A i \in DOMAIN vbs :
                  /\ o.response.rows[i].oid = vbs[i].oid
                  /\ Whole(vbs[i]) =>
                       o.response.rows[i].val = [type |-> vbs[i].type, v |-> vbs[i].v]
             /\ \A h \in Handler : \A i \in LastFor(vbs, h) :
                  /\ h \in Settable
                  /\ o.response.rows[i].val = getValueForCallback(h, o.after)
        /\ \A h \in Changed(last.before, o.after) : LastFor(vbs, h) # {}

(***************************************************************************)
(* A change made by a SET is announced: until the sketch has seen it, the  *)
(* callback's setOccurred is true.                                         *)
(***************************************************************************)
SetEventsReachSketch == \A h \in unseen : setOccurred[h]
=============================================================================
