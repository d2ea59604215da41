------------------------------ MODULE MibWalk ------------------------------
(***************************************************************************)
(* A manager's walk over the MIB of an agent whose sketch registers,       *)
(* removes and sorts handlers in between.  Every answer comes from a       *)
(* separate loop() tick: the agent keeps nothing about a walk, the OID of  *)
(* the last answer is all there is, and the table it is looked up in may   *)
(* have changed since.  The table may hold an OID twice, since nothing in  *)
(* addHandler() looks for it but the check for the library's own sysUpTime.*)
(*                                                                         *)
(* A sketch sorts the table after it registers handlers and before the     *)
(* next loop(): requests are only served while the table is in order.      *)
(***************************************************************************)
EXTENDS HandlerOps

CONSTANTS
  Uptime,           \* the library's own sysUpTime handler
  SystemGroup,      \* the handlers of addRFC1213SystemGroup(), in its order
  MaxCallbacks,     \* SNMP_MAX_CALLBACKS_PER_AGENT
  Asked,            \* the OIDs, as arcs, a manager may start a walk from
  Repetitions       \* the max-repetitions of a GETBULK

\* the sub-identifiers a manager asks for need not fit a long, as a handler's
\* do; the members of the group have OIDs of their own
ASSUME WalkAssumption ==
  /\ Asked \subseteq Seq(Nat)
  /\ Uptime \in Handler
  /\ SystemGroup \in Seq(Handler)
  /\ \A i, j \in 1 .. Len(SystemGroup) :
        Arcs[SystemGroup[i]] = Arcs[SystemGroup[j]] => i = j
  /\ MaxCallbacks \in Nat \ {0}
  /\ Repetitions \subseteq Nat \ {0}

VARIABLES
  callbacks,        \* the handler table
  walk              \* the manager's walk, NoWalk before it starts
vars == <<callbacks, walk>>

\* the OIDs a manager asks for, as they stand in its requests
Wire == [arcs \in Asked |-> EncodeOid(arcs)]

NoWalk == [root |-> <<>>, seen |-> <<>>, steady |-> {}, on |-> "idle"]

Registered == ToSet(callbacks)

\* the OID of the next request, as arcs and as bytes
Position == IF walk.seen = <<>> THEN walk.root ELSE Arcs[Last(walk.seen)]

At == IF walk.seen = <<>> THEN Wire[walk.root] ELSE Data[Last(walk.seen)]

\* the walk can go on from this OID: it is registered, or something below it is
Anchored(table, oid) ==
  \E i \in 1 .. Len(table) :
     Data[table[i]] = oid \/ isSubTreeOf(Data[table[i]], oid)

\* two handlers have this OID
Twice(table, oid) ==
  \E i, j \in 1 .. Len(table) : i < j /\ Data[table[i]] = oid /\ Data[table[j]] = oid

-----------------------------------------------------------------------------
(* The handlers that answer a GETBULK's repetitions: 0 is endOfMibView.     *)

\* Mutant: the cursor of a repeater stays at the OID of the request.
BulkHitsOfOneCursor(table, slice, n) ==
  LET hits[k \in 0 .. n] ==
        IF k = 0 THEN <<>>
        ELSE LET before == hits[k - 1]
             IN  IF before # <<>> /\ Last(before) = 0 THEN before
                 ELSE Append(before,
                        findCallbackForSlice(table, slice, TRUE,
                          IF before = <<>> THEN 1 ELSE Last(before)))
  IN  hits[n]

BulkHits(table, slice, n) ==
  LET hits[k \in 0 .. n] ==
        IF k = 0 THEN <<>>
        ELSE LET before == hits[k - 1]
                 cursor == IF before = <<>> THEN slice
                           ELSE Data[table[Last(before)]]
                 foundAt == IF before = <<>> THEN 1 ELSE Last(before)
             IN  IF before # <<>> /\ Last(before) = 0 THEN before
                 ELSE Append(before, findCallbackForSlice(table, cursor, TRUE, foundAt))
  IN  hits[n]

\* the rows with a handler: endOfMibView can only be the last
Answered(hits) == IF Last(hits) = 0 THEN Front(hits) ELSE hits

-----------------------------------------------------------------------------
(* The sketch.                                                              *)

\* Mutant: a table that is full grows.
WithHandlerUnbounded(table, h) ==
  IF h # Uptime /\ Arcs[h] = Arcs[Uptime] THEN table ELSE Append(table, h)

\* Mutant: a second sysUpTime is registered.
WithHandlerTwice(table, h) ==
  IF Len(table) >= MaxCallbacks THEN table ELSE Append(table, h)

\* addHandler() from one of the addXxxHandler() calls: a second sysUpTime is
\* refused, a full table refuses everything
WithHandler(table, h) ==
  IF \/ h # Uptime /\ Arcs[h] = Arcs[Uptime]
     \/ Len(table) >= MaxCallbacks
  THEN table
  ELSE Append(table, h)

addHandler(h) ==
  /\ h \notin Registered
  /\ callbacks' = WithHandler(callbacks, h)
  /\ UNCHANGED walk

\* the members the sketch passes are registered one by one, in the group's order
WithGroup(table, passed) ==
  FoldLeft(LAMBDA t, h : IF h \in passed THEN WithHandler(t, h) ELSE t,
           table, SystemGroup)

addRFC1213SystemGroup(passed) ==
  /\ passed \cap Registered = {}
  /\ callbacks' = WithGroup(callbacks, passed)
  /\ UNCHANGED walk

removeHandler(h) ==
  /\ h \in Registered \ {Uptime}
  /\ callbacks' = remove_handler(callbacks, h)
  /\ walk' = [walk EXCEPT !.steady = @ \ {h}]

sortHandlers ==
  /\ callbacks' \in sort_handlers(callbacks)
  /\ UNCHANGED walk

-----------------------------------------------------------------------------
(* The manager.                                                             *)

\* the manager picks an OID that is registered or has registered ones below it
StartWalk(arcs) ==
  /\ walk.on = "idle"
  /\ InOrder(callbacks) /\ Anchored(callbacks, Wire[arcs])
  /\ walk' = [root |-> arcs, seen |-> <<>>, on |-> "yes",
              steady |-> {h \in Registered : LexLess(arcs, Arcs[h])}]
  /\ UNCHANGED callbacks

\* the rows whose OID is not after the one before
Turns(rows) ==
  {k \in 1 .. Len(rows) :
     ~LexLess(IF k = 1 THEN Position ELSE Arcs[rows[k - 1]], Arcs[rows[k]])}

\* what the answers to one request add to the walk; a manager takes the rows as
\* long as their OIDs ascend, and gives up when it sees that it is going round
Received(hits) ==
  LET rows  == [k \in 1 .. Len(Answered(hits)) |-> callbacks[hits[k]]]
      turns == Turns(rows)
  IN  IF turns = {}
      THEN [walk EXCEPT !.seen = @ \o rows,
                        !.on = IF Last(hits) = 0 THEN "ended" ELSE @]
      ELSE [walk EXCEPT !.seen = @ \o SubSeq(rows, 1, Least(turns) - 1),
                        !.on = "circling"]

GetNext ==
  /\ UNCHANGED callbacks
  /\ walk.on = "yes" /\ InOrder(callbacks)
  /\ walk' = Received(<<findCallbackForSlice(callbacks, At, TRUE, 1)>>)

GetBulk(n) ==
  /\ walk.on = "yes" /\ InOrder(callbacks)
  /\ walk' = Received(BulkHits(callbacks, At, n))
  /\ UNCHANGED callbacks

-----------------------------------------------------------------------------
\* the constructor has registered sysUpTime
Init == callbacks = <<Uptime>> /\ walk = NoWalk

Sketch ==
  \/ \E h \in Handler \ (ToSet(SystemGroup) \cup {Uptime}) : addHandler(h)
  \/ \E passed \in SUBSET ToSet(SystemGroup) \ {{}} : addRFC1213SystemGroup(passed)
  \/ \E h \in Handler : removeHandler(h)
  \/ sortHandlers

Manager ==
  \/ \E arcs \in Asked : StartWalk(arcs)
  \/ GetNext
  \/ \E n \in Repetitions : GetBulk(n)

Next == Sketch \/ Manager

Spec == Init /\ [][Next]_vars

\* a table that was changed is sorted; loop() serves between changes, so a
\* manager that keeps asking is answered again and again
Fairness == WF_vars(sortHandlers) /\ SF_vars(GetNext)

FairSpec == Spec /\ Fairness

-----------------------------------------------------------------------------
(* Properties.                                                              *)

TypeOK ==
  /\ callbacks \in Seq(Handler) /\ Len(callbacks) <= MaxCallbacks
  /\ walk.seen \in Seq(Handler)
  /\ walk.steady \subseteq Registered
  /\ walk.on \in {"idle", "yes", "ended", "circling"}

(***************************************************************************)
(* In a sorted table, the answer of a walk request for any anchored OID is *)
(* the least registered OID after it, arcs compared as numbers, although   *)
(* the match compares encoded bytes and only the sort looks at numbers.    *)
(* An OID that two handlers have is answered with itself.                  *)
(***************************************************************************)
Successor(arcs) ==
  {i \in 1 .. Len(callbacks) :
     /\ LexLess(arcs, Arcs[callbacks[i]])
     /\ \A g \in Registered : LexLess(arcs, Arcs[g]) =>
           ~LexLess(Arcs[g], Arcs[callbacks[i]])}

AnswersSuccessor(arcs) ==
  LET hit == findCallbackForSlice(callbacks, Wire[arcs], TRUE, 1)
  IN  IF Twice(callbacks, Wire[arcs]) THEN hit # 0 /\ Arcs[callbacks[hit]] = arcs
      ELSE IF Successor(arcs) = {} THEN hit = 0 ELSE hit \in Successor(arcs)

NextIsLexical ==
  InOrder(callbacks) =>
    \A arcs \in Asked : Anchored(callbacks, Wire[arcs]) => AnswersSuccessor(arcs)

(***************************************************************************)
(* A walk turns back only at an OID that two handlers have: whatever the   *)
(* sketch registers, removes and sorts between the requests, a row with an *)
(* OID not after the last one comes only when the table holds the last one *)
(* twice.  sysUpTime is never such an OID.                                 *)
(***************************************************************************)
TurnsAtTwins ==
  walk.on = "yes" /\ walk'.on = "circling" =>
    Twice(callbacks, At') /\ At' # Data[Uptime]

WalkTurnsOnlyAtTwins == [][TurnsAtTwins]_vars

(***************************************************************************)
(* A walk is answered endOfMibView only when it has seen the OID of every  *)
(* handler that was registered the whole time; or else the handler it      *)
(* stood at has been removed, with nothing registered below it.  In that   *)
(* case, and in no other, findCallbackForSlice() ends it with later OIDs   *)
(* unseen.                                                                 *)
(***************************************************************************)
EndsAtTheEnd ==
  walk.on = "yes" /\ walk'.on = "ended" =>
    \/ \A h \in walk.steady : \E g \in ToSet(walk'.seen) : Arcs[g] = Arcs[h]
    \/ ~Anchored(callbacks, At)

WalkCoversTheMib == [][EndsAtTheEnd]_vars

(***************************************************************************)
(* The repetitions of one GETBULK, which continue from the table position  *)
(* of the last hit, answer what as many single GETNEXTs would, in a table  *)
(* without an OID twice.  (In one with, only the GETBULK gets past it.)    *)
(***************************************************************************)
RepeatedGetNext(table, slice, n) ==
  LET hits[k \in 0 .. n] ==
        IF k = 0 THEN <<>>
        ELSE LET before == hits[k - 1]
             IN  IF before # <<>> /\ Last(before) = 0 THEN before
                 ELSE Append(before,
                        findCallbackForSlice(table,
                          IF before = <<>> THEN slice ELSE Data[table[Last(before)]],
                          TRUE, 1))
  IN  hits[n]

\* no OID is registered twice
OidsDistinct ==
  \A i, j \in 1 .. Len(callbacks) :
     Arcs[callbacks[i]] = Arcs[callbacks[j]] => i = j

BulkIsRepeatedGetNext ==
  InOrder(callbacks) /\ OidsDistinct =>
    \A arcs \in Asked : \A n \in Repetitions :
       BulkHits(callbacks, Wire[arcs], n)
         = RepeatedGetNext(callbacks, Wire[arcs], n)

(***************************************************************************)
(* A walk comes to its end, and is never sent round in circles, over a MIB *)
(* that never holds an OID twice.                                          *)
(***************************************************************************)
EveryWalkEnds ==
  []OidsDistinct => (walk.on = "yes" ~> walk.on = "ended")
=============================================================================
