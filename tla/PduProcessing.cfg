SPECIFICATION PduSpec
CONSTANTS
  fixed = fixed
  integer = integer
  string = string
  badoid = badoid
  forced = forced
  counter = counter
  opaque = opaque
  Handler = {fixed, integer, string, badoid, forced, counter, opaque}
  Arcs <- MCArcs
  Table <- MCTable
  Class <- MCClass
  Settable = {integer, string, forced, counter, opaque}
  MaxLen = 4
  DataLen = 2
  MaxVarBinds = 4
  MaxWeight = 6
  community = "private"
  readOnlyCommunity = "public"
  Requests <- MCPolite
  PollsEveryTick = TRUE
INVARIANTS
  PduTypeOK
  
  ErrorIndexIsTheLastRefusal
  AcknowledgedSetsAreInForce
  SetEventsReachSketch
