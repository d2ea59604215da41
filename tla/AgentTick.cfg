CONSTANTS
  v1trap = v1trap
  inform1 = inform1
  inform2 = inform2
  Traps <- MCTraps
  Fleets <- MCFleets
  Reserve = 1
  Handlers = 2
  MaxVarBinds = 4
  MaxInflight = 2
  NSlots <- SNMP_POOL_ASN_OBJECTS
  AckSends = FALSE
SPECIFICATION Spec
INVARIANTS
  TypeOK
  StatelessBetweenSends
  NoDoubleReleases
  TransientsReturned
  IdleMargin
