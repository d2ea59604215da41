CONSTANTS
  t1 = t1
  t2 = t2
  Traps = {t1, t2}
  MaxInflight = 2
  MaxId = 2
  Retries = {1}
  Delays = {1}
  Wrap = 3
  ReplaceChoices = {TRUE}
  BuildMayFail = FALSE
  MaxUdp = 2
SPECIFICATION LoopSpec
INVARIANTS
  LoopTypeOK
  RetryCarriesOwnId
PROPERTIES
  InformsSettleInTraffic
  EverySocketIsServed
  ImplementsService
