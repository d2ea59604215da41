CONSTANTS
  t1 = t1
  t2 = t2
  Traps = {t1, t2}
  MaxInflight = 2
  MaxId = 3
  Retries = {0, 1}
  Delays = {1, 2}
  Wrap = 4
  ReplaceChoices = {TRUE, FALSE}
  BuildMayFail = TRUE
SPECIFICATION Spec
SYMMETRY TrapSymmetry
INVARIANTS
  TypeOK
  QueueHoldsOpenInforms
  BudgetIsExact
  AcksAreGenuine
  ElapsedSurvivesWrap
PROPERTIES
  GivesUpOnlyAfterLastWait
