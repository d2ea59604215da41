CONSTANTS
  t1 = t1
  t2 = t2
  Traps = {t1, t2}
  MaxInflight = 2
  MaxId = 3
  Retries = {1}
  Delays = {1}
  Wrap = 4
  ReplaceChoices = {TRUE, FALSE}
  BuildMayFail = FALSE
SPECIFICATION Spec
PROPERTY RetryReemitsOriginalId
