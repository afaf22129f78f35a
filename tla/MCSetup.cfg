\* Three runs, one of them of an older version, with failures and foreign edits.
SPECIFICATION Spec
CONSTANTS
  Setups <- Three
  scope <- Scopes
  markdown <- Baked
  MaxEdits = 2
  MaxFailures = 1
INVARIANTS TypeOK OneHook
PROPERTIES EditsSurvive NeverCorruptedAlone DoneMeansWired
CHECK_DEADLOCK FALSE
