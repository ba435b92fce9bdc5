SPECIFICATION Spec
CONSTANTS
  None = None
  a = a
  b = b
  bad = bad
  Values = {a, b, bad}
  ValidBases = {a, b}
  Default <- BuiltIn
  StoreFails = TRUE
  MaxKeys = 3
  MaxSessions = 2
CHECK_DEADLOCK FALSE
INVARIANTS
  DraftIsOfFocusedRow
  PanelShowsWhatIsInForce
PROPERTIES
  EscSavesNothing
  ConfirmedSettingsSurvive
  LeavingSaves
  DraftsAreSettled
