SPECIFICATION Spec
CONSTANTS
  None = None
  NoSite = NoSite
  a = a
  Sites = {a}
  Declared = {}
  Names = {n1}
  n1 = n1
  DefaultPolicies = {"Session", "Reject"}
  FirstPartyWord = "Reject"
  ThirdPartyWord = "Reject"
  AnyCase = FALSE
  StoreFails = TRUE
  MaxRedirectCount = 1
  MaxLines = 1
  MaxLoads = 1
  MaxSessions = 3
CHECK_DEADLOCK FALSE
PROPERTIES
  ConfirmedPoliciesSurvive
  ImplementsLoadTask
