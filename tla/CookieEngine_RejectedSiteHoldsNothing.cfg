SPECIFICATION Spec
CONSTANTS
  None = None
  NoSite = NoSite
  a = a
  b = b
  Sites = {a, b}
  Declared = {a, b}
  Names = {n1}
  n1 = n1
  DefaultPolicies = {"Reject"}
  FirstPartyWord = "Reject"
  ThirdPartyWord = "Reject"
  AnyCase = FALSE
  StoreFails = FALSE
  MaxRedirectCount = 1
  MaxLines = 1
  MaxLoads = 1
  MaxSessions = 1
CHECK_DEADLOCK FALSE
INVARIANT RejectedSiteHoldsNothing
