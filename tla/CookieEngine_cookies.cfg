SPECIFICATION Spec
CONSTANTS
  None = None
  NoSite = NoSite
  a = a
  b = b
  Sites = {a, b}
  Declared = {NoSite}
  Names = {n1}
  n1 = n1
  DefaultPolicies = {"Session", "Ask", "Reject"}
  FirstPartyWord = "Reject"
  ThirdPartyWord = "Reject"
  AnyCase = TRUE
  StoreFails = FALSE
  MaxRedirectCount = 1
  MaxLines = 1
  MaxLoads = 2
  MaxSessions = 1
CHECK_DEADLOCK FALSE
SYMMETRY SiteSymmetry
INVARIANTS
  CookiesReturnToTheirSetter
  SecureStaysEncrypted
  RejectedSiteHoldsNothing
  TightenedDefaultForgets
  HeldCookiesAreListed
PROPERTY CookiesEnterAsPermitted
