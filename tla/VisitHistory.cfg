SPECIFICATION Spec
CONSTANTS
  None = None
  u1 = u1
  u2 = u2
  Urls = {u1, u2}
  HostOf <- HostOfUrl
  Retention = 0
  QueryLimit = 1
  Spellings = {TRUE, FALSE}
  HistoryModes = {"Disabled", "InMemory", "Persistent"}
  StoreFails = TRUE
  MaxVisits = 2
  MaxCounted = 3
  MaxTime = 1
  MaxSessions = 2
CHECK_DEADLOCK FALSE
SYMMETRY UrlSymmetry
INVARIANTS
  PagesCoverTheirVisits
  SuggestionsMatchTheStore
  ListedVisitsAreHeld
  ForgottenStaysForgotten
PROPERTIES
  StartsAreConsistent
  ImplementsRememberedVisits
