SPECIFICATION Spec
CONSTANTS
  None = None
  u1 = u1
  u2 = u2
  Urls = {u1, u2}
  MaxHistoryDepth = 1
  MaxLoads = 2
  MaxAnchors = 1
  Pointer = TRUE
CHECK_DEADLOCK FALSE
INVARIANT DraftsStayOnTheirPage
