CONSTANTS
  Ids = {i1, i2}
  Paths = {p, q}
  PinnedRoot = p
  NoPath = nopath
  Session = session
  NoProject = none
  Requests = {r1, r2}
  Ops = {"put", "delete", "add", "get"}
  MaxRequests = 7
  StoreMayFail = TRUE
  OtherConsole = TRUE
  MaxRestarts = 1
SPECIFICATION SelSpec
INVARIANTS SelTypeOK ServedWasSelected PutAnswersItsOwn MatchesUnlessRaced
SYMMETRY Symmetry
CHECK_DEADLOCK FALSE
