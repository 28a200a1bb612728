CONSTANTS
  Ids = {i1, i2}
  Paths = {p, q}
  PinnedRoot = p
  NoPath = nopath
  Session = session
  NoProject = none
  Requests = {r1, r2}
  Ops = {"put", "delete", "add", "get"}
  MaxRequests = 5
  StoreMayFail = FALSE
  OtherConsole = FALSE
  MaxRestarts = 1
SPECIFICATION SelSpec
INVARIANTS SessionMatchesStore
SYMMETRY Symmetry
CHECK_DEADLOCK FALSE
