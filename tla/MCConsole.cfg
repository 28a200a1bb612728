CONSTANTS
  Ids = {i1}
  Paths = {p, q}
  PinnedRoot = p
  NoPath = nopath
  Session = session
  NoProject = none
  Requests = {r1, r2}
  Ops = {"put", "delete", "add"}
  MaxRequests = 4
  StoreMayFail = FALSE
  OtherConsole = FALSE
  MaxRestarts = 0
  MaxMoves = 3
SPECIFICATION FairSpec
INVARIANTS WatcherFollowsSelection
PROPERTIES SelectionIsReached
CHECK_DEADLOCK FALSE
