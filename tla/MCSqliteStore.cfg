CONSTANTS
  old = old  new = new
  c1 = c1  c2 = c2  c3 = c3
  p = p
  Process = {old, new}
  Knows <- MCKnows
  Conn = {c1, c2, c3}
  ProcessOf <- MCProcessOf
  Seed = {seed}
  Asks <- MCAsks
  Named = {seed, c1}
  Spelling = {"here", "link", "relative"}
  Path = {p}
  Denotes <- MCDenotes
  NoPath = NoPath
  NoId = NoId
  NoConn = NoConn
  Top = 3
  MaxFaults = 1
SPECIFICATION LiveSpec
INVARIANTS TypeOK VersionTellsTables NoRawError
PROPERTIES NewerIsUntouched CallsReturn ImplementsRegistry
CHECK_DEADLOCK FALSE
