CONSTANTS
  Id = {t1, t2}
  Hidden = {t2}
  Foreign = {}
  Disks <- MCDisks
  Forms = {"resolver"}
  MaxLost = 0
  MaxMoves = 1
  MaxAsks = 2
SPECIFICATION Spec
INVARIANTS GrantWasTrue
CHECK_DEADLOCK FALSE
