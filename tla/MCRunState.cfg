CONSTANTS
  Id = {t1, t2}
  Hidden = {t2}
  Foreign = {"in_review"}
  Disks <- MCDisks
  Forms = {"resolver", "single"}
  MaxLost = 1
  MaxMoves = 2
  MaxAsks = 2
SPECIFICATION Spec
INVARIANTS QuietReadIsSnapshot GrantsAreTrue
PROPERTIES NeverMorePermissive
CHECK_DEADLOCK FALSE
