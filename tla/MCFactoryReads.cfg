SPECIFICATION Spec
CONSTANTS
  Doc <- MCDoc
  Kind <- MCKind
  Cost <- MCCost
  Level <- MCLevel
  Ids <- MCIds
  Model <- MCModel
  NoModel = 0
  ByModel <- MCByModel
  Shown <- MCShown
  MAX_SKIPPED_LINES = 1
  FirstNodes <- MCFirstNodes
  AppendOnly <- MCAppendOnly
  Writes <- MCWrites
  MaxBytes = 7
  MaxUnits = 10
  MaxMoves = 4
  MaxFaults = 1
  Manifest <- MCManifest
  Unsafe <- MCUnsafe
  MaxAsks = 2
INVARIANTS TypeOK ClaimsAreTrue QuietReadIsExact ReportIsExact BillNeverShrinks
CHECK_DEADLOCK FALSE
