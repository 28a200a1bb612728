CONSTANTS
  Planning = planning
  Factory = factory
  DirKind = {results}
  ParentKind = {factory, metrics}
  MaxChanges = 2
  MaxMoves = 2
SPECIFICATION Spec
INVARIANTS EveryDirWatched
CHECK_DEADLOCK FALSE
