CONSTANTS
  Planning = planning
  Factory = factory
  DirKind = {results}
  ParentKind = {factory, metrics}
  MaxChanges = 2
  MaxMoves = 2
SPECIFICATION FairSpec
INVARIANTS TypeOK ResumedIsQuiet LateAtMostOne ArtefactDirsWatched
PROPERTIES ChangesReported
CHECK_DEADLOCK FALSE
