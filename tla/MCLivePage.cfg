CONSTANTS
  Roots = {a, b}
  NoRoot = none
  BootRoot = a
  HasInitial = FALSE
  HasFactory = TRUE
  MaxMoves = 2
  Streams = {s1}
  MaxQueued = 1
  MaxWrites = 2
SPECIFICATION FairSpec
INVARIANTS TypeOK OneWatcherAtMost NoOrphan FreshMeansLive OneEventSource
PROPERTIES ImplementsSingleWatcher LeftBehindCatchesUp PageCatchesUp
CHECK_DEADLOCK FALSE
