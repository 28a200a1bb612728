CONSTANTS
  t1 = t1
  t2 = t2
  a = a
  b = b
  Id = {t1, t2}
  Revision = {a, b}
  NoEntry = NoEntry
  Legacy = Legacy
  Requests = {r1, r2}
  Nobody = Nobody
  Sections <- MCSections
  SectionOf <- MCSectionOf
  Jobs <- MCJobs
  Listed <- MCListed
  MaxFaults = 1
SPECIFICATION Spec
SYMMETRY Symmetry
INVARIANTS TypeOK FilesCoupled RoadmapCoupled
PROPERTIES WritesWereMutable ImplementsAtomicTickets
