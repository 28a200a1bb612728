CONSTANTS
  t1 = t1
  t2 = t2
  a = a
  b = b
  Id = {t1}
  Revision = {a, b}
  NoEntry = NoEntry
  Legacy = Legacy
  Requests = {r1, r2}
  Nobody = Nobody
  Sections <- MCSections
  SectionOf <- MCSectionOf
  Jobs <- MCFewJobs
  Listed <- MCFewListed
  MaxFaults = 2
SPECIFICATION FairSpec
PROPERTIES FilesFollowManifest RequestsFinish
