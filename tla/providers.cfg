SPECIFICATION FairSpec
CONSTANTS
  r1 = r1
  r2 = r2
  NoRequest = NoRequest
  NoProvider = NoProvider
  Requests = {r1, r2}
  Providers = {1, 2}
  Catalogs <- InstagramRows
  Worlds <- OneOdd
  SiteErrors <- PlainErrors
  Threads = 1
  MaxHung = 1
  MaxEdits = 1
CHECK_DEADLOCK FALSE
INVARIANTS
  VerdictJustified
  NeverDeliversRefused
  DirOutlivesTask
PROPERTIES
  JobSettlesAndCleansUp
