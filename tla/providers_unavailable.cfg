SPECIFICATION Spec
CONSTANTS
  r1 = r1
  r2 = r2
  NoRequest = NoRequest
  NoProvider = NoProvider
  Requests = {r1, r2}
  Providers = {1, 2}
  Catalogs <- YouTubeRows
  Worlds <- AllFine
  SiteErrors <- Unavailable
  Threads = 1
  MaxHung = 0
  MaxEdits = 0
CHECK_DEADLOCK FALSE
INVARIANTS
  RefusalIsTrue
