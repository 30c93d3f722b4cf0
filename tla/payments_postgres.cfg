SPECIFICATION FairSpec
CONSTANTS
  p1 = p1
  p2 = p2
  h1 = h1
  Reconciler = Reconciler
  NoCaller = NoCaller
  Payments = {p1}
  Handlers = {h1}
  RowLock = "refused"
  MaxCandidates = 2
  MaxFaults = 1
  MaxMisled = 1
  MaxEdits = 0
PROPERTIES
  PaidSettles
