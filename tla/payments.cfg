SPECIFICATION Spec
CONSTANTS
  p1 = p1
  p2 = p2
  h1 = h1
  h2 = h2
  Reconciler = Reconciler
  NoCaller = NoCaller
  Payments = {p1, p2}
  Handlers = {h1, h2}
  RowLock = "taken"
  MaxCandidates = 2
  MaxFaults = 1
  MaxMisled = 1
  MaxEdits = 1
SYMMETRY Symmetry
INVARIANTS
  TypeOK
  AtMostOneSubscription
  CreditedIffSuccess
  VerdictOnPending
  ConfirmedOnce
  PaidNotFailed
PROPERTIES
  LedgerSpec
